---------------------- MODULE SupertonicSynthesis_proofs ----------------------
(***************************************************************************)
(* Proofs about SupertonicSynthesis for any plan, batch, chunk and pool    *)
(* size and any number of crashes and reruns.                              *)
(***************************************************************************)
EXTENDS SupertonicSynthesis, FiniteSetTheorems, WellFoundedInduction, TLAPS

-----------------------------------------------------------------------------
(* Positions in a plan                                                     *)

\* A set of numbers that is not empty has a smallest member.
LEMMA Smallest ==
    ASSUME NEW S \in SUBSET Nat, S # {}
    PROVE  \E x \in S : \A y \in S : x <= y
<1>1. PICK x \in S : \A y \in S : <<y, x>> \notin OpToRel(<, Nat)
  BY NatLessThanWellFounded, WFMin
<1>2. ASSUME NEW y \in S PROVE x <= y
  <2>1. <<y, x>> \in Nat \X Nat /\ ~(y < x)
    BY <1>1 DEF OpToRel
  <2> QED
    BY <2>1
<1> QED
  BY <1>2

\* A bounded one has a largest.
LEMMA Largest ==
    ASSUME NEW S \in SUBSET Nat, S # {}, NEW n \in Nat, \A x \in S : x <= n
    PROVE  \E x \in S : \A y \in S : y <= x
<1> DEFINE T == {k \in Nat : \E x \in S : x + k = n}
<1>1. T # {}
  <2>1. PICK x \in S : TRUE
    OBVIOUS
  <2>2. n - x \in Nat /\ x + (n - x) = n
    BY <2>1
  <2> QED
    BY <2>2
<1>2. PICK k \in T : \A j \in T : k <= j
  BY <1>1, Smallest
<1>3. PICK x \in S : x + k = n
  BY <1>2
<1>4. ASSUME NEW y \in S PROVE y <= x
  <2>1. n - y \in Nat /\ y + (n - y) = n
    OBVIOUS
  <2>2. n - y \in T
    BY <2>1
  <2>3. k <= n - y
    BY <1>2, <2>2
  <2>4. x \in Nat /\ y \in Nat /\ k \in Nat
    BY <1>2, <1>3
  <2> QED
    BY <1>3, <2>3, <2>4
<1> QED
  BY <1>4

LEMMA VariantsAreNumbers ==
    N \in Nat /\ \A v \in Variant : v \in Nat /\ v >= 1 /\ v <= N
  BY ConstantsAssumption DEF Variant

\* The oldest variant of a batch is one of it.
LEMMA OldestIsMember ==
    ASSUME NEW S \in SUBSET Variant, S # {}
    PROVE  Oldest(S) \in S
<1>1. \E v \in S : \A u \in S : v <= u
  BY Smallest, ConstantsAssumption DEF Variant
<1> QED
  BY <1>1 DEF Oldest

\* Positions in a plan are numbers of at most N.
LEMMA PositionType ==
    ASSUME NEW S \in SUBSET Variant, NEW v \in Variant
    PROVE  Position(S, v) \in 0 .. N
<1> DEFINE U == {u \in S : u <= v}
<1>1. IsFiniteSet(Variant) /\ Cardinality(Variant) = N
  BY FS_Interval, ConstantsAssumption DEF Variant
<1>2. U \in SUBSET Variant
  OBVIOUS
<1>3. IsFiniteSet(U) /\ Cardinality(U) <= N
  BY <1>1, <1>2, FS_Subset
<1>4. Cardinality(U) \in Nat
  BY <1>3, FS_CardinalityType
<1> QED
  BY <1>3, <1>4, ConstantsAssumption DEF Position

\* A member of a plan is at position 1 at least.
LEMMA OwnPosition ==
    ASSUME NEW S \in SUBSET Variant, NEW v \in S
    PROVE  Position(S, v) \in Nat \ {0}
<1> DEFINE U == {u \in S : u <= v}
<1>1. IsFiniteSet(Variant)
  BY FS_Interval, ConstantsAssumption DEF Variant
<1>2. IsFiniteSet(U)
  BY <1>1, FS_Subset
<1>3. v \in U
  BY VariantsAreNumbers
<1>4. Cardinality(U) \in Nat /\ Cardinality(U) # 0
  BY <1>2, <1>3, FS_CardinalityType, FS_EmptySet
<1> QED
  BY <1>4 DEF Position

\* A member of a plan has a position, and one more than the member before it.
LEMMA NextPosition ==
    ASSUME NEW S \in SUBSET Variant, NEW v \in S, NEW u \in Variant,
           \A w \in S : w < v <=> w <= u
    PROVE  Position(S, v) = Position(S, u) + 1
<1> DEFINE U == {w \in S : w <= u}
<1>1. IsFiniteSet(Variant)
  BY FS_Interval, ConstantsAssumption DEF Variant
<1>2. IsFiniteSet(U)
  BY <1>1, FS_Subset
<1>3. v \notin U
  BY VariantsAreNumbers
<1>4. {w \in S : w <= v} = U \cup {v}
  <2>1. ASSUME NEW w \in S PROVE w <= v <=> w < v \/ w = v
    BY VariantsAreNumbers
  <2> QED
    BY <2>1, VariantsAreNumbers
<1> QED
  BY <1>2, <1>3, <1>4, FS_AddElement DEF Position

LEMMA FirstPosition ==
    ASSUME NEW S \in SUBSET Variant, NEW v \in S, \A w \in S : v <= w
    PROVE  Position(S, v) = 1
<1>1. {w \in S : w <= v} = {v}
  <2>1. ASSUME NEW w \in S PROVE w <= v <=> w = v
    BY VariantsAreNumbers
  <2> QED
    BY <2>1
<1> QED
  BY <1>1, FS_Singleton DEF Position

\* When a chunk of the plan is empty, no variant lies behind it: the positions of
\* a plan have no gaps.
LEMMA EmptyChunkIsLast ==
    ASSUME NEW S \in SUBSET Variant, NEW k \in Nat \ {0}, NEW size \in Nat \ {0},
           Slice(S, k, size) = {}, NEW v \in S
    PROVE  Position(S, v) <= (k - 1) * size
<1> DEFINE c == (k - 1) * size
           Behind == {w \in S : c < Position(S, w)}
<1>0. c \in Nat /\ k * size = c + size
  OBVIOUS
<1> HIDE DEF c
<1> SUFFICES ASSUME ~(Position(S, v) <= c) PROVE FALSE
  BY <1>0 DEF c
<1>1. v \in Behind
  BY <1>0, PositionType
<1>2. PICK x \in Behind : \A y \in Behind : x <= y
  <2>1. Behind \in SUBSET Nat /\ Behind # {}
    BY <1>1, VariantsAreNumbers
  <2> HIDE DEF Behind
  <2> QED
    BY <2>1, Smallest
<1> DEFINE Before == {w \in S : w < x}
<1>3. Position(S, x) <= c + 1
  <2>1. CASE Before = {}
    <3>1. \A w \in S : x <= w
      BY <2>1, VariantsAreNumbers
    <3> QED
      BY <3>1, FirstPosition, <1>0
  <2>2. CASE Before # {}
    <3>1. Before \subseteq Nat /\ N \in Nat /\ \A w \in Before : w <= N
      BY VariantsAreNumbers
    <3>2. PICK u \in Before : \A w \in Before : w <= u
      BY <2>2, <3>1, Largest
    <3>3. Position(S, x) = Position(S, u) + 1
      <4>1. \A w \in S : w < x <=> w <= u
        BY <3>2, VariantsAreNumbers
      <4> QED
        BY <4>1, NextPosition
    <3>4. u \notin Behind
      BY <1>2, <3>2, VariantsAreNumbers
    <3> QED
      BY <1>0, <3>2, <3>3, <3>4, PositionType
  <2> QED
    BY <2>1, <2>2
<1>4. Position(S, x) <= k * size
  BY <1>0, <1>3, PositionType
<1>5. x \in Slice(S, k, size)
  BY <1>2, <1>4 DEF Slice, c
<1> QED
  BY <1>5

\* There are no more chunks than variants.
LEMMA ChunkBound ==
    ASSUME NEW S \in SUBSET Variant, NEW k \in Nat \ {0}, NEW size \in Nat \ {0},
           Slice(S, k, size) # {}
    PROVE  k <= N
<1>1. PICK v \in S : (k - 1) * size < Position(S, v)
  BY DEF Slice
<1>2. Position(S, v) \in 0 .. N
  BY PositionType
<1>3. k - 1 <= (k - 1) * size
  OBVIOUS
<1>4. (k - 1) * size \in Nat
  OBVIOUS
<1> QED
  BY <1>1, <1>2, <1>3, <1>4, ConstantsAssumption

-----------------------------------------------------------------------------
(* The inductive invariant                                                 *)

\* What a process that does not synthesize has forgotten, or not yet begun.
Idle ==
    /\ pc \in {"start", "passed", "raised", "dead"} =>
          rows = NoRows /\ existing = {} /\ chunk = 1
    /\ pc = "synthesize" => chunk = 1
    /\ pc \notin {"synthesize", "failing"} =>
          todo = {} /\ batch = {} /\ job = [v \in Variant |-> "none"]

\* A variant waits for the GPU, for the pool, for its conversion, or has a row.
\* A variant has at most one row more than shards were read.
OnePlace ==
    \A v \in Variant :
        /\ v \in todo => v \notin batch
        /\ v \in todo \cup batch => job[v] = "none"
        /\ v \in todo \cup batch \/ job[v] # "none" => rows[v] = 0
        /\ rows[v] <= chunk

\* Memory is ahead of no file.
OnDisk ==
    /\ \A v \in Variant :
          /\ job[v] = "native" => v \in native
          /\ job[v] = "done" => v \in Paired
    /\ existing \subseteq Paired

Ones == [v \in Variant |-> 1]
NoShards == \A k \in ShardIndex : shards[k] = {}

\* A clean run, as far as synthesis goes: existing variants have no row yet, the
\* others wait or have one.
Planned ==
    /\ pc \in {"start", "synthesize", "failing"} => NoShards
    /\ pc \in {"synthesize", "failing"} =>
          /\ \A v \in existing : v \notin todo \cup batch /\ job[v] = "none" /\ rows[v] = 0
          /\ \A v \in Variant \ existing :
                v \in todo \cup batch \/ job[v] # "none" \/ rows[v] = 1

\* As far as reconstruction goes: the existing variants of the chunks before this
\* one have a row, and there are no shards of later ones.
Rebuilt ==
    pc = "reconstruct" =>
        /\ \A k \in ShardIndex : k >= chunk => shards[k] = {}
        /\ \A v \in Variant \ existing : rows[v] = 1
        /\ \A v \in existing :
              rows[v] = IF Position(existing, v) <= (chunk - 1) * ChunkSize THEN 1 ELSE 0

Published ==
    /\ pc \in {"writeAudio", "writeProbe", "writeSummary"} => rows = Ones
    /\ pc \in {"writeProbe", "writeSummary", "passed"} => audioManifest = Ones
    /\ audioManifest \in {NoFile, Ones}

\* Shards are never removed: a run that finds none had none before it either.
CleanRun ==
    /\ NoShards => emptyShards
    /\ emptyShards => Planned /\ Rebuilt /\ Published

IInv == TypeOK /\ Idle /\ OnePlace /\ OnDisk /\ RowsBacked /\ CleanRun

JobStage == {"none", "queued", "started", "native", "done", "failed"}

\* What a process begins with has the right types.
LEMMA StartTypes ==
    /\ NoRows \in RowList /\ 1 \in 1 .. N + 1
    /\ [v \in Variant |-> "none"] \in [Variant -> JobStage]
    /\ MaxCrashes \in Nat /\ MaxReruns \in Nat
<1>1. 0 \in 0 .. N + 1 /\ 1 \in 1 .. N + 1
  BY VariantsAreNumbers
<1> QED
  BY <1>1, ConstantsAssumption DEF NoRows, RowList, JobStage

\* Nothing has been written or begun at first.
LEMMA InitIInv == Init => IInv
<1> SUFFICES ASSUME Init PROVE IInv
  OBVIOUS
<1> USE ConstantsAssumption DEF Init
<1>1. TypeOK
  <2>1. shards \in [ShardIndex -> SUBSET Variant] /\ job \in [Variant -> JobStage]
    BY StartTypes
  <2>2. rows \in RowList /\ chunk \in 1 .. N + 1 /\ crashes \in 0 .. MaxCrashes /\ reruns \in 0 .. MaxReruns
    BY StartTypes
  <2>3. {nativeManifest, audioManifest, probeManifest} \subseteq RowList \cup {NoFile}
    OBVIOUS
  <2> QED
    BY <2>1, <2>2, <2>3 DEF TypeOK, JobStage
<1>2. Idle
  BY DEF Idle
<1>3. OnePlace
  BY DEF OnePlace, NoRows
<1>4. OnDisk
  BY DEF OnDisk
<1>5. RowsBacked
  BY DEF RowsBacked, NoRows
<1>6. CleanRun
  BY DEF CleanRun, NoShards, Planned, Rebuilt, Published
<1> QED
  BY <1>1, <1>2, <1>3, <1>4, <1>5, <1>6 DEF IInv

\* Rows of a set of variants that have less than N rows are a list of rows.
LEMMA AddRowsType ==
    ASSUME NEW r \in RowList, NEW S, \A v \in Variant : v \in S => r[v] <= N
    PROVE  /\ AddRows(r, S) \in RowList
           /\ \A v \in Variant : AddRows(r, S)[v] = IF v \in S THEN r[v] + 1 ELSE r[v]
<1>1. ASSUME NEW v \in Variant
      PROVE  (IF v \in S THEN r[v] + 1 ELSE r[v]) \in 0 .. N + 1
  BY VariantsAreNumbers DEF RowList
<1> QED
  BY <1>1 DEF AddRows, RowList

\* A reconstruction step moves on to a chunk number within bounds.
LEMMA NextChunk ==
    ASSUME TypeOK, Chunk(chunk) # {}
    PROVE  chunk \in 1 .. N /\ chunk + 1 \in 1 .. N + 1
<1>1. chunk \in Nat \ {0} /\ existing \in SUBSET Variant
  BY VariantsAreNumbers DEF TypeOK
<1>2. chunk <= N
  BY <1>1, ChunkBound, ConstantsAssumption DEF Chunk
<1> QED
  BY <1>1, <1>2, VariantsAreNumbers

\* Every step keeps the types.
LEMMA TypeOKStep == IInv /\ [Next]_vars => TypeOK'
<1> SUFFICES ASSUME IInv, [Next]_vars PROVE TypeOK'
  OBVIOUS
<1> USE ConstantsAssumption DEF IInv, TypeOK, files, manifests, memory, history
<1>1. CASE MainThread
  <2>1. CASE ReuseManifests
    BY <2>1, StartTypes DEF ReuseManifests, Forget, JobStage
  <2>2. CASE RefuseHalfPairs
    BY <2>2, StartTypes DEF RefuseHalfPairs, Forget, JobStage
  <2>3. CASE SplitPlan
    <3>1. existing' \subseteq Variant /\ todo' \subseteq Variant
      BY <2>3 DEF SplitPlan, Paired
    <3> QED
      BY <2>3, <3>1 DEF SplitPlan
  <2>4. CASE Synthesize
    <3>1. batch' \subseteq Variant
      BY <2>4 DEF Synthesize, FirstBatch, Slice
    <3> QED
      BY <2>4, <3>1 DEF Synthesize
  <2>5. CASE Submit
    BY <2>5 DEF Submit
  <2>6. CASE Collect
    <3>1. rows' \in RowList
      <4>1. \A v \in Finished : rows[v] = 0
        BY DEF OnePlace, Finished
      <4>2. AddRows(rows, Finished) \in RowList
        BY <4>1, AddRowsType, VariantsAreNumbers
      <4> QED
        BY <2>6, <4>2 DEF Collect
    <3>2. job' \in [Variant -> JobStage]
      BY <2>6 DEF Collect, JobStage
    <3> QED
      BY <2>6, <3>1, <3>2 DEF Collect, MustCollect, JobStage
  <2>7. CASE PoolShutdown
    BY <2>7, StartTypes DEF PoolShutdown, Forget, JobStage
  <2>8. CASE SynthesisDone
    BY <2>8 DEF SynthesisDone
  <2>9. CASE ReuseShard
    <3>1. chunk \in 1 .. N /\ chunk' \in 1 .. N + 1
      BY <2>9, NextChunk DEF ReuseShard
    <3>2. \A v \in Variant : rows[v] <= N
      BY <3>1, VariantsAreNumbers DEF OnePlace, RowList
    <3>3. rows' \in RowList
      BY <2>9, <3>2, AddRowsType DEF ReuseShard
    <3> QED
      BY <2>9, <3>1, <3>3 DEF ReuseShard
  <2>10. CASE RefuseShard
    BY <2>10, StartTypes DEF RefuseShard, Forget, JobStage
  <2>11. CASE BuildShard
    <3>1. chunk \in 1 .. N /\ chunk' \in 1 .. N + 1
      BY <2>11, NextChunk DEF BuildShard
    <3>2. \A v \in Variant : rows[v] <= N
      BY <3>1, VariantsAreNumbers DEF OnePlace, RowList
    <3>3. rows' \in RowList
      BY <2>11, <3>2, AddRowsType DEF BuildShard
    <3>4. shards' \in [ShardIndex -> SUBSET Variant]
      BY <2>11 DEF BuildShard, Chunk, Slice
    <3> QED
      BY <2>11, <3>1, <3>3, <3>4 DEF BuildShard
  <2>12. CASE WriteNativeManifest
    BY <2>12 DEF WriteNativeManifest
  <2>13. CASE WriteAudioManifest
    BY <2>13 DEF WriteAudioManifest
  <2>14. CASE WriteProbeManifest
    BY <2>14 DEF WriteProbeManifest
  <2>15. CASE WriteSummary
    BY <2>15, StartTypes DEF WriteSummary, Forget, JobStage
  <2> QED
    BY <1>1, <2>1, <2>2, <2>3, <2>4, <2>5, <2>6, <2>7, <2>8, <2>9, <2>10, <2>11, <2>12, <2>13, <2>14, <2>15 DEF MainThread
<1>2. CASE PoolThread
  <2>1. ASSUME NEW v \in Variant, JobStart(v) PROVE TypeOK'
    BY <2>1 DEF JobStart
  <2>2. ASSUME NEW v \in Variant, WriteNative(v) PROVE TypeOK'
    BY <2>2 DEF WriteNative, JobStep
  <2>3. ASSUME NEW v \in Variant, Convert(v) PROVE TypeOK'
    BY <2>3 DEF Convert, JobStep
  <2> QED
    BY <1>2, <2>1, <2>2, <2>3 DEF PoolThread
<1>3. CASE SynthesizeRaises
  BY <1>3 DEF SynthesizeRaises
<1>4. ASSUME NEW v \in Variant, JobFails(v) PROVE TypeOK'
  BY <1>4 DEF JobFails, JobStep
<1>5. CASE Crash
  BY <1>5, StartTypes DEF Crash, Forget, JobStage
<1>6. CASE Restart
  BY <1>6 DEF Restart
<1>7. CASE UNCHANGED vars
  BY <1>7 DEF vars, files, manifests, memory, history
<1> QED
  BY <1>1, <1>2, <1>3, <1>4, <1>5, <1>6, <1>7 DEF Next

\* A process that has ended has forgotten everything.
LEMMA IdleStep == IInv /\ [Next]_vars => Idle'
<1> SUFFICES ASSUME IInv, [Next]_vars PROVE Idle'
  OBVIOUS
<1> USE DEF IInv, Idle, files, manifests, memory, history
<1>1. CASE MainThread
  <2>1. CASE ReuseManifests
    BY <2>1 DEF ReuseManifests, Forget
  <2>2. CASE RefuseHalfPairs
    BY <2>2 DEF RefuseHalfPairs, Forget
  <2>3. CASE SplitPlan
    BY <2>3 DEF SplitPlan
  <2>4. CASE Synthesize
    BY <2>4 DEF Synthesize
  <2>5. CASE Submit
    BY <2>5 DEF Submit
  <2>6. CASE Collect
    BY <2>6 DEF Collect, MustCollect
  <2>7. CASE PoolShutdown
    BY <2>7 DEF PoolShutdown, Forget
  <2>8. CASE SynthesisDone
    <3>1. job \in [Variant -> JobStage] /\ \A v \in Variant : job[v] = "none"
      BY <2>8 DEF SynthesisDone, pending, TypeOK, JobStage
    <3>2. job = [v \in Variant |-> "none"]
      BY <3>1
    <3> QED
      BY <2>8, <3>2 DEF SynthesisDone
  <2>9. CASE ReuseShard
    BY <2>9 DEF ReuseShard
  <2>10. CASE RefuseShard
    BY <2>10 DEF RefuseShard, Forget
  <2>11. CASE BuildShard
    BY <2>11 DEF BuildShard
  <2>12. CASE WriteNativeManifest
    BY <2>12 DEF WriteNativeManifest
  <2>13. CASE WriteAudioManifest
    BY <2>13 DEF WriteAudioManifest
  <2>14. CASE WriteProbeManifest
    BY <2>14 DEF WriteProbeManifest
  <2>15. CASE WriteSummary
    BY <2>15 DEF WriteSummary, Forget
  <2> QED
    BY <1>1, <2>1, <2>2, <2>3, <2>4, <2>5, <2>6, <2>7, <2>8, <2>9, <2>10, <2>11, <2>12, <2>13, <2>14, <2>15 DEF MainThread
<1>2. CASE PoolThread
  <2>1. ASSUME NEW v \in Variant, JobStart(v) PROVE Idle'
    BY <2>1 DEF JobStart
  <2>2. ASSUME NEW v \in Variant, WriteNative(v) PROVE Idle'
    BY <2>2 DEF WriteNative, JobStep
  <2>3. ASSUME NEW v \in Variant, Convert(v) PROVE Idle'
    BY <2>3 DEF Convert, JobStep
  <2> QED
    BY <1>2, <2>1, <2>2, <2>3 DEF PoolThread
<1>3. CASE SynthesizeRaises
  BY <1>3 DEF SynthesizeRaises
<1>4. ASSUME NEW v \in Variant, JobFails(v) PROVE Idle'
  BY <1>4 DEF JobFails, JobStep
<1>5. CASE Crash
  BY <1>5 DEF Crash, Forget
<1>6. CASE Restart
  BY <1>6 DEF Restart, Ended
<1>7. CASE UNCHANGED vars
  BY <1>7 DEF vars, files, manifests, memory, history
<1> QED
  BY <1>1, <1>2, <1>3, <1>4, <1>5, <1>6, <1>7 DEF Next

\* Nothing is in two places: what is handed on is taken away in the same step.
LEMMA OnePlaceStep == IInv /\ [Next]_vars => OnePlace'
<1> SUFFICES ASSUME IInv, [Next]_vars PROVE OnePlace'
  OBVIOUS
<1>0. /\ rows \in [Variant -> Nat] /\ chunk \in Nat /\ N \in Nat
     /\ job \in [Variant -> JobStage]
     /\ todo \subseteq Variant /\ batch \subseteq Variant
  BY VariantsAreNumbers DEF IInv, TypeOK, RowList, JobStage
<1> USE DEF IInv, OnePlace, files, manifests, memory, history
<1>1. CASE MainThread
  <2>1. CASE ReuseManifests
    <3>1. /\ todo' = {} /\ batch' = {} /\ rows' = NoRows /\ chunk' = 1
          /\ \A v \in Variant : job'[v] = "none"
      BY <2>1 DEF ReuseManifests, Forget
    <3> QED
      BY <3>1 DEF NoRows
  <2>2. CASE RefuseHalfPairs
    <3>1. /\ todo' = {} /\ batch' = {} /\ rows' = NoRows /\ chunk' = 1
          /\ \A v \in Variant : job'[v] = "none"
      BY <2>2 DEF RefuseHalfPairs, Forget
    <3> QED
      BY <3>1 DEF NoRows
  <2>3. CASE SplitPlan
    BY <2>3, <1>0 DEF SplitPlan, Idle, NoRows
  <2>4. CASE Synthesize
    <3>1. batch' \subseteq todo
      BY <2>4 DEF Synthesize, FirstBatch, Slice
    <3> QED
      BY <2>4, <3>1 DEF Synthesize
  <2>5. CASE Submit
    <3>1. Oldest(batch) \in batch /\ Oldest(batch) \in Variant
      BY <2>5, <1>0, OldestIsMember DEF Submit
    <3> QED
      BY <2>5, <1>0, <3>1 DEF Submit
  <2>6. CASE Collect
    <3>1. \A v \in Finished : v \in Variant /\ job[v] # "none" /\ rows[v] = 0
      BY <1>0 DEF Finished
    <3>2. chunk >= 1
      BY VariantsAreNumbers DEF IInv, TypeOK
    <3>3. CASE \E v \in Finished : job[v] = "failed"
      BY <2>6, <3>3 DEF Collect
    <3>4. CASE ~(\E v \in Finished : job[v] = "failed")
      <4>1. \A v \in Variant :
              /\ rows'[v] = IF v \in Finished THEN rows[v] + 1 ELSE rows[v]
              /\ job'[v] = IF v \in Finished THEN "none" ELSE job[v]
        BY <2>6, <3>4 DEF Collect, AddRows
      <4>2. UNCHANGED <<todo, batch, chunk>>
        BY <2>6 DEF Collect
      <4> QED
        BY <1>0, <3>1, <3>2, <4>1, <4>2
    <3> QED
      BY <3>3, <3>4
  <2>7. CASE PoolShutdown
    <3>1. /\ todo' = {} /\ batch' = {} /\ rows' = NoRows /\ chunk' = 1
          /\ \A v \in Variant : job'[v] = "none"
      BY <2>7 DEF PoolShutdown, Forget
    <3> QED
      BY <3>1 DEF NoRows
  <2>8. CASE SynthesisDone
    BY <2>8 DEF SynthesisDone
  <2>9. CASE ReuseShard
    <3>1. \A v \in Variant : job[v] = "none" /\ v \notin todo \cup batch
      BY <2>9 DEF ReuseShard, Idle
    <3>2. UNCHANGED <<todo, batch, job>> /\ chunk' = chunk + 1
      BY <2>9 DEF ReuseShard
    <3>3. \A v \in Variant : rows'[v] <= rows[v] + 1
      BY <2>9, <1>0 DEF ReuseShard, AddRows
    <3>4. \A v \in Variant : rows'[v] <= chunk'
      <4>1. rows' \in [Variant -> Nat]
        BY <2>9, <1>0 DEF ReuseShard, AddRows
      <4> QED
        BY <1>0, <3>2, <3>3, <4>1
    <3> QED
      BY <3>1, <3>2, <3>4
  <2>10. CASE RefuseShard
    <3>1. /\ todo' = {} /\ batch' = {} /\ rows' = NoRows /\ chunk' = 1
          /\ \A v \in Variant : job'[v] = "none"
      BY <2>10 DEF RefuseShard, Forget
    <3> QED
      BY <3>1 DEF NoRows
  <2>11. CASE BuildShard
    <3>1. \A v \in Variant : job[v] = "none" /\ v \notin todo \cup batch
      BY <2>11 DEF BuildShard, Idle
    <3>2. UNCHANGED <<todo, batch, job>> /\ chunk' = chunk + 1
      BY <2>11 DEF BuildShard
    <3>3. \A v \in Variant : rows'[v] <= rows[v] + 1
      BY <2>11, <1>0 DEF BuildShard, AddRows
    <3>4. \A v \in Variant : rows'[v] <= chunk'
      <4>1. rows' \in [Variant -> Nat]
        BY <2>11, <1>0 DEF BuildShard, AddRows
      <4> QED
        BY <1>0, <3>2, <3>3, <4>1
    <3> QED
      BY <3>1, <3>2, <3>4
  <2>12. CASE WriteNativeManifest
    BY <2>12 DEF WriteNativeManifest
  <2>13. CASE WriteAudioManifest
    BY <2>13 DEF WriteAudioManifest
  <2>14. CASE WriteProbeManifest
    BY <2>14 DEF WriteProbeManifest
  <2>15. CASE WriteSummary
    <3>1. /\ todo' = {} /\ batch' = {} /\ rows' = NoRows /\ chunk' = 1
          /\ \A v \in Variant : job'[v] = "none"
      BY <2>15 DEF WriteSummary, Forget
    <3> QED
      BY <3>1 DEF NoRows
  <2> QED
    BY <1>1, <2>1, <2>2, <2>3, <2>4, <2>5, <2>6, <2>7, <2>8, <2>9, <2>10, <2>11, <2>12, <2>13, <2>14, <2>15 DEF MainThread
<1>2. CASE PoolThread
  <2>1. ASSUME NEW v \in Variant, JobStart(v) PROVE OnePlace'
    BY <2>1 DEF JobStart
  <2>2. ASSUME NEW v \in Variant, WriteNative(v) PROVE OnePlace'
    BY <2>2 DEF WriteNative, JobStep
  <2>3. ASSUME NEW v \in Variant, Convert(v) PROVE OnePlace'
    BY <2>3 DEF Convert, JobStep
  <2> QED
    BY <1>2, <2>1, <2>2, <2>3 DEF PoolThread
<1>3. CASE SynthesizeRaises
  BY <1>3 DEF SynthesizeRaises
<1>4. ASSUME NEW v \in Variant, JobFails(v) PROVE OnePlace'
  BY <1>4, <1>0 DEF JobFails, JobStep
<1>5. CASE Crash
  <3>1. /\ todo' = {} /\ batch' = {} /\ rows' = NoRows /\ chunk' = 1
        /\ \A v \in Variant : job'[v] = "none"
    BY <1>5 DEF Crash, Forget
  <3> QED
    BY <3>1 DEF NoRows
<1>6. CASE Restart
  BY <1>6 DEF Restart
<1>7. CASE UNCHANGED vars
  BY <1>7 DEF vars, files, manifests, memory, history
<1> QED
  BY <1>1, <1>2, <1>3, <1>4, <1>5, <1>6, <1>7 DEF Next

\* Files only grow.
LEMMA OnDiskStep == IInv /\ [Next]_vars => OnDisk'
<1> SUFFICES ASSUME IInv, [Next]_vars PROVE OnDisk'
  OBVIOUS
<1>0. /\ rows \in [Variant -> Nat] /\ chunk \in Nat /\ N \in Nat
     /\ job \in [Variant -> JobStage]
     /\ todo \subseteq Variant /\ batch \subseteq Variant
  BY VariantsAreNumbers DEF IInv, TypeOK, RowList, JobStage
<1> USE DEF IInv, OnDisk, Paired, files, manifests, memory, history
<1>1. CASE MainThread
  <2>1. CASE ReuseManifests
    BY <2>1 DEF ReuseManifests, Forget
  <2>2. CASE RefuseHalfPairs
    BY <2>2 DEF RefuseHalfPairs, Forget
  <2>3. CASE SplitPlan
    BY <2>3 DEF SplitPlan
  <2>4. CASE Synthesize
    BY <2>4 DEF Synthesize
  <2>5. CASE Submit
    BY <2>5 DEF Submit
  <2>6. CASE Collect
    BY <2>6 DEF Collect, MustCollect
  <2>7. CASE PoolShutdown
    BY <2>7 DEF PoolShutdown, Forget
  <2>8. CASE SynthesisDone
    BY <2>8 DEF SynthesisDone
  <2>9. CASE ReuseShard
    BY <2>9 DEF ReuseShard
  <2>10. CASE RefuseShard
    BY <2>10 DEF RefuseShard, Forget
  <2>11. CASE BuildShard
    BY <2>11 DEF BuildShard
  <2>12. CASE WriteNativeManifest
    BY <2>12 DEF WriteNativeManifest
  <2>13. CASE WriteAudioManifest
    BY <2>13 DEF WriteAudioManifest
  <2>14. CASE WriteProbeManifest
    BY <2>14 DEF WriteProbeManifest
  <2>15. CASE WriteSummary
    BY <2>15 DEF WriteSummary, Forget
  <2> QED
    BY <1>1, <2>1, <2>2, <2>3, <2>4, <2>5, <2>6, <2>7, <2>8, <2>9, <2>10, <2>11, <2>12, <2>13, <2>14, <2>15 DEF MainThread
<1>2. CASE PoolThread
  <2>1. ASSUME NEW v \in Variant, JobStart(v) PROVE OnDisk'
    BY <2>1 DEF JobStart
  <2>2. ASSUME NEW v \in Variant, WriteNative(v) PROVE OnDisk'
    BY <2>2 DEF WriteNative, JobStep
  <2>3. ASSUME NEW v \in Variant, Convert(v) PROVE OnDisk'
    BY <2>3 DEF Convert, JobStep
  <2> QED
    BY <1>2, <2>1, <2>2, <2>3 DEF PoolThread
<1>3. CASE SynthesizeRaises
  BY <1>3 DEF SynthesizeRaises
<1>4. ASSUME NEW v \in Variant, JobFails(v) PROVE OnDisk'
  BY <1>4, <1>0 DEF JobFails, JobStep
<1>5. CASE Crash
  BY <1>5 DEF Crash, Forget
<1>6. CASE Restart
  BY <1>6 DEF Restart
<1>7. CASE UNCHANGED vars
  BY <1>7 DEF vars, files, manifests, memory, history
<1> QED
  BY <1>1, <1>2, <1>3, <1>4, <1>5, <1>6, <1>7 DEF Next

\* Rows are made of what is on disk.
LEMMA RowsBackedStep == IInv /\ [Next]_vars => RowsBacked'
<1> SUFFICES ASSUME IInv, [Next]_vars PROVE RowsBacked'
  OBVIOUS
<1> USE DEF IInv, RowsBacked, Paired, files, manifests, memory, history
<1>1. CASE MainThread
  <2>1. CASE ReuseManifests
    <3>1. /\ rows' = NoRows /\ UNCHANGED <<native, final, shards, nativeManifest, audioManifest>>
      BY <2>1 DEF ReuseManifests, Forget
    <3> QED
      BY <3>1 DEF NoRows
  <2>2. CASE RefuseHalfPairs
    <3>1. /\ rows' = NoRows /\ UNCHANGED <<native, final, shards, nativeManifest, audioManifest>>
      BY <2>2 DEF RefuseHalfPairs, Forget
    <3> QED
      BY <3>1 DEF NoRows
  <2>3. CASE SplitPlan
    BY <2>3 DEF SplitPlan
  <2>4. CASE Synthesize
    BY <2>4 DEF Synthesize
  <2>5. CASE Submit
    BY <2>5 DEF Submit
  <2>6. CASE Collect
    <3>1. \A v \in Finished : job[v] = "failed" \/ v \in Paired
      BY DEF Finished, OnDisk
    <3>2. rows' = rows \/ (rows' = AddRows(rows, Finished) /\ \A v \in Finished : v \in Paired)
      BY <2>6, <3>1 DEF Collect
    <3>3. \A v \in Variant \ Paired : rows'[v] = 0
      BY <3>2 DEF AddRows
    <3> QED
      BY <2>6, <3>3 DEF Collect
  <2>7. CASE PoolShutdown
    <3>1. /\ rows' = NoRows /\ UNCHANGED <<native, final, shards, nativeManifest, audioManifest>>
      BY <2>7 DEF PoolShutdown, Forget
    <3> QED
      BY <3>1 DEF NoRows
  <2>8. CASE SynthesisDone
    BY <2>8 DEF SynthesisDone
  <2>9. CASE ReuseShard
    <3>1. \A v \in Variant \ Paired : v \notin shards[chunk]
      BY <2>9, NextChunk DEF ReuseShard, ShardIndex
    <3>2. \A v \in Variant \ Paired : rows'[v] = 0
      BY <2>9, <3>1 DEF ReuseShard, AddRows
    <3> QED
      BY <2>9, <3>2 DEF ReuseShard
  <2>10. CASE RefuseShard
    <3>1. /\ rows' = NoRows /\ UNCHANGED <<native, final, shards, nativeManifest, audioManifest>>
      BY <2>10 DEF RefuseShard, Forget
    <3> QED
      BY <3>1 DEF NoRows
  <2>11. CASE BuildShard
    <3>1. Chunk(chunk) \subseteq Paired
      BY DEF OnDisk, Chunk, Slice
    <3>2. \A v \in Variant \ Paired : rows'[v] = 0
      BY <2>11, <3>1 DEF BuildShard, AddRows
    <3>3. \A v \in Variant \ Paired, k \in ShardIndex : v \notin shards'[k]
      BY <2>11, <3>1 DEF BuildShard, TypeOK
    <3> QED
      BY <2>11, <3>2, <3>3 DEF BuildShard
  <2>12. CASE WriteNativeManifest
    BY <2>12 DEF WriteNativeManifest
  <2>13. CASE WriteAudioManifest
    BY <2>13 DEF WriteAudioManifest
  <2>14. CASE WriteProbeManifest
    BY <2>14 DEF WriteProbeManifest
  <2>15. CASE WriteSummary
    <3>1. /\ rows' = NoRows /\ UNCHANGED <<native, final, shards, nativeManifest, audioManifest>>
      BY <2>15 DEF WriteSummary, Forget
    <3> QED
      BY <3>1 DEF NoRows
  <2> QED
    BY <1>1, <2>1, <2>2, <2>3, <2>4, <2>5, <2>6, <2>7, <2>8, <2>9, <2>10, <2>11, <2>12, <2>13, <2>14, <2>15 DEF MainThread
<1>2. CASE PoolThread
  <2>1. ASSUME NEW v \in Variant, JobStart(v) PROVE RowsBacked'
    BY <2>1 DEF JobStart
  <2>2. ASSUME NEW v \in Variant, WriteNative(v) PROVE RowsBacked'
    BY <2>2 DEF WriteNative, JobStep
  <2>3. ASSUME NEW v \in Variant, Convert(v) PROVE RowsBacked'
    BY <2>3 DEF Convert, JobStep
  <2> QED
    BY <1>2, <2>1, <2>2, <2>3 DEF PoolThread
<1>3. CASE SynthesizeRaises
  BY <1>3 DEF SynthesizeRaises
<1>4. ASSUME NEW v \in Variant, JobFails(v) PROVE RowsBacked'
  BY <1>4 DEF JobFails, JobStep
<1>5. CASE Crash
  <3>1. /\ rows' = NoRows /\ UNCHANGED <<native, final, shards, nativeManifest, audioManifest>>
    BY <1>5 DEF Crash, Forget
  <3> QED
    BY <3>1 DEF NoRows
<1>6. CASE Restart
  BY <1>6 DEF Restart
<1>7. CASE UNCHANGED vars
  BY <1>7 DEF vars, files, manifests, memory, history
<1> QED
  BY <1>1, <1>2, <1>3, <1>4, <1>5, <1>6, <1>7 DEF Next

\* A run that found no shard goes through its plan once: a shard it reads it has
\* written, the chunks cover the plan, and so every variant gets one row.
LEMMA CleanRunStep == IInv /\ [Next]_vars => CleanRun'
<1> SUFFICES ASSUME IInv, [Next]_vars PROVE CleanRun'
  OBVIOUS
<1>0. /\ rows \in [Variant -> Nat] /\ chunk \in Nat \ {0} /\ N \in Nat
     /\ ChunkSize \in Nat \ {0}
     /\ job \in [Variant -> JobStage]
     /\ todo \subseteq Variant /\ batch \subseteq Variant /\ existing \subseteq Variant
  BY VariantsAreNumbers, ConstantsAssumption DEF IInv, TypeOK, RowList, JobStage
<1> USE DEF IInv, CleanRun, Planned, Rebuilt, Published, files, manifests, memory, history
<1>1. CASE MainThread
  <2>1. CASE ReuseManifests
    <3>1. /\ UNCHANGED <<shards, emptyShards, audioManifest>>
          /\ audioManifest # NoFile /\ pc' = "passed"
      BY <2>1 DEF ReuseManifests, Forget, NoShards, CompleteManifests
    <3> QED
      BY <3>1 DEF NoShards
  <2>2. CASE RefuseHalfPairs
    <3>1. /\ UNCHANGED <<shards, emptyShards, audioManifest>>
          /\ pc' = "raised"
      BY <2>2 DEF RefuseHalfPairs, Forget, NoShards
    <3> QED
      BY <3>1 DEF NoShards
  <2>3. CASE SplitPlan
    <3>1. /\ UNCHANGED <<shards, emptyShards, audioManifest, rows, chunk, job, batch>>
          /\ existing' = Paired /\ todo' = Variant \ existing'
          /\ pc = "start" /\ pc' = IF todo' = {} THEN "reconstruct" ELSE "synthesize"
      BY <2>3 DEF SplitPlan, NoShards
    <3>2. batch = {} /\ chunk = 1 /\ \A v \in Variant : rows[v] = 0 /\ job[v] = "none"
      BY <3>1 DEF Idle, NoRows
    <3>3. \A v \in existing' : v \in Variant
      BY <3>1 DEF Paired, TypeOK
    <3>4. Planned' \/ ~emptyShards
      BY <3>1, <3>2, <3>3 DEF NoShards
    <3>5. Rebuilt' \/ ~emptyShards
      <4>1. SUFFICES ASSUME pc' = "reconstruct", emptyShards PROVE Rebuilt'
        BY DEF Rebuilt
      <4>2. NoShards /\ Variant \ existing' = {}
        BY <3>1, <4>1
      <4>3. ASSUME NEW v \in existing' PROVE ~(Position(existing', v) <= (chunk' - 1) * ChunkSize)
        <5>1. Position(existing', v) \in Nat \ {0}
          BY <3>1, <3>3, OwnPosition DEF Paired, TypeOK
        <5>2. (chunk' - 1) * ChunkSize = 0
          BY <1>0, <3>1, <3>2
        <5> QED
          BY <5>1, <5>2
      <4> QED
        BY <3>1, <3>2, <3>3, <4>2, <4>3 DEF NoShards
    <3> QED
      BY <3>1, <3>4, <3>5 DEF NoShards
  <2>4. CASE Synthesize
    <3>1. /\ UNCHANGED <<shards, emptyShards, audioManifest, rows, chunk, job, existing, pc>>
          /\ pc = "synthesize" /\ batch = {}
          /\ batch' \subseteq todo /\ todo' = todo \ batch'
      BY <2>4 DEF Synthesize, NoShards, FirstBatch, Slice
    <3> QED
      BY <3>1 DEF NoShards
  <2>5. CASE Submit
    <3>1. Oldest(batch) \in batch /\ Oldest(batch) \in Variant
      BY <2>5, <1>0, OldestIsMember DEF Submit
    <3>2. /\ UNCHANGED <<shards, emptyShards, audioManifest, rows, chunk, todo, existing, pc>>
          /\ pc = "synthesize" /\ batch' = batch \ {Oldest(batch)}
          /\ \A v \in Variant : job'[v] = IF v = Oldest(batch) THEN "queued" ELSE job[v]
      BY <2>5, <1>0 DEF Submit, NoShards
    <3> QED
      BY <1>0, <3>1, <3>2 DEF NoShards
  <2>6. CASE Collect
    <3>1. \A v \in Finished : v \in Variant /\ job[v] # "none" /\ rows[v] = 0
      BY <1>0 DEF Finished, OnePlace
    <3>2. /\ UNCHANGED <<shards, emptyShards, audioManifest, chunk, todo, batch, existing>>
          /\ pc = "synthesize"
      BY <2>6 DEF Collect, MustCollect, NoShards
    <3>3. CASE \E v \in Finished : job[v] = "failed"
      BY <2>6, <3>2, <3>3 DEF Collect, NoShards
    <3>4. CASE ~(\E v \in Finished : job[v] = "failed")
      <4>1. /\ pc' = pc
            /\ \A v \in Variant :
                  /\ rows'[v] = IF v \in Finished THEN rows[v] + 1 ELSE rows[v]
                  /\ job'[v] = IF v \in Finished THEN "none" ELSE job[v]
        BY <2>6, <3>4 DEF Collect, AddRows
      <4> QED
        BY <1>0, <3>1, <3>2, <4>1 DEF NoShards
    <3> QED
      BY <3>3, <3>4
  <2>7. CASE PoolShutdown
    <3>1. /\ UNCHANGED <<shards, emptyShards, audioManifest>>
          /\ pc' = "raised"
      BY <2>7 DEF PoolShutdown, Forget, NoShards
    <3> QED
      BY <3>1 DEF NoShards
  <2>8. CASE SynthesisDone
    <3>1. /\ UNCHANGED <<shards, emptyShards, audioManifest, rows, chunk, job, existing>>
          /\ pc = "synthesize" /\ pc' = "reconstruct" /\ todo = {} /\ batch = {}
          /\ \A v \in Variant : job[v] = "none"
      BY <2>8 DEF SynthesisDone, NoShards, pending
    <3>2. chunk = 1
      BY <3>1 DEF Idle
    <3>3. ASSUME NEW v \in existing PROVE ~(Position(existing, v) <= (chunk - 1) * ChunkSize)
      <4>1. Position(existing, v) \in Nat \ {0}
        BY <1>0, OwnPosition
      <4>2. (chunk - 1) * ChunkSize = 0
        BY <1>0, <3>2
      <4> QED
        BY <4>1, <4>2
    <3>4. Rebuilt' \/ ~emptyShards
      BY <1>0, <3>1, <3>3 DEF NoShards
    <3> QED
      BY <3>1, <3>4 DEF NoShards
  <2>9. CASE ReuseShard
    <3>1. /\ UNCHANGED <<shards, emptyShards>> /\ pc = "reconstruct" /\ shards[chunk] # {}
      BY <2>9 DEF ReuseShard, NoShards
    <3>2. chunk \in ShardIndex
      BY <2>9, NextChunk DEF ReuseShard, ShardIndex
    <3>3. ~emptyShards
      BY <1>0, <3>1, <3>2
    <3> QED
      BY <3>1, <3>2, <3>3 DEF NoShards
  <2>10. CASE RefuseShard
    <3>1. /\ UNCHANGED <<shards, emptyShards, audioManifest>>
          /\ pc' = "raised"
      BY <2>10 DEF RefuseShard, Forget, NoShards
    <3> QED
      BY <3>1 DEF NoShards
  <2>11. CASE BuildShard
    <3>1. /\ UNCHANGED <<emptyShards, audioManifest, existing, pc>>
          /\ pc = "reconstruct" /\ Chunk(chunk) # {} /\ chunk' = chunk + 1
          /\ \A v \in Variant : rows'[v] = IF v \in Chunk(chunk) THEN rows[v] + 1 ELSE rows[v]
      BY <2>11 DEF BuildShard, NoShards, AddRows
    <3>2. chunk \in ShardIndex
      BY <2>11, NextChunk DEF BuildShard, ShardIndex
    <3>3. \A k \in ShardIndex : shards'[k] = IF k = chunk THEN Chunk(chunk) ELSE shards[k]
      BY <2>11 DEF BuildShard, TypeOK
    <3>4. ~NoShards'
      BY <3>1, <3>2, <3>3 DEF NoShards
    <3>5. ASSUME emptyShards PROVE Rebuilt'
      <4> DEFINE done == (chunk - 1) * ChunkSize
      <4>0. chunk' - 1 = chunk
        BY <1>0, <3>1
      <4>1. done \in Nat /\ chunk * ChunkSize = done + ChunkSize /\ (chunk' - 1) * ChunkSize = done + ChunkSize
        <5>1. done \in Nat /\ chunk * ChunkSize = done + ChunkSize
          BY <1>0
        <5> QED
          BY <4>0, <5>1
      <4>2. \A k \in ShardIndex : k >= chunk' => shards'[k] = {}
        BY <1>0, <3>1, <3>3, <3>5 DEF ShardIndex
      <4>3. \A v \in Variant \ existing : rows'[v] = 1
        BY <3>1, <3>5 DEF Chunk, Slice
      <4>4. ASSUME NEW v \in existing
            PROVE  rows'[v] = IF Position(existing, v) <= done + ChunkSize THEN 1 ELSE 0
        <5>1. Position(existing, v) \in Nat /\ v \in Variant
          BY <1>0, OwnPosition
        <5>2. v \in Chunk(chunk) <=> done < Position(existing, v) /\ Position(existing, v) <= done + ChunkSize
          BY <4>1 DEF Chunk, Slice
        <5>3. rows[v] = IF Position(existing, v) <= done THEN 1 ELSE 0
          BY <3>1, <3>5
        <5> HIDE DEF done
        <5> QED
          BY <1>0, <3>1, <4>1, <5>1, <5>2, <5>3
      <4> HIDE DEF done
      <4> QED
        BY <3>1, <4>1, <4>2, <4>3, <4>4
    <3> QED
      BY <3>1, <3>4, <3>5
  <2>12. CASE WriteNativeManifest
    <3>1. /\ UNCHANGED <<shards, emptyShards, audioManifest, rows>>
          /\ pc = "reconstruct" /\ pc' = "writeAudio" /\ Chunk(chunk) = {}
      BY <2>12 DEF WriteNativeManifest, NoShards
    <3>2. ASSUME emptyShards PROVE rows = Ones
      <4>1. ASSUME NEW v \in existing PROVE rows[v] = 1
        <5>1. Position(existing, v) <= (chunk - 1) * ChunkSize
          BY <1>0, <3>1, EmptyChunkIsLast DEF Chunk
        <5> QED
          BY <3>1, <3>2, <5>1
      <4>2. \A v \in Variant : rows[v] = 1
        BY <3>1, <3>2, <4>1
      <4> QED
        BY <1>0, <4>2 DEF Ones
    <3> QED
      BY <3>1, <3>2 DEF NoShards
  <2>13. CASE WriteAudioManifest
    <3>1. /\ UNCHANGED <<shards, emptyShards, rows>>
          /\ pc = "writeAudio" /\ pc' = "writeProbe" /\ audioManifest' = rows
      BY <2>13 DEF WriteAudioManifest, NoShards
    <3> QED
      BY <3>1 DEF NoShards
  <2>14. CASE WriteProbeManifest
    <3>1. /\ UNCHANGED <<shards, emptyShards, rows>>
          /\ pc = "writeProbe" /\ pc' = "writeSummary" /\ audioManifest' = audioManifest
      BY <2>14 DEF WriteProbeManifest, NoShards
    <3> QED
      BY <3>1 DEF NoShards
  <2>15. CASE WriteSummary
    <3>1. /\ UNCHANGED <<shards, emptyShards, audioManifest>>
          /\ pc = "writeSummary" /\ pc' = "passed"
      BY <2>15 DEF WriteSummary, Forget, NoShards
    <3> QED
      BY <3>1 DEF NoShards
  <2> QED
    BY <1>1, <2>1, <2>2, <2>3, <2>4, <2>5, <2>6, <2>7, <2>8, <2>9, <2>10, <2>11, <2>12, <2>13, <2>14, <2>15 DEF MainThread
<1>2. CASE PoolThread
  <2>1. ASSUME NEW v \in Variant, JobStart(v) PROVE CleanRun'
    <3>1. /\ UNCHANGED <<shards, emptyShards, audioManifest, rows, chunk, todo, batch, existing, pc>>
          /\ \A w \in Variant : job[w] # "none" => job'[w] # "none"
          /\ \A w \in Variant : w = v \/ job'[w] = job[w]
          /\ job[v] # "none"
      BY <2>1, <1>0 DEF JobStart, NoShards
    <3>2. pc \in {"synthesize", "failing"}
      BY <3>1 DEF Idle
    <3> QED
      BY <1>0, <3>1, <3>2 DEF NoShards
  <2>2. ASSUME NEW v \in Variant, WriteNative(v) PROVE CleanRun'
    <3>1. /\ UNCHANGED <<shards, emptyShards, audioManifest, rows, chunk, todo, batch, existing, pc>>
          /\ \A w \in Variant : job[w] # "none" => job'[w] # "none"
          /\ \A w \in Variant : w = v \/ job'[w] = job[w]
          /\ job[v] # "none"
      BY <2>2, <1>0 DEF WriteNative, JobStep, NoShards
    <3>2. pc \in {"synthesize", "failing"}
      BY <3>1 DEF Idle
    <3> QED
      BY <1>0, <3>1, <3>2 DEF NoShards
  <2>3. ASSUME NEW v \in Variant, Convert(v) PROVE CleanRun'
    <3>1. /\ UNCHANGED <<shards, emptyShards, audioManifest, rows, chunk, todo, batch, existing, pc>>
          /\ \A w \in Variant : job[w] # "none" => job'[w] # "none"
          /\ \A w \in Variant : w = v \/ job'[w] = job[w]
          /\ job[v] # "none"
      BY <2>3, <1>0 DEF Convert, JobStep, NoShards
    <3>2. pc \in {"synthesize", "failing"}
      BY <3>1 DEF Idle
    <3> QED
      BY <1>0, <3>1, <3>2 DEF NoShards
  <2> QED
    BY <1>2, <2>1, <2>2, <2>3 DEF PoolThread
<1>3. CASE SynthesizeRaises
  <3>1. /\ UNCHANGED <<shards, emptyShards, audioManifest, rows, chunk, job, todo, batch, existing>>
        /\ pc = "synthesize" /\ pc' = "failing"
    BY <1>3 DEF SynthesizeRaises, NoShards
  <3> QED
    BY <3>1 DEF NoShards
<1>4. ASSUME NEW v \in Variant, JobFails(v) PROVE CleanRun'
  <3>1. /\ UNCHANGED <<shards, emptyShards, audioManifest, rows, chunk, todo, batch, existing, pc>>
        /\ \A w \in Variant : job[w] # "none" => job'[w] # "none"
        /\ \A w \in Variant : w = v \/ job'[w] = job[w]
        /\ job[v] # "none"
    BY <1>4, <1>0 DEF JobFails, JobStep, NoShards
  <3>2. pc \in {"synthesize", "failing"}
    BY <3>1 DEF Idle
  <3> QED
    BY <1>0, <3>1, <3>2 DEF NoShards
<1>5. CASE Crash
  <3>1. /\ UNCHANGED <<shards, emptyShards, audioManifest>>
        /\ pc' = "dead"
    BY <1>5 DEF Crash, Forget, NoShards
  <3> QED
    BY <3>1 DEF NoShards
<1>6. CASE Restart
  <3>1. /\ UNCHANGED <<shards, audioManifest>>
        /\ emptyShards' = NoShards /\ pc' = "start"
    BY <1>6 DEF Restart, NoShards, NoShards
  <3> QED
    BY <3>1 DEF NoShards
<1>7. CASE UNCHANGED vars
  BY <1>7 DEF vars, files, manifests, memory, history, NoShards
<1> QED
  BY <1>1, <1>2, <1>3, <1>4, <1>5, <1>6, <1>7 DEF Next

\* The invariant holds in every execution.
THEOREM Invariant == Spec => []IInv
<1>1. IInv /\ [Next]_vars => IInv'
  BY TypeOKStep, IdleStep, OnePlaceStep, OnDiskStep, RowsBackedStep, CleanRunStep DEF IInv
<1> QED
  BY InitIInv, <1>1, PTL DEF Spec

\* Every variable keeps its type, for any plan and any number of faults.
THEOREM TypesCorrect == Spec => []TypeOK
<1>1. IInv => TypeOK
  BY DEF IInv
<1> QED
  BY Invariant, <1>1, PTL

\* No row is produced, cached or published for a variant without both files.
THEOREM RowsBackedAlways == Spec => []RowsBacked
<1>1. IInv => RowsBacked
  BY DEF IInv
<1> QED
  BY Invariant, <1>1, PTL

\* A run that passes, and found no shard when it was started, has published every
\* variant of the plan once, however many runs died or failed before it.
THEOREM ManifestCompleteUnlessShards == Spec => []ManifestCompleteFromEmptyShards
<1>1. IInv => ManifestCompleteFromEmptyShards
  BY DEF IInv, CleanRun, Published, Ones, ManifestCompleteFromEmptyShards, ManifestComplete
<1> QED
  BY Invariant, <1>1, PTL


-----------------------------------------------------------------------------
(* A run ends                                                              *)

\* What the main thread still has to do, besides the variants.
Phase ==
    CASE pc = "start" -> 7 * N + 7
      [] pc = "synthesize" -> 6
      [] pc = "reconstruct" -> 5
      [] pc = "writeAudio" -> 3
      [] pc = "writeProbe" -> 2
      [] pc \in {"writeSummary", "failing"} -> 1
      [] OTHER -> 0

\* The variants that the GPU, the pool, a thread, the native WAV, the final WAV and the
\* main thread are still to see.
AtJob(stages) == {v \in Variant : job[v] \in stages}
BeforeSynthesis == todo
BeforeSubmit == todo \cup batch
BeforeStart == BeforeSubmit \cup AtJob({"queued"})
BeforeNative == BeforeStart \cup AtJob({"started"})
BeforeConvert == BeforeNative \cup AtJob({"native"})
BeforeCollect == BeforeConvert \cup AtJob({"done", "failed"})
VariantsLeft ==
    Cardinality(BeforeSynthesis) + Cardinality(BeforeSubmit) + Cardinality(BeforeStart)
      + Cardinality(BeforeNative) + Cardinality(BeforeConvert) + Cardinality(BeforeCollect)
ChunksLeft == IF pc \in {"synthesize", "reconstruct"} THEN N + 1 - chunk ELSE 0

StepsLeft == Phase + VariantsLeft + ChunksLeft

LEMMA VariantsAreFinite == IsFiniteSet(Variant) /\ Cardinality(Variant) = N
<1>1. 1 \in Int /\ N \in Int /\ N >= 1
  BY ConstantsAssumption
<1>2. /\ IsFiniteSet(1 .. N)
      /\ Cardinality(1 .. N) = IF 1 > N THEN 0 ELSE N - 1 + 1
  BY <1>1, FS_Interval
<1> QED
  BY <1>1, <1>2 DEF Variant

\* As variants move on, each of the sets becomes smaller or stays.
LEMMA SmallerCount ==
    ASSUME NEW S \in SUBSET Variant, NEW T \in SUBSET S
    PROVE  /\ Cardinality(S) \in 0 .. N /\ Cardinality(T) \in Nat
           /\ Cardinality(T) <= Cardinality(S)
           /\ T # S => Cardinality(T) < Cardinality(S)
<1>1. IsFiniteSet(S) /\ Cardinality(S) <= N
  BY VariantsAreFinite, FS_Subset
<1>2. IsFiniteSet(T) /\ Cardinality(T) <= Cardinality(S) /\ (Cardinality(S) = Cardinality(T) => S = T)
  BY <1>1, FS_Subset
<1>3. Cardinality(S) \in Nat /\ Cardinality(T) \in Nat
  BY <1>1, <1>2, FS_CardinalityType
<1> QED
  BY <1>1, <1>2, <1>3, VariantsAreNumbers

\* In every state of the right types each of the six sets holds variants only.
SetsOfVariants ==
    /\ BeforeSynthesis \subseteq Variant /\ BeforeSubmit \subseteq Variant /\ BeforeStart \subseteq Variant
    /\ BeforeNative \subseteq Variant /\ BeforeConvert \subseteq Variant /\ BeforeCollect \subseteq Variant

LEMMA SetsAreOfVariants == TypeOK => SetsOfVariants
  BY DEF TypeOK, SetsOfVariants, BeforeSynthesis, BeforeSubmit, BeforeStart, BeforeNative, BeforeConvert,
         BeforeCollect, AtJob

\* The counts in their ranges.
VariantsInRange == VariantsLeft \in 0 .. 6 * N

LEMMA VariantsLeftType == TypeOK => VariantsInRange
<1> USE DEF VariantsInRange
<1> SUFFICES ASSUME TypeOK PROVE VariantsLeft \in 0 .. 6 * N
  OBVIOUS
<1>1. SetsOfVariants
  BY SetsAreOfVariants
<1>2. \A S \in SUBSET Variant : Cardinality(S) \in 0 .. N
  BY SmallerCount
<1>3. /\ Cardinality(BeforeSynthesis) \in 0 .. N /\ Cardinality(BeforeSubmit) \in 0 .. N
      /\ Cardinality(BeforeStart) \in 0 .. N /\ Cardinality(BeforeNative) \in 0 .. N
      /\ Cardinality(BeforeConvert) \in 0 .. N /\ Cardinality(BeforeCollect) \in 0 .. N
  BY <1>1, <1>2 DEF SetsOfVariants
<1> QED
  BY <1>3, VariantsAreNumbers DEF VariantsLeft

\* No variant goes back.
MovesOn ==
    /\ BeforeSynthesis' \subseteq BeforeSynthesis /\ BeforeSubmit' \subseteq BeforeSubmit
    /\ BeforeStart' \subseteq BeforeStart /\ BeforeNative' \subseteq BeforeNative
    /\ BeforeConvert' \subseteq BeforeConvert /\ BeforeCollect' \subseteq BeforeCollect

\* Some variant leaves one of the sets.
OneMovesOn ==
    \/ BeforeSynthesis' # BeforeSynthesis \/ BeforeSubmit' # BeforeSubmit
    \/ BeforeStart' # BeforeStart \/ BeforeNative' # BeforeNative
    \/ BeforeConvert' # BeforeConvert \/ BeforeCollect' # BeforeCollect

LEMMA VariantsShrink ==
    ASSUME TypeOK, MovesOn
    PROVE  \E k \in Nat : /\ VariantsLeft' = k /\ k <= VariantsLeft
                          /\ OneMovesOn => k < VariantsLeft
<1> DEFINE a == Cardinality(BeforeSynthesis)
           b == Cardinality(BeforeSubmit)
           c == Cardinality(BeforeStart)
           d == Cardinality(BeforeNative)
           e == Cardinality(BeforeConvert)
           f == Cardinality(BeforeCollect)
<1>1. SetsOfVariants
  BY SetsAreOfVariants
<1>2. \A S \in SUBSET Variant : \A T \in SUBSET S :
          /\ Cardinality(S) \in Nat
          /\ \E k \in Nat : /\ Cardinality(T) = k /\ k <= Cardinality(S)
                            /\ T # S => k < Cardinality(S)
  <2> SUFFICES ASSUME NEW S \in SUBSET Variant, NEW T \in SUBSET S
               PROVE  /\ Cardinality(S) \in Nat
                      /\ \E k \in Nat : /\ Cardinality(T) = k /\ k <= Cardinality(S)
                                        /\ T # S => k < Cardinality(S)
    OBVIOUS
  <2> QED
    BY SmallerCount
<1>3. PICK a1 \in Nat : a' = a1 /\ a1 <= a /\ (BeforeSynthesis' # BeforeSynthesis => a1 < a)
  BY <1>1, <1>2 DEF SetsOfVariants, MovesOn
<1>4. PICK b1 \in Nat : b' = b1 /\ b1 <= b /\ (BeforeSubmit' # BeforeSubmit => b1 < b)
  BY <1>1, <1>2 DEF SetsOfVariants, MovesOn
<1>5. PICK c1 \in Nat : c' = c1 /\ c1 <= c /\ (BeforeStart' # BeforeStart => c1 < c)
  BY <1>1, <1>2 DEF SetsOfVariants, MovesOn
<1>6. PICK d1 \in Nat : d' = d1 /\ d1 <= d /\ (BeforeNative' # BeforeNative => d1 < d)
  BY <1>1, <1>2 DEF SetsOfVariants, MovesOn
<1>7. PICK e1 \in Nat : e' = e1 /\ e1 <= e /\ (BeforeConvert' # BeforeConvert => e1 < e)
  BY <1>1, <1>2 DEF SetsOfVariants, MovesOn
<1>8. PICK f1 \in Nat : f' = f1 /\ f1 <= f /\ (BeforeCollect' # BeforeCollect => f1 < f)
  BY <1>1, <1>2 DEF SetsOfVariants, MovesOn
<1>9. a \in Nat /\ b \in Nat /\ c \in Nat /\ d \in Nat /\ e \in Nat /\ f \in Nat
  BY <1>1, <1>2 DEF SetsOfVariants
<1>10. VariantsLeft = a + b + c + d + e + f /\ VariantsLeft' = a' + b' + c' + d' + e' + f'
  BY DEF VariantsLeft
<1> DEFINE k == a1 + b1 + c1 + d1 + e1 + f1
<1> HIDE DEF a, b, c, d, e, f
<1>11. VariantsLeft' = k /\ k \in Nat
  BY <1>3, <1>4, <1>5, <1>6, <1>7, <1>8, <1>10
<1>12. k <= VariantsLeft
  BY <1>3, <1>4, <1>5, <1>6, <1>7, <1>8, <1>9, <1>10
<1>13. (a1 < a \/ b1 < b \/ c1 < c \/ d1 < d \/ e1 < e \/ f1 < f) => k < VariantsLeft
  BY <1>3, <1>4, <1>5, <1>6, <1>7, <1>8, <1>9, <1>10
<1> HIDE DEF k
<1>14. OneMovesOn => k < VariantsLeft
  BY <1>3, <1>4, <1>5, <1>6, <1>7, <1>8, <1>13 DEF OneMovesOn
<1> QED
  BY <1>11, <1>12, <1>14

LEMMA PhaseType == Phase \in Nat /\ (Phase # 7 * N + 7 => Phase <= 6)
  BY VariantsAreNumbers DEF Phase

ChunksInRange == ChunksLeft \in 0 .. N

LEMMA ChunksLeftType == TypeOK => ChunksInRange
  BY VariantsAreNumbers DEF TypeOK, ChunksLeft, ChunksInRange

\* A variant goes one place further while the main thread is where it is.
LEMMA VariantCounts ==
    ASSUME TypeOK, MovesOn, OneMovesOn, pc' = pc, chunk' = chunk
    PROVE  StepsLeft' < StepsLeft
<1>1. PICK k \in Nat : VariantsLeft' = k /\ k < VariantsLeft
  BY VariantsShrink
<1>2. Phase' = Phase /\ ChunksLeft' = ChunksLeft
  BY DEF Phase, ChunksLeft
<1>3. Phase \in Nat /\ ChunksLeft \in Nat /\ VariantsLeft \in Nat
  BY PhaseType, ChunksLeftType, VariantsLeftType, VariantsAreNumbers DEF VariantsInRange, ChunksInRange
<1>4. StepsLeft = Phase + VariantsLeft + ChunksLeft /\ StepsLeft' = Phase' + VariantsLeft' + ChunksLeft'
  BY DEF StepsLeft
<1>5. StepsLeft' = Phase + k + ChunksLeft
  BY <1>1, <1>2, <1>4
<1> QED
  BY <1>1, <1>3, <1>4, <1>5

\* The main thread goes on, and no variant goes back.
LEMMA PhaseCounts ==
    ASSUME TypeOK, MovesOn, NEW p \in Nat, Phase' = p, p < Phase,
           NEW m \in Nat, ChunksLeft' = m, m <= ChunksLeft
    PROVE  StepsLeft' < StepsLeft
<1>1. PICK k \in Nat : VariantsLeft' = k /\ k <= VariantsLeft
  BY VariantsShrink
<1>2. Phase \in Nat /\ ChunksLeft \in Nat /\ VariantsLeft \in Nat
  BY PhaseType, ChunksLeftType, VariantsLeftType, VariantsAreNumbers DEF VariantsInRange, ChunksInRange
<1>3. StepsLeft = Phase + VariantsLeft + ChunksLeft /\ StepsLeft' = Phase' + VariantsLeft' + ChunksLeft'
  BY DEF StepsLeft
<1>4. StepsLeft' = p + k + m
  BY <1>1, <1>3
<1> QED
  BY <1>1, <1>2, <1>3, <1>4

\* Every step but a new start takes at least one of the steps that are left.
LEMMA StepCounts ==
    ASSUME IInv, TypeOK', Next
    PROVE  Restart \/ StepsLeft' < StepsLeft
<1> USE DEF files, manifests, memory, history
<1> USE VariantsAreNumbers
<1>t. TypeOK
  BY DEF IInv
<1>s. UNCHANGED <<todo, batch, job>> => MovesOn
  BY DEF MovesOn, BeforeSynthesis, BeforeSubmit, BeforeStart, BeforeNative, BeforeConvert, BeforeCollect, AtJob
<1>f. ASSUME NEW next, Forget(next) PROVE MovesOn
  <2>1. todo' = {} /\ batch' = {} /\ \A v \in Variant : job'[v] = "none"
    BY <1>f DEF Forget
  <2>2. /\ BeforeSynthesis' = {} /\ BeforeSubmit' = {} /\ BeforeStart' = {}
        /\ BeforeNative' = {} /\ BeforeConvert' = {} /\ BeforeCollect' = {}
    BY <2>1 DEF BeforeSynthesis, BeforeSubmit, BeforeStart, BeforeNative, BeforeConvert, BeforeCollect, AtJob
  <2> QED
    BY <2>2 DEF MovesOn
\* A process that ends.
<1>1. CASE ReuseManifests \/ RefuseHalfPairs \/ PoolShutdown \/ RefuseShard \/ WriteSummary \/ Crash
  <2>1. PICK next \in {"raised", "passed", "dead"} : Forget(next) /\ ~Ended
    BY <1>1 DEF ReuseManifests, RefuseHalfPairs, PoolShutdown, RefuseShard, WriteSummary, Crash, Ended
  <2>2. pc' = next /\ MovesOn
    BY <1>f, <2>1 DEF Forget
  <2>3. Phase' = 0 /\ ChunksLeft' = 0
    BY <2>1, <2>2 DEF Phase, ChunksLeft
  <2>4. 0 < Phase
    BY <1>t, <2>1 DEF TypeOK, Phase, Ended
  <2>5. 0 <= ChunksLeft
    BY <1>t, ChunksLeftType DEF ChunksInRange
  <2> QED
    BY <1>t, <2>2, <2>3, <2>4, <2>5, PhaseCounts
<1>2. CASE SplitPlan
  <2>1. pc = "start" /\ pc' \in {"reconstruct", "synthesize"} /\ chunk' = chunk
    BY <1>2 DEF SplitPlan
  <2>2. PICK p \in Nat : Phase' = p /\ p <= 6
    BY <2>1 DEF Phase
  <2>3. PICK k \in Nat : VariantsLeft' = k /\ k <= 6 * N
    <3>1. VariantsInRange'
      BY VariantsLeftType, PTL
    <3> QED
      BY <3>1 DEF VariantsInRange
  <2>4. PICK m \in Nat : ChunksLeft' = m /\ m <= N
    <3>1. ChunksInRange'
      BY ChunksLeftType, PTL
    <3> QED
      BY <3>1 DEF ChunksInRange
  <2>5. StepsLeft' = p + k + m
    <3>1. StepsLeft' = Phase' + VariantsLeft' + ChunksLeft'
      BY DEF StepsLeft
    <3> QED
      BY <2>2, <2>3, <2>4, <3>1
  <2>6. StepsLeft = 7 * N + 7 + VariantsLeft + ChunksLeft /\ VariantsLeft \in Nat /\ ChunksLeft \in Nat
    <3>1. Phase = 7 * N + 7
      BY <2>1 DEF Phase
    <3>2. VariantsLeft \in Nat /\ ChunksLeft \in Nat
      BY <1>t, VariantsLeftType, ChunksLeftType DEF VariantsInRange, ChunksInRange
    <3> QED
      BY <3>1, <3>2 DEF StepsLeft
  <2> QED
    BY <2>2, <2>3, <2>4, <2>5, <2>6
\* The main thread goes on to its next part.
<1>3. CASE SynthesisDone \/ WriteNativeManifest \/ WriteAudioManifest \/ WriteProbeManifest
  <2>1. UNCHANGED <<todo, batch, job, chunk>>
    BY <1>3 DEF SynthesisDone, WriteNativeManifest, WriteAudioManifest, WriteProbeManifest
  <2>2. \E p \in Nat : Phase' = p /\ p < Phase
    BY <1>3 DEF SynthesisDone, WriteNativeManifest, WriteAudioManifest, WriteProbeManifest, Phase
  <2>3. ChunksLeft' = ChunksLeft \/ ChunksLeft' = 0
    BY <1>3, <2>1 DEF SynthesisDone, WriteNativeManifest, WriteAudioManifest, WriteProbeManifest, ChunksLeft
  <2>4. ChunksLeft \in Nat
    BY <1>t, ChunksLeftType DEF ChunksInRange
  <2>5. \E m \in Nat : ChunksLeft' = m /\ m <= ChunksLeft
    BY <2>3, <2>4
  <2>6. MovesOn
    BY <1>s, <2>1
  <2> QED
    BY <1>t, <2>2, <2>5, <2>6, PhaseCounts
<1>4. CASE SynthesizeRaises \/ (Collect /\ pc' = "failing")
  <2>1. pc = "synthesize" /\ pc' = "failing" /\ UNCHANGED <<todo, batch, job, chunk>>
    BY <1>4 DEF SynthesizeRaises, Collect, MustCollect
  <2>2. Phase = 6 /\ Phase' = 1 /\ ChunksLeft' = 0
    BY <2>1 DEF Phase, ChunksLeft
  <2>3. 0 <= ChunksLeft
    BY <1>t, ChunksLeftType DEF ChunksInRange
  <2>4. MovesOn
    BY <1>s, <2>1
  <2> QED
    BY <1>t, <2>2, <2>3, <2>4, PhaseCounts
<1>5. CASE ReuseShard \/ BuildShard
  <2>1. /\ pc = "reconstruct" /\ pc' = pc /\ chunk' = chunk + 1 /\ Chunk(chunk) # {}
        /\ UNCHANGED <<todo, batch, job>>
    BY <1>5 DEF ReuseShard, BuildShard
  <2>2. chunk \in 1 .. N
    BY <1>t, <2>1, NextChunk
  <2>3. ChunksLeft = N + 1 - chunk /\ ChunksLeft' = N + 1 - (chunk + 1)
    BY <2>1 DEF ChunksLeft
  <2>4. Phase' = Phase /\ VariantsLeft' = VariantsLeft
    BY <2>1 DEF Phase, VariantsLeft, BeforeSynthesis, BeforeSubmit, BeforeStart, BeforeNative, BeforeConvert,
       BeforeCollect, AtJob
  <2>5. Phase \in Nat /\ VariantsLeft \in Nat
    BY <1>t, PhaseType, VariantsLeftType DEF VariantsInRange
  <2>6. StepsLeft = Phase + VariantsLeft + ChunksLeft /\ StepsLeft' = Phase' + VariantsLeft' + ChunksLeft'
    BY DEF StepsLeft
  <2>7. StepsLeft' = Phase + VariantsLeft + (N + 1 - (chunk + 1))
    BY <2>3, <2>4, <2>6
  <2> QED
    BY <2>2, <2>3, <2>5, <2>6, <2>7
\* A variant goes on.
<1>6. CASE Synthesize
  <2>1. /\ pc' = pc /\ chunk' = chunk /\ job' = job /\ batch = {} /\ todo # {}
        /\ batch' = FirstBatch(todo) /\ todo' = todo \ batch'
    BY <1>6 DEF Synthesize
  <2>2. FirstBatch(todo) \subseteq todo
    BY DEF FirstBatch, Slice
  <2>3. FirstBatch(todo) # {}
    <3>1. todo \in SUBSET Nat /\ todo \in SUBSET Variant
      BY <1>t DEF TypeOK
    <3>2. PICK v \in todo : \A u \in todo : v <= u
      BY <2>1, <3>1, Smallest
    <3>3. Position(todo, v) = 1
      BY <3>1, <3>2, FirstPosition
    <3>4. (1 - 1) * BatchSize < 1 /\ 1 <= 1 * BatchSize
      BY ConstantsAssumption
    <3> QED
      BY <3>3, <3>4 DEF FirstBatch, Slice
  <2>4. todo' \subseteq todo /\ todo' # todo /\ todo' \cup batch' = todo
    BY <2>1, <2>2, <2>3
  <2>5. MovesOn /\ OneMovesOn
    BY <2>1, <2>4 DEF MovesOn, OneMovesOn, BeforeSynthesis, BeforeSubmit, BeforeStart, BeforeNative, BeforeConvert,
       BeforeCollect, AtJob
  <2> QED
    BY <1>t, <2>1, <2>5, VariantCounts
<1>7. CASE Submit
  <2> DEFINE v == Oldest(batch)
  <2>1. /\ pc' = pc /\ chunk' = chunk /\ todo' = todo /\ batch # {}
        /\ batch' = batch \ {v} /\ job' = [job EXCEPT ![v] = "queued"]
    BY <1>7 DEF Submit
  <2>2. v \in batch /\ v \in Variant
    BY <1>t, <2>1, OldestIsMember DEF TypeOK
  <2> HIDE DEF v
  <2>3. v \notin todo /\ job[v] = "none"
    BY <2>2 DEF IInv, OnePlace
  <2>4. job'[v] = "queued" /\ \A u \in Variant : u # v => job'[u] = job[u]
    BY <1>t, <2>1, <2>2 DEF TypeOK
  <2>5. /\ AtJob({"queued"})' = AtJob({"queued"}) \cup {v}
        /\ AtJob({"started"})' = AtJob({"started"}) /\ AtJob({"native"})' = AtJob({"native"})
        /\ AtJob({"done", "failed"})' = AtJob({"done", "failed"})
    BY <2>2, <2>3, <2>4 DEF AtJob
  <2>6. (todo \cup batch)' \cup {v} = todo \cup batch /\ v \notin (todo \cup batch)'
    BY <2>1, <2>2, <2>3
  <2>7. BeforeSynthesis' = BeforeSynthesis /\ BeforeSubmit' \subseteq BeforeSubmit /\ BeforeSubmit' # BeforeSubmit
    BY <2>1, <2>2, <2>6 DEF BeforeSynthesis, BeforeSubmit
  <2>8. BeforeStart' = BeforeStart
    BY <2>5, <2>6 DEF BeforeStart, BeforeSubmit
  <2>9. BeforeNative' = BeforeNative /\ BeforeConvert' = BeforeConvert /\ BeforeCollect' = BeforeCollect
    BY <2>5, <2>8 DEF BeforeNative, BeforeConvert, BeforeCollect
  <2>10. MovesOn /\ OneMovesOn
    BY <2>7, <2>8, <2>9 DEF MovesOn, OneMovesOn
  <2> QED
    BY <1>t, <2>1, <2>10, VariantCounts
<1>8. CASE Collect /\ pc' # "failing"
  <2>1. /\ pc' = pc /\ chunk' = chunk /\ todo' = todo /\ batch' = batch /\ Finished # {}
        /\ job' = [v \in Variant |-> IF v \in Finished THEN "none" ELSE job[v]]
    BY <1>8 DEF Collect
  <2>2. /\ AtJob({"queued"})' = AtJob({"queued"})
        /\ AtJob({"started"})' = AtJob({"started"}) /\ AtJob({"native"})' = AtJob({"native"})
        /\ AtJob({"done", "failed"})' = {} /\ AtJob({"done", "failed"}) = Finished
    BY <2>1 DEF AtJob, Finished
  <2>3. /\ BeforeSynthesis' = BeforeSynthesis /\ BeforeSubmit' = BeforeSubmit /\ BeforeStart' = BeforeStart
        /\ BeforeNative' = BeforeNative /\ BeforeConvert' = BeforeConvert
    BY <2>1, <2>2 DEF BeforeSynthesis, BeforeSubmit, BeforeStart, BeforeNative, BeforeConvert
  <2>4. BeforeCollect' = BeforeConvert /\ BeforeCollect = BeforeConvert \cup Finished
    BY <2>2, <2>3 DEF BeforeCollect
  <2>5. Finished \cap BeforeConvert = {}
    <3>1. \A v \in Finished : v \in Variant /\ job[v] \in {"done", "failed"}
      BY DEF Finished
    <3>2. \A v \in Finished : v \notin todo \cup batch
      BY <3>1 DEF IInv, OnePlace
    <3> QED
      BY <3>1, <3>2 DEF BeforeConvert, BeforeNative, BeforeStart, BeforeSubmit, AtJob
  <2>6. MovesOn /\ OneMovesOn
    BY <2>1, <2>3, <2>4, <2>5 DEF MovesOn, OneMovesOn
  <2> QED
    BY <1>t, <2>1, <2>6, VariantCounts
<1>9. ASSUME NEW v \in Variant, JobStart(v) \/ WriteNative(v) \/ Convert(v) \/ JobFails(v)
      PROVE  StepsLeft' < StepsLeft
  <2>1. PICK from \in {"queued", "started", "native"}, to \in {"started", "native", "done", "failed"} :
            /\ job[v] = from /\ job' = [job EXCEPT ![v] = to]
            /\ from = "queued" => to = "started"
            /\ from = "started" => to \in {"native", "failed"}
            /\ from = "native" => to \in {"done", "failed"}
    BY <1>9 DEF JobStart, WriteNative, Convert, JobFails, JobStep
  <2>2. UNCHANGED <<pc, chunk, todo, batch>>
    BY <1>9 DEF JobStart, WriteNative, Convert, JobFails, JobStep
  <2>3. v \notin todo \cup batch
    BY <2>1 DEF IInv, OnePlace
  <2>4. job'[v] = to /\ \A u \in Variant : u # v => job'[u] = job[u]
    BY <1>t, <2>1 DEF TypeOK
  <2>5. BeforeSynthesis' = BeforeSynthesis /\ BeforeSubmit' = BeforeSubmit
    BY <2>2 DEF BeforeSynthesis, BeforeSubmit
  <2>6. CASE from = "queued"
    <3>1. /\ AtJob({"queued"})' = AtJob({"queued"}) \ {v} /\ v \in AtJob({"queued"})
          /\ AtJob({"started"})' = AtJob({"started"}) \cup {v}
          /\ AtJob({"native"})' = AtJob({"native"})
          /\ AtJob({"done", "failed"})' = AtJob({"done", "failed"})
      BY <2>1, <2>4, <2>6 DEF AtJob
    <3>2. BeforeStart' \subseteq BeforeStart /\ BeforeStart' # BeforeStart
      BY <2>3, <2>5, <3>1 DEF BeforeStart, BeforeSubmit
    <3>3. BeforeNative' = BeforeNative
      BY <2>5, <3>1 DEF BeforeNative, BeforeStart
    <3>4. BeforeConvert' = BeforeConvert /\ BeforeCollect' = BeforeCollect
      BY <3>1, <3>3 DEF BeforeConvert, BeforeCollect
    <3>5. MovesOn /\ OneMovesOn
      BY <2>5, <3>2, <3>3, <3>4 DEF MovesOn, OneMovesOn
    <3> QED
      BY <1>t, <2>2, <3>5, VariantCounts
  <2>7. CASE from = "started"
    <3>1. /\ AtJob({"queued"})' = AtJob({"queued"}) /\ v \notin AtJob({"queued"})
          /\ AtJob({"started"})' = AtJob({"started"}) \ {v} /\ v \in AtJob({"started"})
          /\ \/ /\ AtJob({"native"})' = AtJob({"native"}) \cup {v}
                /\ AtJob({"done", "failed"})' = AtJob({"done", "failed"})
             \/ /\ AtJob({"native"})' = AtJob({"native"}) /\ v \notin AtJob({"native"})
                /\ AtJob({"done", "failed"})' = AtJob({"done", "failed"}) \cup {v}
      BY <2>1, <2>4, <2>7 DEF AtJob
    <3>2. BeforeStart' = BeforeStart /\ v \notin BeforeStart
      BY <2>3, <2>5, <3>1 DEF BeforeStart, BeforeSubmit
    <3>3. BeforeNative' \subseteq BeforeNative /\ BeforeNative' # BeforeNative /\ BeforeNative' \cup {v} = BeforeNative
      BY <3>1, <3>2 DEF BeforeNative
    <3>4. BeforeConvert' \subseteq BeforeConvert /\ BeforeConvert' \cup {v} = BeforeConvert
      BY <3>1, <3>3 DEF BeforeConvert
    <3>5. BeforeCollect' = BeforeCollect
      BY <3>1, <3>3, <3>4 DEF BeforeCollect, BeforeConvert
    <3>6. MovesOn /\ OneMovesOn
      BY <2>5, <3>2, <3>3, <3>4, <3>5 DEF MovesOn, OneMovesOn
    <3> QED
      BY <1>t, <2>2, <3>6, VariantCounts
  <2>8. CASE from = "native"
    <3>1. /\ AtJob({"queued"})' = AtJob({"queued"}) /\ v \notin AtJob({"queued"})
          /\ AtJob({"started"})' = AtJob({"started"}) /\ v \notin AtJob({"started"})
          /\ AtJob({"native"})' = AtJob({"native"}) \ {v} /\ v \in AtJob({"native"})
          /\ AtJob({"done", "failed"})' = AtJob({"done", "failed"}) \cup {v}
      BY <2>1, <2>4, <2>8 DEF AtJob
    <3>2. BeforeStart' = BeforeStart /\ v \notin BeforeStart
      BY <2>3, <2>5, <3>1 DEF BeforeStart, BeforeSubmit
    <3>3. BeforeNative' = BeforeNative /\ v \notin BeforeNative
      BY <3>1, <3>2 DEF BeforeNative
    <3>4. BeforeConvert' \subseteq BeforeConvert /\ BeforeConvert' # BeforeConvert /\ BeforeConvert' \cup {v} = BeforeConvert
      BY <3>1, <3>3 DEF BeforeConvert
    <3>5. BeforeCollect' = BeforeCollect
      BY <3>1, <3>4 DEF BeforeCollect
    <3>6. MovesOn /\ OneMovesOn
      BY <2>5, <3>2, <3>3, <3>4, <3>5 DEF MovesOn, OneMovesOn
    <3> QED
      BY <1>t, <2>2, <3>6, VariantCounts
  <2> QED
    BY <2>1, <2>6, <2>7, <2>8
<1> QED
  BY <1>1, <1>2, <1>3, <1>4, <1>5, <1>6, <1>7, <1>8, <1>9 DEF Next, MainThread, PoolThread

\* A run takes at most 7 * N + 7 steps, whatever fails and whoever is scheduled: the main
\* thread waits for the pool and the pool for the main thread a bounded number of times
\* (max_pending, collect).
THEOREM RunIsBounded ==
    Spec => /\ [](StepsLeft \in 0 .. 7 * N + 7)
            /\ [][Restart \/ StepsLeft' < StepsLeft]_vars
<1>1. IInv => StepsLeft \in 0 .. 7 * N + 7
  <2> SUFFICES ASSUME IInv PROVE StepsLeft \in 0 .. 7 * N + 7
    OBVIOUS
  <2>1. TypeOK
    BY DEF IInv
  <2>2. N \in Nat /\ Phase \in Nat /\ VariantsLeft \in 0 .. 6 * N /\ ChunksLeft \in 0 .. N
    BY <2>1, PhaseType, VariantsLeftType, ChunksLeftType, VariantsAreNumbers DEF VariantsInRange, ChunksInRange
  <2>3. CASE pc = "start"
    <3>1. Phase = 7 * N + 7 /\ ChunksLeft = 0
      BY <2>3 DEF Phase, ChunksLeft
    <3>2. todo = {} /\ batch = {} /\ \A v \in Variant : job[v] = "none"
      BY <2>3 DEF IInv, Idle
    <3>3. /\ BeforeSynthesis = {} /\ BeforeSubmit = {} /\ BeforeStart = {}
          /\ BeforeNative = {} /\ BeforeConvert = {} /\ BeforeCollect = {}
      BY <3>2 DEF BeforeSynthesis, BeforeSubmit, BeforeStart, BeforeNative, BeforeConvert, BeforeCollect, AtJob
    <3>4. VariantsLeft = 0
      BY <3>3, FS_EmptySet DEF VariantsLeft
    <3> QED
      BY <2>2, <3>1, <3>4 DEF StepsLeft
  <2>4. CASE pc # "start"
    <3>1. Phase <= 6
      BY <2>4 DEF Phase
    <3> QED
      BY <2>2, <3>1 DEF StepsLeft
  <2> QED
    BY <2>3, <2>4
<1>2. IInv /\ TypeOK' /\ [Next]_vars => [Restart \/ StepsLeft' < StepsLeft]_vars
  BY StepCounts
<1> QED
  BY Invariant, TypesCorrect, <1>1, <1>2, PTL DEF Spec


\* The guards of the steps the code waits for: those of the main thread, or a thread
\* of the pool that has a job to start or to go on with.
PoolMayMove ==
    \/ Running # {}
    \/ /\ Cardinality(Running) < Workers
       /\ \E v \in Variant :
             job[v] = "queued" /\ \A u \in Variant : job[u] = "queued" => v <= u

MainMayMove ==
    \/ pc \in {"start", "writeAudio", "writeProbe", "writeSummary"}
    \/ /\ pc = "synthesize" /\ Cardinality(pending) < MaxPending
       /\ batch # {} \/ todo # {}
    \/ MustCollect /\ Finished # {}
    \/ pc = "failing" /\ pending = Finished
    \/ pc = "synthesize" /\ todo = {} /\ batch = {} /\ pending = {}
    \/ pc = "reconstruct" /\ Chunk(chunk) # {} /\ shards[chunk] = {}
    \/ pc = "reconstruct" /\ Chunk(chunk) = {} /\ rows = [v \in Variant |-> 1]

\* A job that is pending and not finished can be gone on with, by the thread that has
\* it or by one that is free.
LEMMA PendingMoves == TypeOK /\ pending # Finished => PoolMayMove
<1> SUFFICES ASSUME TypeOK, pending # Finished PROVE PoolMayMove
  OBVIOUS
<1>1. PICK v \in Variant : job[v] \in {"queued", "started", "native"}
  BY DEF TypeOK, pending, Finished
<1>2. CASE Running # {}
  BY <1>2 DEF PoolMayMove
<1>3. CASE Running = {}
  <2> DEFINE Q == {u \in Variant : job[u] = "queued"}
  <2>1. Q \in SUBSET Nat /\ Q # {}
    BY <1>1, <1>3, VariantsAreNumbers DEF Running
  <2>2. PICK q \in Q : \A u \in Q : q <= u
    BY <2>1, Smallest
  <2>3. Cardinality(Running) = 0 /\ 0 < Workers
    BY <1>3, FS_EmptySet, ConstantsAssumption
  <2> QED
    BY <2>2, <2>3 DEF PoolMayMove
<1> QED
  BY <1>2, <1>3

\* A run that does not crash never hangs: the main thread and the pool never wait for
\* each other, whatever jobs fail and however large a batch is against max_pending, and
\* one that found no shard reaches the native manifest with one row of each variant, so
\* that neither the count of a shard nor the count of the list stops it.  With
\* RunIsBounded and a process that does go on, such a run ends.
THEOREM CleanRunNeverStuck ==
    Spec => [](~Ended /\ (emptyShards \/ pc # "reconstruct") => MainMayMove \/ PoolMayMove)
<1>1. ASSUME IInv, ~Ended, emptyShards \/ pc # "reconstruct" PROVE MainMayMove \/ PoolMayMove
  <2>1. pc \in {"start", "synthesize", "failing", "reconstruct", "writeAudio", "writeProbe", "writeSummary"}
    BY <1>1 DEF IInv, TypeOK, Ended
  <2>2. CASE pc \in {"start", "writeAudio", "writeProbe", "writeSummary"}
    BY <2>2 DEF MainMayMove
  <2>3. CASE pc = "failing"
    BY <1>1, <2>3, PendingMoves DEF IInv, MainMayMove
  <2>4. CASE pc = "synthesize"
    <3>1. CASE pending # Finished
      BY <1>1, <3>1, PendingMoves DEF IInv
    <3>2. CASE pending = Finished /\ pending = {}
      <4>1. Cardinality(pending) = 0 /\ 0 < MaxPending
        BY <3>2, FS_EmptySet, ConstantsAssumption
      <4> QED
        BY <2>4, <3>2, <4>1 DEF MainMayMove
    <3>3. CASE pending = Finished /\ pending # {}
      <4>1. Cardinality(pending) \in Nat /\ MaxPending \in Nat
        <5>1. IsFiniteSet(pending)
          BY VariantsAreFinite, FS_Subset DEF pending
        <5> QED
          BY <5>1, FS_CardinalityType, ConstantsAssumption
      <4>2. CASE Cardinality(pending) >= MaxPending \/ (batch = {} /\ todo = {})
        BY <2>4, <3>3, <4>2 DEF MainMayMove, MustCollect
      <4>3. CASE Cardinality(pending) < MaxPending /\ ~(batch = {} /\ todo = {})
        BY <2>4, <4>3 DEF MainMayMove
      <4> QED
        BY <4>1, <4>2, <4>3
    <3> QED
      BY <3>1, <3>2, <3>3
  <2>5. CASE pc = "reconstruct"
    <3>1. Rebuilt /\ TypeOK
      BY <1>1, <2>5 DEF IInv, CleanRun
    <3>2. CASE Chunk(chunk) # {}
      <4>1. chunk \in ShardIndex /\ chunk >= chunk
        BY <3>1, <3>2, NextChunk, VariantsAreNumbers DEF ShardIndex
      <4> QED
        BY <2>5, <3>1, <3>2, <4>1 DEF Rebuilt, MainMayMove
    <3>3. CASE Chunk(chunk) = {}
      <4>1. chunk \in Nat \ {0} /\ ChunkSize \in Nat \ {0} /\ existing \in SUBSET Variant
        BY <3>1, ConstantsAssumption DEF TypeOK
      <4>2. \A v \in existing : Position(existing, v) <= (chunk - 1) * ChunkSize
        BY <3>3, <4>1, EmptyChunkIsLast DEF Chunk
      <4>3. \A v \in Variant : rows[v] = 1
        BY <2>5, <3>1, <4>2 DEF Rebuilt
      <4>4. rows = [v \in Variant |-> 1]
        BY <3>1, <4>3 DEF TypeOK, RowList
      <4> QED
        BY <2>5, <3>3, <4>4 DEF MainMayMove
    <3> QED
      BY <3>2, <3>3
  <2> QED
    BY <2>1, <2>2, <2>3, <2>4, <2>5
<1> QED
  BY Invariant, <1>1, PTL

=============================================================================
