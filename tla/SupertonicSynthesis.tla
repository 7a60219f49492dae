------------------------ MODULE SupertonicSynthesis ------------------------
(***************************************************************************)
(* synthesize_batched_supertonic_audio of slaif_asr/supertonic3_tts.py for *)
(* one source shard, with crashes and restarts.                            *)
(*                                                                         *)
(* A run splits its plan into the variants whose native and final WAV both *)
(* exist and the rest, synthesizes the rest batch by batch on the GPU,     *)
(* hands every waveform to a thread pool that writes the native WAV and    *)
(* converts it, rebuilds the rows of the existing variants chunk by chunk  *)
(* through cached reconstruction shards, and writes the manifests.         *)
(*                                                                         *)
(* Abstractions.                                                           *)
(*  - A variant is its position 1 .. N in the sorted plan; a row is the    *)
(*    variant it describes; a list of rows is how often each one occurs    *)
(*    (the code sorts the rows before it writes them).                     *)
(*  - native, final, shards and the manifests are files; everything else   *)
(*    is memory, lost when the process dies.                               *)
(*  - Files appear atomically (temporary file and os.replace).             *)
(*  - A shard is its native-*.jsonl and converted-*.jsonl together: one of *)
(*    them alone is ignored and rewritten.                                 *)
(*  - Training, holdout and audio manifest are one: the first two are      *)
(*    filters of the third. The out-of-memory fallback is a batch that is  *)
(*    synthesized, in whatever pieces, or raises.                          *)
(***************************************************************************)
EXTENDS Naturals, FiniteSets, FiniteSetsExt, Functions

CONSTANTS
    N,            \* expected_total: variants of the plan
    BatchSize,    \* batch_size
    ChunkSize,    \* reconstruction flush_rows
    Workers,      \* threads of the conversion pool
    MaxPending,   \* max_pending
    WritesProbe,  \* write_training_probe_manifest
    MaxCrashes,   \* bound: times the process dies or a step raises
    MaxReruns     \* bound: times a run is started again after it ended well

ASSUME ConstantsAssumption ==
    /\ {N, BatchSize, ChunkSize, Workers} \subseteq Nat \ {0}
    /\ MaxPending \in Nat /\ MaxPending >= Workers
    /\ WritesProbe \in BOOLEAN
    /\ {MaxCrashes, MaxReruns} \subseteq Nat

Variant == 1 .. N
ShardIndex == 1 .. N
NoRows == [v \in Variant |-> 0]
NoFile == << >>   \* no list of rows: a written one has the domain Variant

VARIABLES
    native,     \* variants whose native WAV exists
    final,      \* variants whose final WAV exists
    shards,     \* reconstruction-shards: the rows of each, {} if absent
    nativeManifest, audioManifest, probeManifest,  \* rows, or NoFile
    summary,    \* a summary with status PASSED was written
    pc,         \* what the main thread does next
    todo,       \* variants of remaining_plan not yet given to the GPU
    batch,      \* rows of the current batch not yet submitted to the pool
    job,        \* stage of the conversion job of each variant
    existing,   \* existing_plan
    chunk,      \* next reconstruction chunk
    rows,       \* native_rows and converted_rows
    emptyShards,\* history: no shard existed when this run was started
    crashes, reruns  \* bounds

files == <<native, final, shards>>
manifests == <<nativeManifest, audioManifest, probeManifest, summary>>
memory == <<todo, batch, job, existing, chunk, rows>>
history == <<emptyShards, crashes, reruns>>
vars == <<files, manifests, pc, memory, history>>

-----------------------------------------------------------------------------
(* Lists of rows.                                                          *)
Length(r) == FoldFunction(+, 0, r)
AddRows(r, S) == [v \in Variant |-> IF v \in S THEN r[v] + 1 ELSE r[v]]

\* Position of v in the sublist of the plan that S selects.
Position(S, v) == Cardinality({u \in S : u <= v})

\* The k-th slice of that sublist, in slices of the given size.
Slice(S, k, size) ==
    {v \in S : (k - 1) * size < Position(S, v) /\ Position(S, v) <= k * size}

FirstBatch(S) == Slice(S, 1, BatchSize)
Chunk(k) == Slice(existing, k, ChunkSize)

\* _split_existing_batched_plan
Paired == native \cap final
HalfPaired == (native \cup final) \ Paired

pending == {v \in Variant : job[v] # "none"}
Running == {v \in Variant : job[v] \in {"started", "native"}}
Finished == {v \in Variant : job[v] \in {"done", "failed"}}

-----------------------------------------------------------------------------
Init ==
    /\ native = {} /\ final = {}
    /\ shards = [k \in ShardIndex |-> {}]
    /\ nativeManifest = NoFile /\ audioManifest = NoFile
    /\ probeManifest = NoFile /\ summary = FALSE
    /\ pc = "start"
    /\ todo = {} /\ batch = {} /\ existing = {}
    /\ job = [v \in Variant |-> "none"]
    /\ chunk = 1
    /\ rows = NoRows
    /\ emptyShards = TRUE
    /\ crashes = 0 /\ reruns = 0

\* The process is gone and with it everything that was not in a file.
Forget(next) ==
    /\ pc' = next
    /\ todo' = {} /\ batch' = {} /\ existing' = {}
    /\ job' = [v \in Variant |-> "none"]
    /\ chunk' = 1
    /\ rows' = NoRows

\* Every manifest exists, has as many rows as expected, and every file of the
\* rows exists: the audio bank of an earlier run is used as it is.
CompleteManifests ==
    /\ NoFile \notin {nativeManifest, audioManifest, probeManifest}
    /\ Length(nativeManifest) = N /\ Length(audioManifest) = N
    /\ \A v \in Variant : audioManifest[v] > 0 => v \in Paired

ReuseManifests ==
    /\ pc = "start"
    /\ CompleteManifests
    /\ summary' = TRUE
    /\ Forget("passed")
    /\ UNCHANGED <<files, nativeManifest, audioManifest, probeManifest, history>>

\* Otherwise the plan is split. A variant with one WAV only is an error.
RefuseHalfPairs ==
    /\ pc = "start"
    /\ ~CompleteManifests
    /\ HalfPaired # {}
    /\ Forget("raised")
    /\ UNCHANGED <<files, manifests, history>>

SplitPlan ==
    /\ pc = "start"
    /\ ~CompleteManifests
    /\ HalfPaired = {}
    /\ existing' = Paired
    /\ todo' = Variant \ Paired
    /\ pc' = IF todo' = {} THEN "reconstruct" ELSE "synthesize"
    /\ UNCHANGED <<files, manifests, batch, job, chunk, rows, history>>

-----------------------------------------------------------------------------
(* Synthesis on the main thread, conversion on the pool.                   *)

\* One GPU batch. No file is written before its rows reach the pool.
Synthesize ==
    /\ pc = "synthesize"
    /\ batch = {} /\ todo # {}
    /\ Cardinality(pending) < MaxPending
    /\ batch' = FirstBatch(todo)
    /\ todo' = todo \ batch'
    /\ UNCHANGED <<files, manifests, pc, job, existing, chunk, rows, history>>

\* Out of memory with no smaller fallback size left, or another error.
SynthesizeRaises ==
    /\ crashes < MaxCrashes
    /\ crashes' = crashes + 1
    /\ pc = "synthesize"
    /\ batch = {} /\ todo # {}
    /\ Cardinality(pending) < MaxPending
    /\ pc' = "failing"
    /\ UNCHANGED <<files, manifests, memory, emptyShards, reruns>>

Oldest(S) == CHOOSE v \in S : \A u \in S : v <= u

\* pool.submit; the loop that collects keeps pending below max_pending.
Submit ==
    /\ pc = "synthesize"
    /\ batch # {}
    /\ Cardinality(pending) < MaxPending
    /\ batch' = batch \ {Oldest(batch)}
    /\ job' = [job EXCEPT ![Oldest(batch)] = "queued"]
    /\ UNCHANGED <<files, manifests, pc, todo, existing, chunk, rows, history>>

\* Mutant: no wait for the rest after the last batch.
MustCollectFull ==
    /\ pc = "synthesize"
    /\ Cardinality(pending) >= MaxPending

\* collect(done): when the pool is full, or after the last batch. A failed job
\* raises out of the pool's with statement, which first lets every job end.
MustCollect ==
    /\ pc = "synthesize"
    /\ \/ Cardinality(pending) >= MaxPending
       \/ batch = {} /\ todo = {} /\ pending # {} /\ pending = Finished

\* Mutant: a collected future stays in pending.
CollectKeepsPending ==
    /\ MustCollect
    /\ Finished # {}
    /\ IF \E v \in Finished : job[v] = "failed"
         THEN pc' = "failing" /\ UNCHANGED rows
         ELSE rows' = AddRows(rows, Finished) /\ UNCHANGED pc
    /\ UNCHANGED <<files, manifests, todo, batch, job, existing, chunk, history>>

Collect ==
    /\ MustCollect
    /\ Finished # {}
    /\ IF \E v \in Finished : job[v] = "failed"
         THEN pc' = "failing" /\ UNCHANGED <<job, rows>>
         ELSE /\ rows' = AddRows(rows, Finished)
              /\ job' = [v \in Variant |->
                           IF v \in Finished THEN "none" ELSE job[v]]
              /\ UNCHANGED pc
    /\ UNCHANGED <<files, manifests, todo, batch, existing, chunk, history>>

PoolShutdown ==
    /\ pc = "failing"
    /\ pending = Finished
    /\ Forget("raised")
    /\ UNCHANGED <<files, manifests, history>>

\* Every batch collected: on to the rows of existing_plan.
SynthesisDone ==
    /\ pc = "synthesize"
    /\ todo = {} /\ batch = {} /\ pending = {}
    /\ pc' = "reconstruct"
    /\ UNCHANGED <<files, manifests, memory, history>>

\* _materialize_and_convert_native_row on a thread of the pool.
JobStart(v) ==
    /\ job[v] = "queued"
    /\ \A u \in Variant : job[u] = "queued" => v <= u
    /\ Cardinality(Running) < Workers
    /\ job' = [job EXCEPT ![v] = "started"]
    /\ UNCHANGED <<files, manifests, pc, todo, batch, existing, chunk, rows,
                   history>>

JobStep(v, from, to) ==
    /\ job[v] = from
    /\ job' = [job EXCEPT ![v] = to]
    /\ UNCHANGED <<shards, manifests, pc, todo, batch, existing, chunk, rows>>

\* Mutant: the row is complete before the conversion.
WriteNativeDone(v) ==
    /\ JobStep(v, "started", "done")
    /\ native' = native \cup {v}
    /\ UNCHANGED <<final, history>>

WriteNative(v) ==
    /\ JobStep(v, "started", "native")
    /\ native' = native \cup {v}
    /\ UNCHANGED <<final, history>>

Convert(v) ==
    /\ JobStep(v, "native", "done")
    /\ final' = final \cup {v}
    /\ UNCHANGED <<native, history>>

\* A full disk, or SoX refuses the file: the job raises.
JobFails(v) ==
    /\ crashes < MaxCrashes
    /\ crashes' = crashes + 1
    /\ JobStep(v, "started", "failed") \/ JobStep(v, "native", "failed")
    /\ UNCHANGED <<native, final, emptyShards, reruns>>

-----------------------------------------------------------------------------
(* _reconstruct_existing_batched_rows, then the manifests.                 *)

\* A cached shard is used when it has as many rows as the chunk.
ReuseShard ==
    /\ pc = "reconstruct"
    /\ Chunk(chunk) # {}
    /\ shards[chunk] # {}
    /\ Cardinality(shards[chunk]) = Cardinality(Chunk(chunk))
    /\ rows' = AddRows(rows, shards[chunk])
    /\ chunk' = chunk + 1
    /\ UNCHANGED <<files, manifests, pc, todo, batch, job, existing, history>>

RefuseShard ==
    /\ pc = "reconstruct"
    /\ Chunk(chunk) # {}
    /\ shards[chunk] # {}
    /\ Cardinality(shards[chunk]) # Cardinality(Chunk(chunk))
    /\ Forget("raised")
    /\ UNCHANGED <<files, manifests, history>>

\* Mutant: every chunk is the first slice of the plan.
BuildShardFirstSlice ==
    /\ pc = "reconstruct"
    /\ Chunk(chunk) # {}
    /\ shards[chunk] = {}
    /\ shards' = [shards EXCEPT ![chunk] = Chunk(1)]
    /\ rows' = AddRows(rows, Chunk(1))
    /\ chunk' = chunk + 1
    /\ UNCHANGED <<native, final, manifests, pc, todo, batch, job, existing,
                   history>>

BuildShard ==
    /\ pc = "reconstruct"
    /\ Chunk(chunk) # {}
    /\ shards[chunk] = {}
    /\ shards' = [shards EXCEPT ![chunk] = Chunk(chunk)]
    /\ rows' = AddRows(rows, Chunk(chunk))
    /\ chunk' = chunk + 1
    /\ UNCHANGED <<native, final, manifests, pc, todo, batch, job, existing,
                   history>>

\* The code raises on another count.
WriteNativeManifest ==
    /\ pc = "reconstruct"
    /\ Chunk(chunk) = {}
    /\ Length(rows) = N
    /\ nativeManifest' = rows
    /\ pc' = "writeAudio"
    /\ UNCHANGED <<files, audioManifest, probeManifest, summary, memory, history>>

WriteAudioManifest ==
    /\ pc = "writeAudio"
    /\ audioManifest' = rows
    /\ pc' = "writeProbe"
    /\ UNCHANGED <<files, nativeManifest, probeManifest, summary, memory, history>>

\* write_training_probe_manifest, or remove a probe manifest that is there.
WriteProbeManifest ==
    /\ pc = "writeProbe"
    /\ probeManifest' = IF WritesProbe THEN rows ELSE NoFile
    /\ pc' = "writeSummary"
    /\ UNCHANGED <<files, nativeManifest, audioManifest, summary, memory, history>>

WriteSummary ==
    /\ pc = "writeSummary"
    /\ summary' = TRUE
    /\ Forget("passed")
    /\ UNCHANGED <<files, nativeManifest, audioManifest, probeManifest, history>>

-----------------------------------------------------------------------------
(* The process dies; somebody starts the stage again.                      *)
Ended == pc \in {"raised", "passed", "dead"}

Crash ==
    /\ ~Ended
    /\ crashes < MaxCrashes
    /\ crashes' = crashes + 1
    /\ Forget("dead")
    /\ UNCHANGED <<files, manifests, emptyShards, reruns>>

Restart ==
    /\ Ended
    /\ pc = "passed" => reruns < MaxReruns
    /\ reruns' = IF pc = "passed" THEN reruns + 1 ELSE reruns
    /\ emptyShards' = \A k \in ShardIndex : shards[k] = {}
    /\ pc' = "start"
    /\ UNCHANGED <<files, manifests, memory, crashes>>

MainThread ==
    \/ ReuseManifests \/ RefuseHalfPairs \/ SplitPlan
    \/ Synthesize \/ Submit \/ Collect \/ PoolShutdown \/ SynthesisDone
    \/ ReuseShard \/ RefuseShard \/ BuildShard
    \/ WriteNativeManifest \/ WriteAudioManifest \/ WriteProbeManifest
    \/ WriteSummary

PoolThread == \E v \in Variant : JobStart(v) \/ WriteNative(v) \/ Convert(v)

Next ==
    \/ MainThread
    \/ PoolThread
    \/ SynthesizeRaises
    \/ \E v \in Variant : JobFails(v)
    \/ Crash
    \/ Restart

Spec == Init /\ [][Next]_vars

\* The process runs, and the stage is started again whenever it has ended.
FairSpec ==
    /\ Spec
    /\ WF_vars(MainThread) /\ WF_vars(PoolThread) /\ WF_vars(Restart)

-----------------------------------------------------------------------------
RowList == [Variant -> 0 .. N + 1]

TypeOK ==
    /\ native \subseteq Variant /\ final \subseteq Variant
    /\ shards \in [ShardIndex -> SUBSET Variant]
    /\ {nativeManifest, audioManifest, probeManifest} \subseteq RowList \cup {NoFile}
    /\ summary \in BOOLEAN
    /\ pc \in {"start", "synthesize", "failing", "reconstruct", "writeAudio",
               "writeProbe", "writeSummary", "passed", "raised", "dead"}
    /\ todo \subseteq Variant /\ batch \subseteq Variant
    /\ existing \subseteq Variant
    /\ job \in [Variant -> {"none", "queued", "started", "native", "done",
                            "failed"}]
    /\ chunk \in 1 .. N + 1
    /\ rows \in RowList
    /\ emptyShards \in BOOLEAN
    /\ crashes \in 0 .. MaxCrashes /\ reruns \in 0 .. MaxReruns

\* No row is ever produced, cached or published for a variant that lacks one
\* of its two WAV files, across crashes, failed jobs and restarts.
RowsBacked ==
    \A v \in Variant \ Paired :
        /\ rows[v] = 0
        /\ \A k \in ShardIndex : v \notin shards[k]
        /\ nativeManifest # NoFile => nativeManifest[v] = 0
        /\ audioManifest # NoFile => audioManifest[v] = 0

\* What the docstring promises, "Synthesize all Supertonic variants" and emit
\* "the same manifests": after a passed run each variant has one row.
ManifestComplete == pc = "passed" => audioManifest = [v \in Variant |-> 1]

\* It holds of every run that found no reconstruction shard of an earlier run,
\* whatever files earlier runs left behind.
ManifestCompleteFromEmptyShards == emptyShards => ManifestComplete

\* A restart that finds whole pairs only and no shard completes the stage,
\* however the earlier runs ended, unless it is disturbed again.
RestartCompletes ==
    (pc = "start" /\ HalfPaired = {} /\ emptyShards /\ crashes = MaxCrashes)
        ~> pc = "passed"
=============================================================================
