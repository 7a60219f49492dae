# A verification project for the Slovenian ASR adaptation code

This directory models the concurrent, restartable and failure-prone parts of
`slaif-asr-slovenian` in TLA+, checks them with TLC on small instances and proves
the central invariants with TLAPS for all values of the constants. Paths below
are relative to the repository.

The program adapts a streaming ASR model to Slovenian. It is a pipeline: an LLM
generates text, a filter and a review admit it, two text-to-speech systems render
it, augmentation varies it, and a small set of parameters is trained and
evaluated. The numerical parts are thin calls of PyTorch and NeMo. What the
repository adds of its own, and what is difficult in it, is the *conduct* of these
long jobs: retries under budgets, work split over two GPUs and several detached
processes, caches and manifests that have to survive kills, shell supervisors
that judge a stage from outside, and queues between processes.

## 1. Inventory

For each component: state, operations, interactions, what is hard, and what
makes it correct. `PROJECT.json` lists every component, with the reason for each
one that is left out.

### On-the-fly augmentation pool (`slaif_asr/otf_augmentation_dataset.py`)
- *State*: an unbounded input queue, an output queue of `prefetch_microbatches`
  slots, spawned workers, the parent's `next_task_index`, the expected index, and
  the buffer of results that came early.
- *Operations*: `_worker_main` (get, prepare, put, or report an error and end),
  the prefill loop, `_take_expected`, `submit_next`, and the `finally` block with
  its sentinels, joins and terminations.
- *Hard*: results overtake each other; a bounded queue between processes that wait
  for each other; workers that die holding a task or the queue's read lock; join
  while a feeder thread holds data; 120 s and 30 s timeouts.
- *Correct when*: results are given once and in order, no put blocks, nothing is
  lost, the call ends and reaps its processes.

### Supertonic batched synthesis (`slaif_asr/supertonic3_tts.py`)
- *State*: native and final WAV of each variant, reconstruction shards, three
  manifests and a summary on disk; the plan, the pending conversions and the rows
  in memory.
- *Operations*: reuse of complete manifests, split of the plan, GPU batches,
  `pool.submit` and `collect`, conversion jobs, reconstruction of existing rows,
  writes of the manifests.
- *Hard*: a crash between any two of these, restart with half of the files, a
  cache keyed by chunk number, a failing job among running ones.
- *Correct when*: a passed run describes every variant once, each row has its
  files, memory stays bounded, and a restart completes.

### Scale-8000 Piper workers, supervisor and merge
(`scripts/run_scale8000_dual_gpu_generation.py`,
`scripts/supervise_scale8000_tts_stages.sh`, `render_one_item` in
`scripts/run_scale2000_text_only_diagnostic.py`, `slaif_asr/tts.py`)
- *State*: WAV and part files, a manifest and a summary per worker, the processes;
  in the shell only a count, the previous count, a stale counter and `alive`.
- *Operations*: scan and render with a thread pool, manifest, summary; count,
  look for processes, launch, kill, relaunch, merge.
- *Hard*: the supervisor reads counts and processes at different moments while
  everything moves; it kills at an arbitrary point; it judges completeness by
  files that may be partial; `set -e`.
- *Correct when*: a merged manifest is complete and backed by valid files, no
  worker runs twice, and kills do no harm.

### GaMS text generation and retry controller
(`stage_generate_text_until_valid`, `run_generation_tasks`,
`slaif_asr/gams_retry_controller.py`)
- *State*: the attempt records in `RetryState` and its file, raw outputs.
- *Operations*: initial tasks, batches with out-of-memory fallback, failures,
  saves, filter, shortfall, `plan_refill_tasks`, budgets.
- *Hard*: saves once per batch against raw files once per task, retries over
  restarts, budgets over all processes, identities of refills.
- *Correct when*: the state file agrees with the raw text, no evidence is
  overwritten, budgets hold, the stage ends.

### Scale-8000 text generation on two GPUs
(`scripts/run_scale8000_dual_gpu_generation.py`)
- *State*: one state file and raw directory per worker, two plan files, the merged
  corpus.
- *Operations*: `launch-*`, the worker's task list, `plan-refill`, `merge-text`,
  as commands an operator gives.
- *Hard*: a plan carried out in part, a crash between the two plan files,
  numbering from counts of two files.
- *Correct when*: merged rows keep their evidence and have distinct ids, and a
  plan for a short corpus has work in it.

### Text admission and certificates of scale 8000
(`stage_merge_text`, `stage_admit_text`, `require_text_accepted`, `stage_write_report`)
- *State*: the fixed text, the addition and the generation summary; the decisions,
  the certificate and the report; the manifests of the synthesis workers and the
  merged one with its summary.
- *Operations*: `merge-text`, `admit-text`, the gate of every stage that makes audio,
  the merge of the manifests, `write-report`.
- *Hard*: each command writes several files and may die between two; the hash is
  checked, then the text is read again; what was made of a former text stays on disk.
- *Correct when*: only accepted text is rendered, and certificate, report and
  decisions tell the truth about the text and its audio.

### Surface experiment (`scripts/run_fixed_scale2000_surface08_full_encoder.py`)
- *State*: per round a model file, an optimizer file and a marker with their hashes;
  the training state with the probe curve, the controller curve and the norms; the
  predictions of every round; the training summary, the directional evaluation,
  certificate, report and markdown; the sizes that ran out of memory and the probed one.
- *Operations*: microbatch probe, training (load or initialise, a round, checkpoint,
  state, evaluation in a child, row, reload, stop rule), directional evaluation,
  summary; a shell script that starts them in order under `set -e`.
- *Hard*: seven files are written per round and training may die between any two;
  predictions are reused because their number is right; the stop rule is asked only
  inside the loop; stages may be given by hand.
- *Correct when*: the checkpoints are one chain, every row scores the checkpoint it
  names, the curve has no gap and no double, no restart is refused, and what the
  script certifies is what the rule selects.

### Batched streaming evaluation (`slaif_asr/batched_streaming.py`)
- *State*: one evaluation directory with NeMo's output files, predictions and summary;
  the child process, its pipe, the thread that samples the GPU.
- *Operations*: start of the monitor, `Popen`, relay of the output, wait, terminate and
  kill after an exception, stop and join of the monitor, choice of the newest output,
  parsing, predictions, summary; the report of the calling stage.
- *Hard*: the directory is used again for another checkpoint with the same ids; a
  child outlives a killed parent; hung children, hung `nvidia-smi`.
- *Correct when*: what is reported for a checkpoint was computed from it, and a call
  ends.

### Other components
Live progress (heartbeat thread), S6 rendering pool, corpus-v2 selection with
relaxation, filter and selection functions, edit distances, exposure schedules. GPU
policies, analyses, set-up and download scripts, and tensor code are not modelled:
sequential or pure input and output. `PROJECT.json` gives the reason for each.

### Interaction
Components hand over through files: generation writes state and raw text, merge
writes the fixed corpus, admission certifies it, the Piper and Supertonic stages
read it and write manifests, training reads those and writes checkpoints, which a
streaming child evaluates. The shell supervisor
interacts with its workers through the file count, `pgrep` and signals. The only
memory shared by processes is the pair of queues of the augmentation pool.

## 2. Modules

| Module | Models | How it corresponds |
|---|---|---|
| `OtfPrefetch` | `run_fill_rate_benchmark`, `_worker_main`, `_take_expected` | one action per queue operation, `pc` is the parent's place in the function |
| `OtfPrefetch_proofs` | | theorems of `OtfPrefetch` |
| `SupertonicSynthesis` | `synthesize_batched_supertonic_audio` and its helpers | one action per file write, submit and collect; `Forget` is the loss of memory |
| `SupertonicSynthesis_proofs` | | theorems of `SupertonicSynthesis` |
| `PiperSupervisor` | `supervise_piper`, worker, `render_one_item`, `convert_to_16k_pcm`, merge | the shell loop is split at each of its reads; jobs at each `os.replace` |
| `MCPiperSupervisor` | | two workers with two items each, or three together, and the symmetry |
| `AudioStage` | what an audio stage promises | abstract specification; `final \ bad`, `manifest` and `merged` of `PiperSupervisor` implement it |
| `PiperSupervisor_proofs` | | theorems of `PiperSupervisor`, the refinement of `AudioStage` included |
| `GamsTextGeneration` | `stage_generate_text_until_valid`, `run_generation_tasks`, retry controller | `mem`, `disk` and `raw` are `RetryState`, its file and the raw outputs |
| `AttemptLedger` | what the state file promises | abstract specification; `disk` of `GamsTextGeneration`, and that of each worker of `DualGpuGeneration`, implements it |
| `GamsTextGeneration_proofs` | | theorems of `GamsTextGeneration`, the refinement of `AttemptLedger` included |
| `DualGpuGeneration` | generation workers, `plan-refill`, `merge-text` | commands are actions; `run` is the unsaved rest of a worker's list |
| `DualGpuGeneration_proofs` | | theorems of `DualGpuGeneration`, the two refinements of `AttemptLedger` included |
| `TextAdmission` | `merge-text`, `admit-text`, `require_text_accepted`, synthesis and merge of manifests as far as the text they are of, `write-report` | one action per file written; `pc` is the command's place, `wpc` a worker's |
| `MCTextAdmission` | | two workers and their symmetry |
| `TextAdmission_proofs` | | theorems of `TextAdmission` |
| `ControllerCurve` | `select_earliest_within_tolerance`, the stop rules of the surfaces | pure operators on a curve |
| `SurfaceTraining` | probe, `stage_train`, `stage_evaluate_directional`, `stage_summarize` of surface 08 and its script | one action per file written; `pc` is the place in the stage, `step` the script's next stage |
| `MCSurfaceTraining` | | a score of the base model and three of a round: good, diverging, with empty hypotheses |
| `TrainingLoop` | what a surface experiment promises, as if no process ever died | abstract specification; the complete checkpoints, the saved rows, the summary and the evaluation of `SurfaceTraining` implement it |
| `SurfaceTraining_proofs` | | theorems of `SurfaceTraining`, the refinement of `TrainingLoop` included |
| `StreamingArm` | `run_subprocess_with_monitor`, `NvidiaSmiMonitor`, `run_batched_arm`, the stage that calls it | one action per wait, file and thread step; the child is external |
| `StreamingArm_proofs` | | theorems of `StreamingArm` |

`map` in `PROJECT.json` gives the lines of every definition. A definition whose
comment says *Mutant* is a plausible bug. No specification uses it; with it in the
place of the definition that follows, TLC finds the property named in
`PROJECT.json` violated.

### Abstractions that matter
- Data that no property looks at is dropped: waveforms, text, hashes, timings. A
  task, item or variant is its identity. A list of rows is the number of times each
  variant occurs.
- Filtering is the number of rows an attempt contributes, fixed by its raw output
  and added up. The real filter also removes duplicates across attempts, so the
  retained count can grow by less. The models let every attempt contribute zero.
- Files appear by `os.replace`, so atomically; a part file is modelled where its
  name matters (the supervisor counts it).
- The output queue of the pool is a set from which the oldest message of some
  worker is received: feeder threads race, each is FIFO. A result is larger than
  the pipe, so its worker cannot exit before it is received; an error is not.
- A worker of the pool is killed while it waits or works, not within a write to
  the pipe: a half-written message would make `recv` wait for its rest, longer than
  the timeout of the get. What is said of the pool is said of executions without that.
- In `PiperSupervisor.NextRound` the shell variables that the next iteration
  overwrites before it reads them are cleared. In the source they keep dead values.
- A missing `final-16000` directory ends the supervisor (`find` exits 1, `pipefail`,
  `set -e`): `CountExits`. Each run of the liveness properties states which
  directories exist.
- `RetryLimits` are finite in the model; `null` in the configurations means no
  limit, and then termination depends on the text and is not claimed.
- In `DualGpuGeneration` workers are launched, and `plan-refill` is given, only
  when no worker runs. That is the operator's discipline, not a check in the code.
  `merge-text` may be given at any time. Its check counts completed refills like
  initial attempts, as the code does.
- In `TextAdmission` a text is its version, and a hash is equal exactly when the
  version is. One engine stands for Piper and Supertonic, whose gates, manifests and
  merges are alike. The operator gives `merge-text`, `admit-text` and `write-report`
  one at a time, and `merge-text` not while audio is made; the code checks neither.
  `admit-text` may be given at any other time, a rejection during synthesis included.
  `evidence` is what `merge-text` would write. It does not change while one runs.
- In `SurfaceTraining` the weights in a checkpoint are the launch of the training
  process that made them and the launch whose weights they were trained from; a hash is
  equal exactly when these are. `write_json` replaces its file atomically. A model or
  optimizer file without marker counts as not written, which is how the code treats it.
  A score is the two error rates, the empty hypotheses and the comparison of both probe
  losses with the base model; scores are chosen at the evaluation, the losses included.
  The files that are written and never read again (`round_rows`, round metrics) and the
  reason of the stop are dropped. A stage by hand is given only while the script is not
  running. `OutOfMemory` happens where a round is trained or a checkpoint is loaded
  again; errors elsewhere are `Crash`, which records nothing, like the code.
- In `StreamingArm` every call evaluates another checkpoint, which is the hardest case
  for a directory that is used again. NeMo's output is the newest file of its kind, and
  its rows appear at once; the file is opened before, so a partial one exists. The
  child's pipe ends with the child. There is no clock: a bounded wait that was not
  answered may end at any moment, and no caller gives `timeout_seconds`.

## 3. Runs

| Run | Checks | Instance |
|---|---|---|
| `otf_prefetch` | `TypeOK` `ExactlyOnce` `PutNeverBlocks` `NothingLost` `CleanReturn` `ConsumeEnds` | 3 workers, 5 tasks, 3 slots, 1 kill |
| `supertonic_restarts` | `TypeOK` `RowsBacked` `ManifestCompleteFromEmptyShards` `RestartCompletes` | 4 variants, batches of 3, chunks of 2, 2 threads, 2 pending, 2 crashes, 1 rerun |
| `supertonic_stale_shards` | `ManifestComplete` (violated) | the same without reruns |
| `piper_supervisor` | `TypeOK` `OneProcessEach` `ImplementsStage` | 2 workers with 2 items, 1 thread, stale after 2 rounds, 1 kill, 1 crash, 1 item fault, no directory at first |
| `piper_supervisor_ends` | `SupervisorEnds` `MergesUnlessFaults` | the same faults, 3 items, stale after 1 round, directories exist |
| `text_generation` | `TypeOK` `EvidenceAgrees` `WithinBudgets` `FreshTasks` `StageEnds` `ImplementsLedger` | 2 cells of 3 shards, batches of 2, fallback 1, at most 9 attempts, one fault of each kind |
| `dual_generation` | `TypeOK` `MergedBacked` `UniqueIdsWhenOrderly` | 1 cell of 2 shards, 2 rows needed, 3 plans, 1 fault |
| `dual_duplicate_ids` | `UniqueIds` (violated) | the same with 2 plans |
| `text_admission` | `TypeOK` `RenderedWasAccepted` `AudioCertifiedUnlessStale` `CertificateHashesUnlessTorn` `BooksAgree` | 2 workers, 2 versions of the text, 1 death of a command |
| `surface_training` | `TypeOK` `ImplementsLoop` `RowsOnOwnCheckpoint` `CurvesComplete` `NeverRefused` `ScriptCertifiesSelected` `StopsHeeded` `SweepEnds` | 3 rounds, 2 sizes, 3 scores, 2 faults, 1 stage by hand, 5 training processes |
| `surface_stop` | `StopIsFinal` (violated) | 3 rounds, 1 size, 1 fault, 2 training processes |
| `streaming_arm` | `TypeOK` `OwnPredictions` `CallEnds` | 3 calls, 3 faults |

### Why the bounds are enough
- *Pool*: three workers with three slots give every overtaking pattern of a full
  window, two tasks beyond the prefill give submissions while results are set
  aside, and one killed worker gives every later wait and timeout. The invariants
  are also proved for all values.
- *Supertonic*: a batch (3) larger than the pool (2) makes the loop collect within
  a batch; four variants in chunks of two give two shards, so that a chunk of
  another plan can meet an old shard; two crashes give a crash of the recovery.
  `RowsBacked` and `ManifestCompleteFromEmptyShards` are also proved for all values.
- *Piper*: two workers are what the code has. Two items each separate "some" from
  "all", and one thread makes their order matter. Symmetry exchanges workers and
  items; it is used only in the run without liveness. The run with liveness has three
  items, one of one worker and two of the other, so that every kind of fault fits into
  one behaviour; the model compares each manifest to its own share, so equal shares,
  which the real configuration has, are not special. Its `TypeOK` bounds make the
  state space finite: counters are reset by the code, faults are bounded.
- *Generation*: three shards let the planner's step of two wrap around; nine
  attempts reach each budget; a fault of each kind in one behaviour gives their
  combinations. All but `StageEnds` is also proved for all values.
- *Two GPUs*: one cell, since cells do not interact but for the dealing out, which
  two shards and plans of several refills exercise; three plans give a plan after
  a plan carried out in part. What the run checks is also proved for all values.
- *Admission*: two versions separate the former text from the present one; commands
  may follow each other without end, so every sequence of decisions, replacements
  and reports occurs, with a death between any two files and with manifests of former
  texts beside the new ones. The invariants
  are also proved for any number of versions, deaths and workers.
- *Surface*: three rounds are the fewest with which the shared stop rule speaks, with a
  round behind each stop of the guards in front of it; two faults give a death during the recovery from a
  death; a stage by hand gives the stale size of the probe and a training behind the
  evaluation. Five training processes exceed what two faults and one hand can start, unless no
  round is eligible.
  The invariants are also proved for all values.
- *Streaming*: the third call meets an orphan of the first and the file of the second.
  Three faults let a stage be killed, its child hang, and a later child say nothing.
  `OwnPredictions` is also proved for all values.

`CHECK_DEADLOCK FALSE` stands where the system stops: after the call of the pool,
after the passed Supertonic stage, after the script of a surface, and when nobody starts
another evaluation. `Done` and `Stop` are explicit in the others,
so that TLC would report a state where the supervisor or the stage is stuck.

## 4. Fairness
- *Pool*: `WF(Parent)` since each wait of the parent has a timeout, and weak
  fairness of each worker's step since the operating system schedules it. No
  fairness for kills. A termination (join timed out) belongs to the parent, so the
  claim `ConsumeEnds` does not rest on workers that obey.
- *Supertonic*: the main thread and the pool's threads run, and somebody starts
  the stage again after it has ended (the supervisor's loop). `RestartCompletes` is
  stated for the time after the last fault.
- *Piper*: pool threads, worker processes and the shell loop keep running. No
  fairness for faults. The bound `MaxStaleKills` says that from some time on the
  stage is not slow enough to be killed. Without it the supervisor may kill forever.
- *Generation*: `WF(Step)`, one sequential process. Reruns are not fair: `StageEnds`
  says that every start comes to an end.
- *Surface*: `WF(Work)`: a stage that runs goes on, and the script is run again after it
  has failed, which is what its operator does. No fairness for faults or for stages by
  hand. `SweepEnds` leaves out what no repetition repairs: no size fits in memory, or no
  round is eligible.
- *Streaming*: the stage, each child that does not hang, and the monitor's thread go on.
  No fairness for the answer of `nvidia-smi`, for faults, or for another call.

## 5. Proofs
TLAPS proves, for all values of the constants that meet the named assumptions:

- `OtfPrefetch_proofs` (assumption: workers, tasks and slots are positive).
  - `ExactlyOnceAlways`: the window `delivered .. nextTask-1` is at most `Prefetch`
    wide, and each task in it is in at most one place (queue, worker, output,
    buffer). `TypeOK /\ ExactlyOnce` is inductive as it stands: a delivery frees one
    place and submits one task, an early result moves from one place to another.
  - `PutNeverBlocksAlways`: by counting. The answered tasks and the held one are
    distinct members of a window of `Prefetch` places, so fewer than `Prefetch` are
    answered. This needs the distinctness of indices in `ExactlyOnce`.
  - `NothingLostAlways`: each step moves a task from one place to the next; the
    invariant `ExactlyOnce` excludes that a delivered task was a different one.
  - `CleanReturnAlways`: when the last result was delivered the window is empty, so no
    task is anywhere; the sentinels are counted against the workers that wait.
  - `CallIsBounded` and `WaitsOnlyForWork`, the safe core of `ConsumeEnds`: every step
    takes one of `5 * Total + 2 * NumWorkers + 3`; and while nobody was killed, an empty
    output queue means that a live worker holds the task the parent waits for, or that
    every worker is free to take it, so the get times out only because a worker is slow.
    `WindowIsFull` (all but the delivered tasks of the window are somewhere) and
    `LeaversReport` (a worker that left its loop by an error has put it in the queue)
    carry it. Only "it does go on" is left to fairness.
- `PiperSupervisor_proofs` (assumptions: workers and items are finite and every
  worker owns an item, limits are natural numbers).
  - `MergedCompleteAlways`: the merge trusts manifests that a dead or killed
    process may have left. The inductive invariant adds `FilesAgree` (a row in memory
    or in a manifest has a valid final WAV; an item still being rendered has none)
    and `LaunchSafe` (what the supervisor read before it launches still holds) to
    `TypeOK`. A merge then happens only when the row counts equal the shares, and a
    subset of a finite set with its cardinality is the whole set.
  - `OneProcessEachAlways`: the counts and the look at the processes are separate
    reads, but nobody except the supervisor launches, so "no process" stays true
    until it acts. This is `LaunchSafe`.
  - `ImplementsStageAlways`: every step is one of `AudioStage` or a stutter. `FilesAgree`
    shows that valid audio is never lost; `ListedIsHeld` (a process that renders or
    reports has each row of its manifest) that a later manifest never lacks a row of an
    earlier one, whatever was killed in between; the row counts that all shares are
    whole when they are merged.
  - `NeverFailsAlways`, the safe core of `MergesUnlessFaults`: without a crash or a failed
    item neither `set -e` nor a count ends the supervisor. `ManifestsWhole` says that
    every worker that is not running has a whole manifest, unless it has just been
    killed and is launched next; this is why a part file that makes the count too high
    does no harm here.
- `SupertonicSynthesis_proofs` (`ConstantsAssumption`: variants, batches, chunks and
  threads are positive, and as many conversions may be pending as there are threads).
  - `RowsBackedAlways`: files are only added, and a row is made after both WAVs exist.
    The inductive invariant says of each variant whether it waits for its conversion or
    has a row, so a row in memory, in a shard or in a manifest always has its files.
  - `ManifestCompleteUnlessShards`: in a run that found no shard, every shard on disk
    was made by the run from its own chunk. Chunk positions have no gap, so the chunks
    cover the plan, and each variant has a row in exactly one place.
  - `RunIsBounded` and `CleanRunNeverStuck`, the safe core of `RestartCompletes`: a run
    takes at most `7 * N + 7` steps, main thread and pool never wait for each other, and
    a run that found no shard reaches the native manifest with one row of each variant.
- `GamsTextGeneration_proofs` (`SizeAssumption`: sizes are positive, a round's refills
  of a cell fit the step of two over the shards, the initial attempts fit the budgets).
  The inductive invariant adds to `TypeOK`, `EvidenceAgrees` and `FreshTasks`: `Place`;
  `Unsaved` (memory is ahead of the file by what the running batch has written, no
  more); `Grounded` (the indices of a shard have no gap, so the next index is at most
  the number of attempts of the shard); `InitialFirst`; and `Budgeted`, the budgets of
  what is recorded, still to do and initial, together.
  - `EvidenceAgreesAlways`: the record of a completed attempt describes the raw output on
    disk, since no completed attempt is a task again and a raw output is written before
    its record.
  - `WithinBudgetsAlways`: the planner compares before it plans, a call only records
    what was planned, and initial attempts were counted from the start, so no sequence
    of restarts can go above a limit.
  - `FreshTasksAlways`: the refills of a cell in one round are in different shards,
    since twice the cap per round is at most the number of shards plus one.
  - `ImplementsLedgerAlways`: each step maps to a step of `AttemptLedger` or a stutter.
  - `StageIsBounded`, the safe core of `StageEnds`: a start takes at most
    `(3 * MaxTotal + 4) * (MaxRounds + 2)` steps. A batch, an out-of-memory fallback, a
    failed batch and a round each take something from a measure that only a crash or a
    new start gives back.
- `DualGpuGeneration_proofs` (`SizeAssumption`: sizes are positive).
  - `MergedBackedAlways`: no list of a worker contains a completed attempt (`Running`),
    so neither a raw output nor a record of a merged row is ever written again.
  - `UniqueIdsWhenOrderlyAlways`: initial attempts are shared once and for all
    (`OwnInitial`); of refills, `Numbering` says that those recorded or dealt are
    disjoint for the two workers and have the numbers from 1 on without gap. A bijection
    between records and numbers shows that the count `plan-refill` takes is the last
    number. The history variable `pending` tells a plan that no worker has seen from one
    that was launched: the former may be replaced, half written or whole, without harm.
    It fails where a launched plan was not whole or not carried out: finding 2.
  - `ImplementLedgersAlways`: the state file of each worker implements `AttemptLedger`
    over every launch, error, crash and refill, although `plan-refill` deals by position.
  - `PlanSuffices`: the arithmetic of `plan_refill` (integer division, ceiling, floor of
    the yield): if planned attempts yield three quarters of the average, the plan covers
    the shortfall without its reserve.
- `TextAdmission_proofs` (assumptions: there is a worker and a version, deaths are a
  natural number).
  - `OnlyAcceptedText`: the inductive invariant adds `Orderly` (no `merge-text` while
    audio is made; a command that admits has read the text that is on disk) and
    `AcceptedByHuman` (an acceptance in the certificate was given). A worker between
    check and load then still finds the text of the certificate.
  - `AudioOfPresentText`: `AudioOfText` says which manifests are of the text on disk:
    those written since it was put there (`renewed`). If the merge read only those, and
    the text was not replaced before the report (`stale`), the certificate is right,
    whatever manifests of former texts lay beside them.
  - `HashesOfOneMerge`: `FilesOfOneMerge` says how far a running `merge-text` has come,
    and `torn` what a dead one has left, until one runs to its end.
  - `BooksAgreeAlways`: the invariant says what each place of a running command has
    already written and what it will still write.
  - `RerunRepairs`, an action property: whatever deaths have left, a `merge-text`, an
    `admit-text` or a `write-report` that runs to its end leaves files that agree. The
    properties above assume it where they take something from `torn`.
- `SurfaceTraining_proofs` (assumptions: at least one round, sizes between 1 and the
  effective batch size, scores of the stated form). The inductive invariant, which the
  run was used to find, is
  `Types /\ Chain /\ Place /\ SavedCurve /\ HeldCurve /\ Scored /\ Summarised /\ NeverRefused`.
  - `LineageAlways`: `Chain` says that the complete rounds are `0..n`, each trained
    from the one before. `Place` says for each place of the process which round it holds
    and that its weights continue the last complete one, so a half-written checkpoint is
    always the next one and is overwritten by the next process.
  - `RowsOnOwnCheckpointAlways`: `Scored` says that predictions exist only of complete
    checkpoints and are of their weights; a complete checkpoint is never written again.
  - `CurvesCompleteAlways`: `SavedCurve` and `HeldCurve` say how far the curves on disk
    and in memory are, given the latest complete round and the place: at most one row
    and one state behind, which is exactly what a load repairs.
  - `NeverRefusedAlways`: with these, each condition of a load holds wherever one is made.
  - `ScriptCertifiesSelectedAlways`: `Orderly` says that a stage by hand runs before or
    after the script and never inside it, that the place of a process of the script
    belongs to its step, and which files already agree with the saved curve at each step.
    So whatever stages by hand have left, a script that gets through certifies one round.
  - `StopsHeededAlways`: `Heeding` counts the stops of the saved curve against the training
    processes, less a `Slack` that depends on the place: a process appends at most one
    row at which it stops, and one that resumes a round without its row finds at most
    that stop and goes on. `SavedRowsStep` shows that only `AppendRow` changes the rows.
  - `ImplementsLoopAlways`: each step maps to one of `TrainingLoop` or a stutter. Beyond
    `Chain` and `Scored` it needs `Reproducible` (scores are what an evaluation can
    give, a summary selects what its own rows select, base weights come from nothing) and
    that neither a complete checkpoint nor a saved row ever changes.
  - `SelectedUnlessBestIsEmpty` (about `ControllerCurve`, for any rows) and
    `CertifiedIsWithinToleranceAlways`: `int(None)` can raise only when the best round has
    more empty hypotheses than the base model, and what a script certifies is the
    earliest round within the tolerances.
  - `ScriptIsBounded`, the safe core of `SweepEnds`: unless a stage dies, is started by
    hand, or gives up (no size fits, no round is eligible), every step takes one of
    `4 * (15 + 8 * MaxRounds)`. `InScript` says that a stage of the script finds what
    the stages before it have left, so none refuses its input.
- `StreamingArm_proofs` (assumption: there is a call, faults are a natural number).
  - `OwnPredictionsAlways`: the inductive invariant says that a child that is alive
    belongs to the present call or to a killed stage (or never moves again), so that
    after an undisturbed start the only writer of the newest file is the call's own
    child, and that the stage reads it only after this child has ended.
  - `NoOrphansAlways`: a call that ends without being killed has outlived its child.
  - `CallIsBounded` and `CallNeverStuck`, the safe core of `CallEnds`: at most 19 steps,
    and never a wait for what cannot come, but for a child that hangs while its output
    is read, which has no timeout.

`TypesCorrect` states the type invariant of each of these modules.

Only model-checked: the liveness properties themselves (`ConsumeEnds`,
`RestartCompletes`, `SupervisorEnds`, `MergesUnlessFaults`, `StageEnds`, `SweepEnds`,
`CallEnds`). Every invariant and every action property of a passing run is proved, and for
all of these but `SupervisorEnds` what they rest on besides fairness: a bound on the
steps, that what is waited for is there or on its way, that no refusal ends the work. In
`CleanRunNeverStuck` the native manifest is reached with one row of each variant; that
`Length`, a fold, is then `N` is left to TLC.
Liveness under fairness and `ENABLED` stay out of this prover's reach. So
does the induction rule of its library; what the generation modules need of the recursive
functions `Without` and `FlattenSeq` (which members, each once) is proved from the smallest
number of steps for which it would fail.

## 6. Findings
1. **A stale reconstruction shard passes** (`supertonic_stale_shards`). A shard is
   reused when its number of rows fits the chunk, although the chunk belongs to
   another existing plan. After a crash behind the shard, a later run reports
   `PASSED` with one variant missing and another one twice. The property holds of
   each run that finds no shard (`ManifestCompleteFromEmptyShards`).
2. **Two rows with one `candidate_id`** (`dual_duplicate_ids`). `plan-refill` numbers
   from the count of recorded refills and deals by position. After a plan carried
   out in part, a number recorded by one worker goes to the other. It holds when
   each plan that is launched is whole and carried out before the next one is made
   (`UniqueIdsWhenOrderly`), also after a `plan-refill` that died between its two files
   and was given again.
3. **A rerun trains past the stop** (`surface_stop`). The stop rule is asked inside the
   loop, after a round. When a later stage fails and the script is run again, training
   resumes behind the stop, trains one more round, and may select it. Within one
   process the rule is heeded (`StopsHeeded`).

Observations of the models that contradict no text of the repository, so that no run
counts them as findings:

- *Pool*: the prefill raises outside the `try` block, so the other workers get no
  sentinel (`pc = "abandoned"`; they are not daemons, so the calling process waits for
  them at its exit). A worker that is killed while it writes to the pipe is not modelled:
  the parent could then wait in `recv` longer than its timeout.
- *Supertonic*: a shard of another length, or a half pair, is refused at every start, so
  the stage completes only after someone deletes the file; `RestartCompletes` excludes it.
- *Supervisor*: it counts every `*.wav`, a left-over `<stem>.part.wav` included, and
  looks at no manifest. A worker that dies in its last conversion, or between its last
  WAV and its manifest, makes the stage look complete; the merge then raises and
  `set -e` ends the supervisor. No incomplete merge is written: `MergedComplete` is
  proved, and follows from `ImplementsStage`. The Supertonic supervision, which uses the
  same `count_wavs`, ends at once when its directory does not exist yet. A final WAV that
  `validate_wav` rejects stops each later start of its worker, and the supervisor goes on
  restarting it; `SupervisorEnds` excludes it. `MergesUnlessFaults` is about stale kills
  only.
- *Admission*: when the text is replaced and accepted anew, the manifests of the former
  text stay, and a merge given before new synthesis compares only their size:
  `CLEAN_AUDIO_GENERATED` is then written into the certificate of the new text. And a
  `merge-text` that dies before its summary leaves a text that can be admitted with
  `new_addition_sha256` and `generated_rows` of the former merge. And a `merge-text`
  between a worker's check of the hash and its reading of the text, which the model
  leaves out, would be rendered unaccepted. `AudioCertifiedUnlessStale` and
  `CertificateHashesUnlessTorn` say of the first two that nothing else leads there.
- *Two GPUs*: a half plan that is launched as it is leaves gaps in the recorded numbers,
  which the next count passes over: the defect of finding 2 by another way.
- *Surface*: a summary given by hand, after training was repeated and before the
  evaluation was, certifies the checkpoint of another round, until the script gets
  through again. The norm curve has a gap
  where a process died between marker and state. When no round is eligible
  `int(None)` raises at every run, after the curve is complete. Training by hand takes
  the old size of the probe, even one that has run out of memory since. The
  configuration of the curve asks for 3 rounds before a stop, the guards of surface 08
  stop after 2. Surfaces 04 to 07 do not reload after an evaluation, record no
  out-of-memory error and use the shared stop rule alone.
- *Streaming*: after a stage was killed its child goes on, and a call in the same
  directory may then report the orphan's predictions; so may a call whose child
  succeeds without a file. A child that hangs with its pipe open is waited for until
  someone interrupts. `OwnPredictions` and `CallEnds` exclude these.

## 7. What is not modelled
The components of status `not_modelled` in `PROJECT.json`, most of which are sequential
functions of their inputs, numerical code or input and output: nothing in them depends
on order, time or restart, and tests reach them. Of the modelled
files: the deterministic checks and numeric reports of the pool,
`synthesize_partition` (an older serial path), the out-of-memory splitting of a
Supertonic batch, GPU monitors other than the one of the streaming arm,
`supervise_supertonic` (the same loop over another stage), the exposure stages, the input and hardware checks, surface
discovery and parameter tables of the surfaces, and of the reports their markdown and
storage fields. The surfaces 04 to 07 are earlier copies of the program
`SurfaceTraining` models, with the differences of section 6; they are not modelled a
second time.

The repository repeats itself: each experiment is a script that carries its own copy of
the stages of the former one. The modules model the last of each line, so the lines
they map are a small share of all lines, which says little about the share of the
behaviours.

## 8. Plan
Done, in this order: pool, Supertonic (crashes), Piper supervisor (processes and a
supervisor), generation with its ledger, two GPUs, text admission, a surface experiment
with its curve, the streaming arm. What would come next:

*Modules*
1. A composition of `SurfaceTraining` with `StreamingArm`, whose call is one step in
   the former, and of `TextAdmission` with `DualGpuGeneration`.
2. `S6Pool`: render or reuse, stop rule on the development set.
3. Algorithms against reference definitions: out-of-memory splitting, corpus-v2
   selection with relaxation, exposure schedules, the selection of fixed rows, edit
   distances.
4. `supervise_supertonic` as an instance of the supervisor, followed by the
   Supertonic stage.

*Abstract specifications*: `AttemptLedger`, `TrainingLoop` and `AudioStage` are
implemented and proved. Next: `TextAdmission` with `AudioStage` in the place of its
workers; `SupertonicSynthesis` against `AudioStage`, which it can implement only as far as
no shard is stale (finding 1); a bounded ordered buffer for the pool.

*Theorems*: of what is modelled now every invariant, every action property and every
refinement that a run checks is proved, and of the liveness properties the parts that do
not need fairness. `SupervisorEnds` lacks its safe part: a measure for a supervisor that
restarts as often as faults allow. The others would follow with the modules above.
