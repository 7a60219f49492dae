-------------------------- MODULE DualGpuGeneration --------------------------
(***************************************************************************)
(* The text stages of the scale-8000 run: two worker processes, each with  *)
(* its own state file and raw outputs, first share the initial attempts    *)
(* and then whatever refill plan is on disk; plan-refill reads both state  *)
(* files, numbers new refills after counting the recorded ones, and deals  *)
(* them out to the workers; merge-text builds the combined corpus.  The    *)
(* stages are separate commands that may be given at any time, except that *)
(* workers are launched only when none is running.                         *)
(*                                                                         *)
(* Filtering is abstracted to the number of rows an attempt contributes.   *)
(***************************************************************************)
EXTENDS Integers, Sequences, FiniteSets, SequencesExt

CONSTANTS NumCells,      \* prompt cells
          NumShards,     \* shards_per_cell
          Needed,        \* new_rows_per_cell
          Surplus,       \* new_surplus_per_cell
          YieldFloor,    \* 8.0 of conservative_yield
          Extra,         \* the 5 attempts on top of the estimate
          BatchSize,     \* prompt_batch_size
          Fallback,      \* oom_fallback_batch_size
          MaxRefill,     \* bound: the largest refill number; plans beyond it are not made
          MaxYield,      \* bound: rows that one attempt contributes
          MaxPlans, MaxFaults     \* bounds: plans made; errors and crashes

ASSUME SizeAssumption ==
    /\ {NumCells, NumShards, Needed, YieldFloor, Extra, BatchSize, Fallback, MaxYield} \subseteq Nat \ {0}
    /\ {Surplus, Extra, MaxRefill, MaxPlans, MaxFaults} \subseteq Nat
    /\ Fallback < BatchSize

Worker == {0, 1}         \* gpu0, gpu1
Cell == 1 .. NumCells
\* attempt_id: shard01 .. are 1 .. NumShards, refill0001 .. come after them.
Id == [cell : Cell, shard : 1 .. NumShards + MaxRefill]
IsRefill(a) == a.shard > NumShards

Absent == -2
Failed == -1
Rows == 0 .. MaxYield    \* a completed attempt, with what it contributes
Off == <<[cell |-> 0, shard |-> 0]>>   \* no process, no file

VARIABLES disk,    \* generation-state-<worker>: record of each attempt
          raw,     \* raw-generation/<worker>: what the text contributes, or Absent
          run,     \* the tasks of a running worker that are not saved yet, or Off
          size,    \* batch_size of the running worker
          out,     \* outputs of its batch, in memory and written to raw
          plan,    \* refill-plan-<worker>, or Off if there is no file
          merged,  \* rows of the combined corpus: <<worker, attempt, ordinal>>
          pending, \* history: the plan files wait for a launch, "whole" or only
                   \* that of gpu0 ("half"); or "none" do
          orderly, \* history: only whole plans were launched, and each was carried
                   \* out before another was made
          plans, faults    \* so far

counters == <<plans, faults>>
vars == <<disk, raw, run, size, out, plan, merged, pending, orderly, counters>>

TypeOK ==
    /\ disk \in [Worker -> [Id -> {Absent, Failed} \cup Rows]]
    /\ raw \in [Worker -> [Id -> {Absent} \cup Rows]]
    /\ run \in [Worker -> Seq(Id) \cup {Off}]
    /\ size \in [Worker -> {BatchSize, Fallback}]
    /\ out \in [Worker -> Seq(Rows)] /\ \A w \in Worker : Len(out[w]) <= BatchSize
    /\ plan \in [Worker -> Seq(Id) \cup {Off}]
    /\ merged \subseteq Worker \X Id \X (1 .. MaxYield)
    /\ pending \in {"none", "half", "whole"}
    /\ orderly \in BOOLEAN

-----------------------------------------------------------------------------
(* Reading the state files *)

Completed(w) == {a \in Id : disk[w][a] \in Rows}

\* Mutant: rows are counted from 0.
GeneratedFromZero(c) ==
    {r \in Worker \X {a \in Id : a.cell = c} \X (0 .. MaxYield) :
        disk[r[1]][r[2]] >= r[3]}
\* All rows that load_worker_generated_rows reads for a cell.
Generated(c) ==
    {r \in Worker \X {a \in Id : a.cell = c} \X (1 .. MaxYield) :
        disk[r[1]][r[2]] >= r[3]}

\* Over both workers: rows retained, attempts completed, refills recorded.
Retained(c) == Cardinality(Generated(c))
Attempts(c) == Cardinality({e \in Worker \X Id : e[2].cell = c /\ e[2] \in Completed(e[1])})
Refills(c) == {e \in Worker \X Id : e[2].cell = c /\ IsRefill(e[2]) /\ disk[e[1]][e[2]] # Absent}
ExistingRefills(c) == Cardinality(Refills(c))

\* Item i of a list goes to gpu0 or gpu1 in turn.
Share(s, w) == [i \in 1 .. (Len(s) + 1 - w) \div 2 |-> s[2 * i - 1 + w]]

InitialList ==
    [k \in 1 .. NumCells * NumShards |->
        [cell |-> ((k - 1) \div NumShards) + 1, shard |-> ((k - 1) % NumShards) + 1]]

\* Mutant: the shares of the workers overlap.
InitialTasksAll(w) == InitialList
InitialTasks(w) == Share(InitialList, w)

-----------------------------------------------------------------------------
(* plan-refill *)

Shortfall(c) == IF Retained(c) < Needed + Surplus THEN Needed + Surplus - Retained(c) ELSE 0

CeilDiv(x, y) == (x + y - 1) \div y

\* ceil(deficit / max(floor, 3/4 of the observed yield)) + Extra
RefillCount(c) ==
    LET done == IF Attempts(c) = 0 THEN 1 ELSE Attempts(c)
    IN  IF Shortfall(c) = 0 THEN 0
        ELSE Extra + IF 3 * Retained(c) > 4 * done * YieldFloor
                     THEN CeilDiv(4 * done * Shortfall(c), 3 * Retained(c))
                     ELSE CeilDiv(Shortfall(c), YieldFloor)

RefillTasks(c) ==
    [k \in 1 .. RefillCount(c) |-> [cell |-> c, shard |-> NumShards + ExistingRefills(c) + k]]

NewPlan(w) == Share(FlattenSeq([c \in Cell |-> RefillTasks(c)]), w)

\* Bound: the numbers of the new plan are in Id.
Numbered == \A c \in Cell : ExistingRefills(c) + RefillCount(c) <= MaxRefill

\* Nothing runs and everything in the plan files is recorded as completed.
CarriedOut ==
    \A w \in Worker :
        /\ run[w] = Off
        /\ plan[w] # Off => ToSet(plan[w]) \subseteq Completed(w)

\* No worker has seen the plan files, or they have done all that is in them.
MayReplace == pending # "none" \/ CarriedOut

PlanRefill ==
    /\ \A w \in Worker : run[w] = Off
    /\ plans < MaxPlans /\ plans' = plans + 1
    /\ Numbered
    /\ plan' = [w \in Worker |-> NewPlan(w)]
    /\ pending' = "whole" /\ orderly' = (orderly /\ MayReplace)
    /\ UNCHANGED <<disk, raw, run, size, out, merged, faults>>

\* It dies after the plan of gpu0 is written.
PlanRefillDies ==
    /\ \A w \in Worker : run[w] = Off
    /\ plans < MaxPlans /\ plans' = plans + 1
    /\ faults < MaxFaults /\ faults' = faults + 1
    /\ Numbered
    /\ plan' = [plan EXCEPT ![0] = NewPlan(0)]
    /\ pending' = "half" /\ orderly' = (orderly /\ MayReplace)
    /\ UNCHANGED <<disk, raw, run, size, out, merged>>

-----------------------------------------------------------------------------
(* _run_generation_task_list *)

Least(x, y) == IF x <= y THEN x ELSE y
Batch(w) == SubSeq(run[w], 1, Least(size[w], Len(run[w])))

\* What is left of a list without the attempts in T, in the same order.
Without(list, T) ==
    LET left[n \in 0 .. Len(list)] ==
            IF n = 0 THEN <<>>
            ELSE IF list[n] \in T THEN left[n - 1] ELSE Append(left[n - 1], list[n])
    IN  left[Len(list)]

\* Mutant: what is completed is generated again.
ToDoAll(w, tasks) == tasks
ToDo(w, tasks) == Without(tasks, Completed(w))

LaunchInitial ==
    /\ \A w \in Worker : run[w] = Off
    /\ run' = [w \in Worker |-> ToDo(w, InitialTasks(w))]
    /\ size' = [w \in Worker |-> BatchSize]
    /\ UNCHANGED <<disk, raw, out, plan, merged, pending, orderly, counters>>

\* Both plan files must exist; a worker with an empty plan is not launched.
LaunchRefill ==
    /\ \A w \in Worker : run[w] = Off /\ plan[w] # Off
    /\ run' = [w \in Worker |-> IF plan[w] = <<>> THEN Off ELSE ToDo(w, plan[w])]
    /\ size' = [w \in Worker |-> BatchSize]
    /\ pending' = "none" /\ orderly' = (orderly /\ pending # "half")
    /\ UNCHANGED <<disk, raw, out, plan, merged, counters>>

\* Generate the next batch and write its raw outputs.
WriteBatch(w) ==
    /\ run[w] \notin {Off, <<>>} /\ out[w] = <<>>
    /\ \E ys \in [1 .. Len(Batch(w)) -> Rows] :
          /\ out' = [out EXCEPT ![w] = ys]
          /\ raw' = [raw EXCEPT ![w] =
                [a \in Id |-> IF \E i \in DOMAIN ys : Batch(w)[i] = a
                              THEN ys[CHOOSE i \in DOMAIN ys : Batch(w)[i] = a]
                              ELSE raw[w][a]]]
    /\ UNCHANGED <<disk, run, size, plan, merged, pending, orderly, counters>>

OomFallback(w) ==
    /\ run[w] \notin {Off, <<>>} /\ out[w] = <<>> /\ size[w] = BatchSize
    /\ faults < MaxFaults /\ faults' = faults + 1
    /\ size' = [size EXCEPT ![w] = Fallback]
    /\ UNCHANGED <<disk, raw, run, out, plan, merged, pending, orderly, plans>>

\* Any other error: the batch is recorded as failed and the worker ends.
BatchFails(w) ==
    /\ run[w] \notin {Off, <<>>} /\ out[w] = <<>>
    /\ faults < MaxFaults /\ faults' = faults + 1
    /\ disk' = [disk EXCEPT ![w] = [a \in Id |-> IF a \in ToSet(Batch(w)) THEN Failed ELSE disk[w][a]]]
    /\ run' = [run EXCEPT ![w] = Off]
    /\ UNCHANGED <<raw, size, out, plan, merged, pending, orderly, plans>>

\* save_state, with the records of the whole batch.
SaveBatch(w) ==
    /\ out[w] # <<>>
    /\ disk' = [disk EXCEPT ![w] =
          [a \in Id |-> IF a \in ToSet(Batch(w)) THEN raw[w][a] ELSE disk[w][a]]]
    /\ run' = [run EXCEPT ![w] = SubSeq(@, Len(out[w]) + 1, Len(@))]
    /\ out' = [out EXCEPT ![w] = <<>>]
    /\ UNCHANGED <<raw, size, plan, merged, pending, orderly, counters>>

WorkerEnds(w) ==
    /\ run[w] = <<>> /\ out[w] = <<>>
    /\ run' = [run EXCEPT ![w] = Off]
    /\ UNCHANGED <<disk, raw, size, out, plan, merged, pending, orderly, counters>>

WorkerDies(w) ==
    /\ run[w] # Off
    /\ faults < MaxFaults /\ faults' = faults + 1
    /\ run' = [run EXCEPT ![w] = Off]
    /\ out' = [out EXCEPT ![w] = <<>>]
    /\ UNCHANGED <<disk, raw, size, plan, merged, pending, orderly, plans>>

-----------------------------------------------------------------------------
(* merge-text *)

CandidateId(r) == <<r[2], r[3]>>    \* does not name the worker

\* The check counts completed attempts of either kind.
WorkersComplete ==
    \A w \in Worker : Cardinality(Completed(w)) >= Len(InitialTasks(w))

\* The first Needed rows in the order of SHA256(candidate_id), which is any
\* order: of rows with the same id all or none are selected, but for the last.
Selections(c) ==
    {S \in SUBSET Generated(c) :
        /\ Cardinality(S) = Needed
        /\ Cardinality({CandidateId(r) : r \in S} \cap {CandidateId(r) : r \in Generated(c) \ S}) <= 1}

MergeText ==
    /\ WorkersComplete
    /\ \A c \in Cell : Shortfall(c) = 0
    /\ \E f \in [Cell -> SUBSET UNION {Generated(c) : c \in Cell}] :
          /\ \A c \in Cell : f[c] \in Selections(c)
          /\ merged' = UNION {f[c] : c \in Cell}
    /\ UNCHANGED <<disk, raw, run, size, out, plan, pending, orderly, counters>>

-----------------------------------------------------------------------------
Init ==
    /\ disk = [w \in Worker |-> [a \in Id |-> Absent]] /\ raw = disk
    /\ run = [w \in Worker |-> Off] /\ size = [w \in Worker |-> BatchSize]
    /\ out = [w \in Worker |-> <<>>]
    /\ plan = [w \in Worker |-> Off]
    /\ merged = {} /\ pending = "none" /\ orderly = TRUE
    /\ plans = 0 /\ faults = 0

Command == PlanRefill \/ PlanRefillDies \/ LaunchInitial \/ LaunchRefill \/ MergeText
Work(w) == \/ WriteBatch(w) \/ SaveBatch(w) \/ WorkerEnds(w)
           \/ OomFallback(w) \/ BatchFails(w) \/ WorkerDies(w)
Next == Command \/ \E w \in Worker : Work(w)

Spec == Init /\ [][Next]_vars

-----------------------------------------------------------------------------
(* Properties *)

\* Each row of the combined corpus can be read again from the raw outputs, and
\* the state file that says so is on disk, also after later refills, failures
\* and repeated merges: what has been reviewed keeps its evidence.
MergedBacked ==
    \A r \in merged : disk[r[1]][r[2]] >= r[3] /\ raw[r[1]][r[2]] = disk[r[1]][r[2]]

\* "combined corpus contains duplicate semantic IDs" (verify_scale2000_prefix):
\* no two rows of the combined corpus have the same candidate_id.
UniqueIds == \A r, s \in merged : CandidateId(r) = CandidateId(s) => r = s

\* So it is when each refill plan that was launched was whole and was carried out
\* before another was made: a plan-refill that dies between its two files does no
\* harm when it is given again before the launch.
UniqueIdsWhenOrderly ==
    orderly => \A r \in merged, s \in merged : CandidateId(r) = CandidateId(s) => r = s
=============================================================================
