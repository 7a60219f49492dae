------------------------- MODULE GamsTextGeneration -------------------------
(***************************************************************************)
(* stage_generate_text_until_valid of the scale-2000 run with its retry    *)
(* controller: load the state file, generate what is left of the initial   *)
(* attempts in batches, filter, plan refills for the cells that are short, *)
(* generate those, filter again, until no cell is short or a budget is     *)
(* spent.  A batch that runs out of memory is retried once per call with   *)
(* the smaller size; any other failure records the batch as failed and     *)
(* ends the process.  Raw outputs are written before they are recorded,    *)
(* and the state file is saved once per batch.                             *)
(*                                                                         *)
(* Filtering is abstracted to the number of rows an attempt contributes,   *)
(* which is fixed by its raw output.                                       *)
(***************************************************************************)
EXTENDS Integers, Sequences, FiniteSets, SequencesExt

CONSTANTS NumCells,      \* prompt cells
          NumShards,     \* shards of a cell: initial_tasks, and "% 9"
          MaxIndex,      \* bound: the largest attempt_index
          MaxYield,      \* bound: rows that one attempt contributes
          Target,        \* new_rows_per_cell + new_surplus_per_cell
          Divisor,       \* adaptive_refill_divisor
          RefillCap,     \* max_refill_attempts_per_cell_per_round
          BatchSize,     \* prompt_batch_size
          Fallback,      \* oom_fallback_batch_size
          MaxRounds, MaxPerShard, MaxPerCell, MaxTotal, MaxRequested,  \* RetryLimits
          RowsPerAttempt,     \* requested_rows_per_attempt
          MaxOoms, MaxErrors, MaxCrashes, MaxReruns, MaxUnbalanced     \* bounds: faults

ASSUME SizeAssumption ==
    /\ {NumCells, NumShards, Target, Divisor, RefillCap, BatchSize, Fallback, RowsPerAttempt}
         \subseteq Nat \ {0}
    /\ {MaxIndex, MaxYield, MaxRounds, MaxPerShard, MaxPerCell, MaxTotal, MaxRequested,
        MaxOoms, MaxErrors, MaxCrashes, MaxReruns, MaxUnbalanced} \subseteq Nat
    /\ Fallback < BatchSize
    /\ 2 * RefillCap <= NumShards + 1   \* 5 and 9 in the code
    \* The initial attempts are not budgeted; the limits leave room for them.
    /\ NumCells * NumShards <= MaxTotal
    /\ NumCells * NumShards * RowsPerAttempt <= MaxRequested
    /\ NumShards <= MaxPerCell
    \* The bound on attempt indices never cuts: a shard at its limit stops the planner.
    /\ MaxPerShard \in 1 .. MaxIndex + 1

Cell == 1 .. NumCells
Shard == 1 .. NumShards
Id == [cell : Cell, shard : Shard, index : 0 .. MaxIndex]   \* attempt_id
InitialIds == {a \in Id : a.index = 0}

Absent == -2
Failed == -1
Rows == 0 .. MaxYield        \* a completed attempt, with what it contributes

VARIABLES disk,     \* the state file: record of each attempt
          mem,      \* RetryState in memory
          raw,      \* raw output files: what their text contributes, or Absent
          pc,       \* where the process is
          tasks,    \* the tasks of the running run_generation_tasks call
          index,    \* its index (from 1)
          size,     \* its batch_size
          wrote,    \* tasks of the batch that are written and recorded
          round,    \* round_index
          short,    \* shortfalls, 0 for a cell that is not short
          ooms, errors, crashes, reruns, unbalanced   \* faults so far

call == <<tasks, index, size, wrote>>
faults == <<ooms, errors, crashes, reruns, unbalanced>>
vars == <<disk, mem, raw, pc, call, round, short, faults>>

TypeOK ==
    /\ disk \in [Id -> {Absent, Failed} \cup Rows]
    /\ mem \in [Id -> {Absent, Failed} \cup Rows]
    /\ raw \in [Id -> {Absent} \cup Rows]
    /\ pc \in {"off", "generate", "write", "filter", "plan", "done", "raised"}
    /\ tasks \in Seq(Id)
    /\ index \in 1 .. Len(tasks) + 1
    /\ size \in {BatchSize, Fallback}
    /\ wrote \in 0 .. BatchSize
    /\ round \in 0 .. MaxRounds + 1
    /\ short \in [Cell -> Nat]

-----------------------------------------------------------------------------
(* RetryState and the planner *)

Recorded(s) == {a \in Id : s[a] # Absent}
Completed(s) == {a \in Id : s[a] \in Rows}
OfCell(s, c) == {a \in Recorded(s) : a.cell = c}
OfShard(s, c, h) == {a \in OfCell(s, c) : a.shard = h}

\* Mutant: failed attempts do not count.
NextIndexOfCompleted(s, c, h) ==
    LET used == {a.index : a \in OfShard(s, c, h) \cap Completed(s)}
    IN  CHOOSE i \in 0 .. MaxIndex + 1 :
            (\A j \in used : j < i) /\ (i = 0 \/ i - 1 \in used)
\* One above the largest recorded index, whatever its status.
NextIndex(s, c, h) ==
    LET used == {a.index : a \in OfShard(s, c, h)}
    IN  CHOOSE i \in 0 .. MaxIndex + 1 :
            (\A j \in used : j < i) /\ (i = 0 \/ i - 1 \in used)

Least(x, y) == IF x <= y THEN x ELSE y

\* targeted_attempt_count, cut by the cap per round and the cell's budget.
RefillCount(s, c, deficit) ==
    IF deficit = 0 THEN 0
    ELSE Least(MaxPerCell - Cardinality(OfCell(s, c)),
               Least(RefillCap, (deficit + Divisor - 1) \div Divisor))

\* Mutant: the shard does not advance within a round.
RefillTasksOneShard(s, c, deficit) ==
    [k \in 1 .. RefillCount(s, c, deficit) |->
        LET h == (Cardinality(OfCell(s, c)) % NumShards) + 1
        IN  [cell |-> c, shard |-> h, index |-> NextIndex(s, c, h)]]
\* The shard advances by two with every task: attempts_by_cell grows along
\* with offset.  The skip for a shard at its limit cannot happen: no shard is
\* used twice, and ExhaustedBudgets has refused shards that are at the limit.
RefillTasks(s, c, deficit) ==
    [k \in 1 .. RefillCount(s, c, deficit) |->
        LET h == ((Cardinality(OfCell(s, c)) + 2 * (k - 1)) % NumShards) + 1
        IN  [cell |-> c, shard |-> h, index |-> NextIndex(s, c, h)]]

Plan(s, deficits) == FlattenSeq([c \in Cell |-> RefillTasks(s, c, deficits[c])])

ExhaustedBudgets(s) ==
    \/ Cardinality(Recorded(s)) >= MaxTotal
    \/ Cardinality(Recorded(s)) * RowsPerAttempt >= MaxRequested
    \/ \E c \in Cell : \/ Cardinality(OfCell(s, c)) >= MaxPerCell
                       \/ \E h \in Shard : Cardinality(OfShard(s, c, h)) >= MaxPerShard

\* Mutant: only what is recorded counts, not the plan.
WouldExceedNow(s, plan) ==
    LET n == Cardinality(Recorded(s))
    IN  n > MaxTotal \/ n * RowsPerAttempt > MaxRequested
\* "total attempt budget would be exceeded", "requested-row budget ..."
WouldExceed(s, plan) ==
    LET n == Cardinality(Recorded(s)) + Len(plan)
    IN  n > MaxTotal \/ n * RowsPerAttempt > MaxRequested

InitialList ==
    [k \in 1 .. NumCells * NumShards |->
        [cell |-> ((k - 1) \div NumShards) + 1, shard |-> ((k - 1) % NumShards) + 1, index |-> 0]]

\* What is left of a list without the attempts in T, in the same order.
Without(list, T) ==
    LET left[n \in 0 .. Len(list)] ==
            IF n = 0 THEN <<>>
            ELSE IF list[n] \in T THEN left[n - 1] ELSE Append(left[n - 1], list[n])
    IN  left[Len(list)]

\* Mutant: a restart generates every initial attempt again.
InitialTasksAll(s) == InitialList
\* The attempts of the initial plan that are not completed.
InitialTasks(s) == Without(InitialList, Completed(s))

\* How many rows filter_and_select retains of a cell.
Retained(s, c) ==
    Cardinality({r \in Id \X (1 .. MaxYield) : r[1].cell = c /\ r[2] <= s[r[1]]})
Deficits(s) == [c \in Cell |-> IF Retained(s, c) < Target THEN Target - Retained(s, c) ELSE 0]

-----------------------------------------------------------------------------
(* run_generation_tasks *)

Batch == SubSeq(tasks, index, Least(index + size - 1, Len(tasks)))

\* Mutant: a call goes on where the last one was.
NewCallKeepsIndex(ts) == tasks' = ts /\ index' = index /\ size' = BatchSize /\ wrote' = 0
NewCall(ts) == tasks' = ts /\ index' = 1 /\ size' = BatchSize /\ wrote' = 0

\* generate_task_batch returns one output per task.
GenerateBatch ==
    /\ pc = "generate" /\ index <= Len(tasks)
    /\ pc' = "write" /\ wrote' = 0
    /\ UNCHANGED <<disk, mem, raw, tasks, index, size, round, short, faults>>

\* The first out-of-memory error of the call: the same tasks, a smaller batch.
OomFallback ==
    /\ pc = "generate" /\ index <= Len(tasks) /\ size = BatchSize
    /\ ooms < MaxOoms /\ ooms' = ooms + 1
    /\ size' = Fallback
    /\ UNCHANGED <<disk, mem, raw, pc, tasks, index, wrote, round, short, errors, crashes, reruns, unbalanced>>

\* Any other error: the batch is failed, saved, and the error is raised.
BatchFails ==
    /\ pc = "generate" /\ index <= Len(tasks)
    /\ errors < MaxErrors /\ errors' = errors + 1
    /\ mem' = [a \in Id |-> IF a \in ToSet(Batch) THEN Failed ELSE mem[a]]
    /\ disk' = mem'
    /\ pc' = "raised"
    /\ UNCHANGED <<raw, call, round, short, ooms, crashes, reruns, unbalanced>>

\* Prompt and raw output of the next task, and then its record.
WriteTask ==
    /\ pc = "write" /\ wrote < Len(Batch)
    /\ \E y \in Rows :
          /\ raw' = [raw EXCEPT ![Batch[wrote + 1]] = y]
          /\ mem' = [mem EXCEPT ![Batch[wrote + 1]] = y]
    /\ wrote' = wrote + 1
    /\ UNCHANGED <<disk, pc, tasks, index, size, round, short, faults>>

\* Mutant: the index does not move on.
SaveBatchStays ==
    /\ pc = "write" /\ wrote = Len(Batch)
    /\ disk' = mem
    /\ wrote' = 0 /\ pc' = "generate"
    /\ UNCHANGED <<mem, raw, tasks, index, size, round, short, faults>>
\* save_state, once the whole batch is written.
SaveBatch ==
    /\ pc = "write" /\ wrote = Len(Batch)
    /\ disk' = mem
    /\ index' = index + Len(Batch)
    /\ wrote' = 0 /\ pc' = "generate"
    /\ UNCHANGED <<mem, raw, tasks, size, round, short, faults>>

TasksDone ==
    /\ pc = "generate" /\ index = Len(tasks) + 1
    /\ pc' = "filter"
    /\ UNCHANGED <<disk, mem, raw, call, round, short, faults>>

-----------------------------------------------------------------------------
(* stage_generate_text_until_valid *)

Load ==
    /\ pc = "off"
    /\ NewCall(InitialTasks(mem))
    /\ round' = 0
    /\ pc' = "generate"
    /\ UNCHANGED <<disk, mem, raw, short, faults>>

\* filter_and_select finds cells that are short, or (SelectionShortfall) enough
\* rows of which it cannot select enough: then the shortfalls are the selection's.
FilterShort ==
    /\ pc = "filter"
    /\ Deficits(mem) # [c \in Cell |-> 0]
    /\ short' = Deficits(mem)
    /\ round' = round + 1
    /\ pc' = "plan"
    /\ UNCHANGED <<disk, mem, raw, call, faults>>

SelectionShort ==
    /\ pc = "filter"
    /\ Deficits(mem) = [c \in Cell |-> 0]
    /\ unbalanced < MaxUnbalanced /\ unbalanced' = unbalanced + 1
    /\ \E c \in Cell : short' = [d \in Cell |-> IF d = c THEN 1 ELSE 0]
    /\ round' = round + 1
    /\ pc' = "plan"
    /\ UNCHANGED <<disk, mem, raw, call, ooms, errors, crashes, reruns>>

Select ==
    /\ pc = "filter"
    /\ Deficits(mem) = [c \in Cell |-> 0]
    /\ short' = [c \in Cell |-> 0]
    /\ pc' = "done"
    /\ UNCHANGED <<disk, mem, raw, call, round, faults>>

PlanRefill ==
    /\ pc = "plan" /\ round <= MaxRounds
    /\ ~ExhaustedBudgets(mem)
    /\ ~WouldExceed(mem, Plan(mem, short))
    /\ NewCall(Plan(mem, short))
    /\ pc' = "generate"
    /\ UNCHANGED <<disk, mem, raw, round, short, faults>>

\* "text generation ended before sufficient text", or the planner refuses.
GiveUp ==
    /\ pc = "plan"
    /\ round > MaxRounds \/ ExhaustedBudgets(mem) \/ WouldExceed(mem, Plan(mem, short))
    /\ pc' = "raised"
    /\ UNCHANGED <<disk, mem, raw, call, round, short, faults>>

-----------------------------------------------------------------------------
Init ==
    /\ disk = [a \in Id |-> Absent] /\ mem = disk /\ raw = disk
    /\ pc = "off"
    /\ tasks = <<>> /\ index = 1 /\ size = BatchSize /\ wrote = 0
    /\ round = 0 /\ short = [c \in Cell |-> 0]
    /\ ooms = 0 /\ errors = 0 /\ crashes = 0 /\ reruns = 0 /\ unbalanced = 0

\* What a process that starts again knows is the state file.
Forget == /\ mem' = disk /\ pc' = "off"
          /\ NewCall(<<>>) /\ round' = 0 /\ short' = [c \in Cell |-> 0]

Crash ==
    /\ pc \in {"generate", "write", "filter", "plan"}
    /\ crashes < MaxCrashes /\ crashes' = crashes + 1
    /\ Forget
    /\ UNCHANGED <<disk, raw, ooms, errors, reruns, unbalanced>>

\* The stage is started again after it has raised.
Rerun ==
    /\ pc = "raised"
    /\ reruns < MaxReruns /\ reruns' = reruns + 1
    /\ Forget
    /\ UNCHANGED <<disk, raw, ooms, errors, crashes, unbalanced>>

Ended == pc \in {"done", "raised"}
Stop == Ended /\ UNCHANGED vars

Step == \/ Load
        \/ GenerateBatch \/ WriteTask \/ SaveBatch \/ TasksDone
        \/ FilterShort \/ Select \/ PlanRefill \/ GiveUp
Fault == OomFallback \/ BatchFails \/ SelectionShort \/ Crash \/ Rerun
Next == Step \/ Fault \/ Stop

Spec == Init /\ [][Next]_vars
FairSpec == Spec /\ WF_vars(Step)

-----------------------------------------------------------------------------
(* Properties *)

\* The record of a completed attempt describes the raw output that is on disk,
\* which load_completed_records parses again: after any crash between the two
\* writes and any repetition, the counts are those of the text.
EvidenceAgrees ==
    \A a \in Completed(disk) : raw[a] = disk[a]

\* The finite budgets of RetryLimits hold over all processes together, with
\* every attempt counted that was recorded, failed or not.
WithinBudgets ==
    /\ Cardinality(Recorded(disk)) <= MaxTotal
    /\ \A c \in Cell : Cardinality(OfCell(disk, c)) <= MaxPerCell
    /\ \A c \in Cell, h \in Shard : Cardinality(OfShard(disk, c, h)) <= MaxPerShard
    /\ Cardinality(Recorded(disk)) * RowsPerAttempt <= MaxRequested

\* The tasks of a call are distinct, and no refill has the identity of a
\* recorded attempt: its prompt and raw output would overwrite the evidence.
FreshTasks ==
    /\ \A i, j \in 1 .. Len(tasks) : tasks[i] = tasks[j] => i = j
    /\ pc # "raised" =>
          \A i \in index .. Len(tasks) :
              tasks[i] \notin IF round = 0 THEN Completed(disk) ELSE Recorded(disk)

\* Each start of the stage ends, by success or with an error, as long as the
\* budgets are finite: rounds, refills and fallbacks cannot go on for ever.
StageEnds == <>[]Ended

\* The state file is an attempt ledger.
Ledger == INSTANCE AttemptLedger WITH
    Attempt <- Id, Initial <- InitialIds, Yield <- Rows, Budget <- MaxTotal, ledger <- disk
ImplementsLedger == Ledger!LedgerSpec
=============================================================================
