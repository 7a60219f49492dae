---------------------------- MODULE OtfPrefetch ----------------------------
(***************************************************************************)
(* The on-the-fly augmentation benchmark of                                *)
(* slaif_asr/otf_augmentation_dataset.py: run_fill_rate_benchmark feeds    *)
(* microbatch tasks to spawned worker processes through an unbounded input *)
(* queue, the workers answer through an output queue of Prefetch slots, in *)
(* any order, and _take_expected gives the results back in task order.     *)
(*                                                                         *)
(* Abstractions.                                                           *)
(*  - A task is its microbatch_index; its waveforms are not represented.   *)
(*  - The input queue has one producer and is FIFO, so its tasks are       *)
(*    always taken .. nextTask-1, in that order, with the None sentinels   *)
(*    behind them.                                                         *)
(*  - The output queue is a set of messages: the feeder threads of the     *)
(*    workers race for the pipe, but each one is FIFO, and a worker gets   *)
(*    tasks in increasing order; Receivable picks accordingly.             *)
(*  - A result is larger than the OS pipe, so its worker cannot exit       *)
(*    before the parent has received it; an error message is small.        *)
(*  - A fault kills a worker while it waits for, or works on, a task; a    *)
(*    kill in the middle of a pipe write is not represented.               *)
(***************************************************************************)
EXTENDS Naturals, FiniteSets

CONSTANTS
    NumWorkers,   \* num_workers
    Total,        \* warmup_microbatches + measured_microbatches
    Prefetch,     \* prefetch_microbatches, also the size of the output queue
    MaxKills      \* bound: worker processes killed from outside

ASSUME ConstantsAssumption ==
    /\ NumWorkers \in Nat \ {0}
    /\ Total \in Nat \ {0}
    /\ Prefetch \in Nat \ {0}
    /\ MaxKills \in Nat

Worker == 1 .. NumWorkers
Task == 0 .. Total - 1
NoTask == Total
Message == [index: Task, worker: Worker, kind: {"result", "error"}]

\* Mutant: one task more for each worker, to keep them all busy.
PrefillTargetPerWorker ==
    IF Prefetch + NumWorkers <= Total THEN Prefetch + NumWorkers ELSE Total

\* min(prefetch_microbatches, len(tasks))
PrefillTarget == IF Prefetch <= Total THEN Prefetch ELSE Total

VARIABLES
    pc,          \* where the parent process is
    nextTask,    \* next_task_index: tasks 0 .. nextTask-1 were submitted
    taken,       \* tasks 0 .. taken-1 have left the input queue
    sentinels,   \* None values in the input queue
    inputLost,   \* a worker died holding the read lock of the input queue
    wstate,      \* state of each worker process
    task,        \* the task each worker works on
    outq,        \* messages put on the output queue and not yet received
    buffered,    \* indices of the results _take_expected set aside
    delivered,   \* results given to the consumer; also the expected index
    kills        \* faults so far

vars == <<pc, nextTask, taken, sentinels, inputLost, wstate, task, outq,
          buffered, delivered, kills>>

parentVars == <<pc, nextTask, sentinels, buffered, delivered>>
workerVars == <<taken, inputLost, wstate, task>>

Init ==
    /\ pc = "prefill"
    /\ nextTask = PrefillTarget
    /\ taken = 0
    /\ sentinels = 0
    /\ inputLost = FALSE
    /\ wstate = [w \in Worker |-> "waiting"]
    /\ task = [w \in Worker |-> NoTask]
    /\ outq = {}
    /\ buffered = {}
    /\ delivered = 0
    /\ kills = 0

-----------------------------------------------------------------------------
(* Worker processes: _worker_main.                                         *)

\* input_queue.get() returns the oldest task.
GetTask(w) ==
    /\ wstate[w] = "waiting"
    /\ ~inputLost
    /\ taken < nextTask
    /\ wstate' = [wstate EXCEPT ![w] = "busy"]
    /\ task' = [task EXCEPT ![w] = taken]
    /\ taken' = taken + 1
    /\ UNCHANGED <<parentVars, inputLost, outq, kills>>

\* input_queue.get() returns None: every task before it is gone.
GetSentinel(w) ==
    /\ wstate[w] = "waiting"
    /\ ~inputLost
    /\ taken = nextTask
    /\ sentinels > 0
    /\ sentinels' = sentinels - 1
    /\ wstate' = [wstate EXCEPT ![w] = "exiting"]
    /\ UNCHANGED <<pc, nextTask, buffered, delivered, taken, inputLost, task,
                   outq, kills>>

\* output_queue.put blocks while every slot is used.
Put(w, kind) ==
    /\ wstate[w] = "busy"
    /\ Cardinality(outq) < Prefetch
    /\ outq' = outq \cup {[index |-> task[w], worker |-> w, kind |-> kind]}
    /\ task' = [task EXCEPT ![w] = NoTask]
    /\ UNCHANGED <<parentVars, taken, inputLost, kills>>

PutResult(w) ==
    /\ Put(w, "result")
    /\ wstate' = [wstate EXCEPT ![w] = "waiting"]

\* An exception while the samples are prepared: report it and return.
PutError(w) ==
    /\ Put(w, "error")
    /\ wstate' = [wstate EXCEPT ![w] = "exiting"]

\* The process ends once its feeder thread has nothing left to write.
Exit(w) ==
    /\ wstate[w] = "exiting"
    /\ \A m \in outq : ~(m.worker = w /\ m.kind = "result")
    /\ wstate' = [wstate EXCEPT ![w] = "dead"]
    /\ UNCHANGED <<parentVars, taken, inputLost, task, outq, kills>>

\* Fault: the process is killed. One that waits may hold the read lock.
Kill(w) ==
    /\ kills < MaxKills
    /\ wstate[w] \in {"waiting", "busy"}
    /\ \A m \in outq : m.worker # w
    /\ kills' = kills + 1
    /\ wstate' = [wstate EXCEPT ![w] = "dead"]
    /\ task' = [task EXCEPT ![w] = NoTask]
    /\ \/ inputLost' = inputLost
       \/ wstate[w] = "waiting" /\ inputLost' = TRUE
    /\ UNCHANGED <<parentVars, taken, outq>>

-----------------------------------------------------------------------------
(* The parent process: run_fill_rate_benchmark and _take_expected.         *)

\* while _queue_size(output_queue) < prefill_target
PrefillDone ==
    /\ pc = "prefill"
    /\ Cardinality(outq) >= PrefillTarget
    /\ pc' = "consume"
    /\ UNCHANGED <<nextTask, sentinels, buffered, delivered, workerVars, outq,
                   kills>>

\* TimeoutError after 120 s, or RuntimeError when a worker is not alive. Both
\* are raised before the try block: no sentinel is sent and nobody is joined.
PrefillRaises ==
    /\ pc = "prefill"
    /\ Cardinality(outq) < PrefillTarget
    /\ pc' = "abandoned"
    /\ UNCHANGED <<nextTask, sentinels, buffered, delivered, workerVars, outq,
                   kills>>

\* What output_queue.get can return: the oldest message of some worker.
Receivable ==
    {m \in outq : \A n \in outq : n.worker = m.worker => m.index <= n.index}

\* Mutant: submit_next without its end test.
SubmitNextUnbounded == nextTask' = nextTask + 1

\* submit_next: one more task unless all were submitted.
SubmitNext == nextTask' = IF nextTask < Total THEN nextTask + 1 ELSE nextTask

\* The expected result reaches the consumer, which submits one more task.
Deliver ==
    /\ delivered' = delivered + 1
    /\ SubmitNext

\* Mutant: the buffered result is read, not popped.
TakeBufferedNoPop ==
    /\ pc = "consume"
    /\ delivered \in buffered
    /\ Deliver
    /\ UNCHANGED <<pc, sentinels, buffered, workerVars, outq, kills>>

TakeBuffered ==
    /\ pc = "consume"
    /\ delivered \in buffered
    /\ buffered' = buffered \ {delivered}
    /\ Deliver
    /\ UNCHANGED <<pc, sentinels, workerVars, outq, kills>>

\* One round of the loop of _take_expected that receives m.
Receive(m) ==
    /\ pc = "consume"
    /\ delivered < Total
    /\ delivered \notin buffered
    /\ m \in Receivable
    /\ outq' = outq \ {m}
    /\ UNCHANGED <<workerVars, kills>>

TakeExpected(m) ==
    /\ Receive(m)
    /\ m.kind = "result"
    /\ m.index = delivered
    /\ Deliver
    /\ UNCHANGED <<pc, sentinels, buffered>>

\* Mutant: only the last early result is remembered.
SetAsideLast(m) ==
    /\ Receive(m)
    /\ m.kind = "result"
    /\ m.index # delivered
    /\ buffered' = {m.index}
    /\ UNCHANGED <<pc, sentinels, nextTask, delivered>>

SetAside(m) ==
    /\ Receive(m)
    /\ m.kind = "result"
    /\ m.index # delivered
    /\ buffered' = buffered \cup {m.index}
    /\ UNCHANGED <<pc, sentinels, nextTask, delivered>>

\* Mutant: one None for all workers.
SendOneSentinel(next) ==
    /\ pc' = next
    /\ sentinels' = sentinels + 1

\* The finally block first sends one None for every worker.
SendSentinels(next) ==
    /\ pc' = next
    /\ sentinels' = sentinels + NumWorkers

TakeError(m) ==
    /\ Receive(m)
    /\ m.kind = "error"
    /\ SendSentinels("joinRaise")
    /\ UNCHANGED <<nextTask, buffered, delivered>>

\* Mutant: output_queue.get() without a timeout.
GetWithoutTimeout == FALSE /\ UNCHANGED vars

\* queue.Empty after 120 s without a message.
GetTimeout ==
    /\ pc = "consume"
    /\ delivered < Total
    /\ delivered \notin buffered
    /\ outq = {}
    /\ SendSentinels("joinRaise")
    /\ UNCHANGED <<nextTask, buffered, delivered, workerVars, outq, kills>>

LoopDone ==
    /\ pc = "consume"
    /\ delivered = Total
    /\ SendSentinels("joinReturn")
    /\ UNCHANGED <<nextTask, buffered, delivered, workerVars, outq, kills>>

\* join(30) timed out: terminate the first worker that is still alive. What it
\* had not written to the pipe is lost, and nobody reads the queue any more.
Terminate(w) ==
    /\ pc \in {"joinReturn", "joinRaise"}
    /\ wstate[w] # "dead"
    /\ \A v \in Worker : v < w => wstate[v] = "dead"
    /\ wstate' = [wstate EXCEPT ![w] = "dead"]
    /\ task' = [task EXCEPT ![w] = NoTask]
    /\ UNCHANGED <<parentVars, taken, inputLost, outq, kills>>

JoinDone ==
    /\ pc \in {"joinReturn", "joinRaise"}
    /\ \A w \in Worker : wstate[w] = "dead"
    /\ pc' = IF pc = "joinReturn" THEN "returned" ELSE "raised"
    /\ UNCHANGED <<nextTask, sentinels, buffered, delivered, workerVars, outq,
                   kills>>

-----------------------------------------------------------------------------
WorkerStep(w) ==
    GetTask(w) \/ GetSentinel(w) \/ PutResult(w) \/ PutError(w) \/ Exit(w)

Consume ==
    \/ TakeBuffered
    \/ \E m \in outq : TakeExpected(m) \/ SetAside(m) \/ TakeError(m)
    \/ GetTimeout
    \/ LoopDone

Parent ==
    \/ PrefillDone \/ PrefillRaises
    \/ Consume
    \/ \E w \in Worker : Terminate(w)
    \/ JoinDone

Next ==
    \/ Parent
    \/ \E w \in Worker : WorkerStep(w) \/ Kill(w)

Spec == Init /\ [][Next]_vars

\* The parent never stops by itself: every wait of it has a timeout. The
\* operating system schedules every worker process.
Fairness == WF_vars(Parent) /\ \A w \in Worker : WF_vars(WorkerStep(w))

FairSpec == Spec /\ Fairness

-----------------------------------------------------------------------------
TypeOK ==
    /\ pc \in {"prefill", "consume", "joinReturn", "joinRaise",
               "returned", "raised", "abandoned"}
    /\ nextTask \in 0 .. Total
    /\ taken \in 0 .. Total
    /\ sentinels \in Nat
    /\ inputLost \in BOOLEAN
    /\ wstate \in [Worker -> {"waiting", "busy", "exiting", "dead"}]
    /\ task \in [Worker -> Task \cup {NoTask}]
    /\ outq \subseteq Message
    /\ buffered \subseteq Task
    /\ delivered \in 0 .. Total
    /\ kills \in Nat

\* Where the submitted tasks are.
Queued == {i \in Task : taken <= i /\ i < nextTask}
Held == {task[w] : w \in {v \in Worker : wstate[v] = "busy"}}
Answered == {m.index : m \in outq}
InFlight == {i \in Task : delivered <= i /\ i < nextTask}

\* No task is in two places: not twice with workers, not both with a worker
\* and in a queue, not answered twice. Everything in flight lies in the window
\* delivered .. nextTask-1, which is never wider than the prefetch depth.
ExactlyOnce ==
    /\ delivered <= taken /\ taken <= nextTask
    /\ nextTask <= delivered + Prefetch
    /\ \A w \in Worker : wstate[w] = "busy" =>
          /\ task[w] \in InFlight \ buffered
          /\ task[w] < taken
          /\ \A v \in Worker : wstate[v] = "busy" /\ task[v] = task[w] => v = w
          /\ \A m \in outq : m.index # task[w]
    /\ \A m \in outq : m.index \in InFlight \ buffered /\ m.index < taken
    /\ \A m, n \in outq : m.index = n.index => m = n
    /\ \A i \in buffered : i \in InFlight /\ i < taken

\* A worker that has a result to hand over finds a free slot: the puts of the
\* workers never block, although the workers do not look at the queue depth,
\* because the parent submits one task for each one it has delivered.
PutNeverBlocks ==
    \A w \in Worker : wstate[w] = "busy" => Cardinality(outq) < Prefetch

\* While nobody was killed and nothing was raised, each submitted task that was
\* not delivered can still be found somewhere: no result is dropped when
\* results overtake each other.
NothingLost ==
    pc \in {"prefill", "consume"} /\ kills = 0
        => InFlight \subseteq Queued \cup Held \cup Answered \cup buffered

\* When the consumer has all its results nothing is left over: no stale result
\* in the buffer or in the queue, no worker still at work, and a None for every
\* worker that waits, so each one can flush, obey its None and be joined.
CleanReturn ==
    pc \in {"joinReturn", "returned"} =>
        /\ delivered = Total
        /\ buffered = {} /\ outq = {}
        /\ \A w \in Worker : wstate[w] # "busy"
        /\ Cardinality({w \in Worker : wstate[w] = "waiting"}) <= sentinels

\* Once the prefill is over the call ends, whatever worker fails or is killed
\* (outside a write to the pipe), and no worker process survives it.
ConsumeEnds == pc = "consume" ~> pc \in {"returned", "raised"}
=============================================================================
