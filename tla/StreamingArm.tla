------------------------------ MODULE StreamingArm ------------------------------
(***************************************************************************)
(* One evaluation directory, evaluated again and again: every call of      *)
(* run_batched_arm starts NeMo's streaming script as a child, relays its    *)
(* output to the end of the pipe while a thread samples the GPU, takes the *)
(* newest streaming_out_*.json of the directory for the child's result and *)
(* writes predictions and summary; stage_evaluate_directional then reports *)
(* them as those of the checkpoint selected by now.  Each call evaluates    *)
(* another checkpoint, named by the number of the call.                    *)
(*                                                                         *)
(* The child is external.  It writes its rows to one file in the end, may  *)
(* fail, may say nothing, may hang, and outlives a parent that is killed.   *)
(* Every caller leaves timeout_seconds at None, so only pipe and exit end   *)
(* the wait for it.  Nothing refers to time: a bounded wait that has not    *)
(* been answered may end at any moment.                                    *)
(***************************************************************************)
EXTENDS Naturals

CONSTANTS
    MaxCalls,     \* bound: calls of run_batched_arm
    MaxFaults     \* bound: errors, kills and misbehaviour of children

ASSUME ConstantsAssumption == MaxCalls \in Nat \ {0} /\ MaxFaults \in Nat

Calls == 1..MaxCalls
NoOutput == [by |-> 0, full |-> FALSE]
NoEvaluation == [call |-> 0, by |-> 0]

VARIABLES
    \* files of the directory
    output,        \* the newest streaming_out_*.json: whose it is, and whether it is whole
    predictions,   \* predictions.local.jsonl: the checkpoint that made them
    summary,       \* summary.local.json
    evaluation,    \* directional-evaluation/summary.local.json
    \* the stage
    pc, call,
    error,         \* an exception is on its way out of run_subprocess_with_monitor
    parsed,        \* the predictions in memory
    \* threads and processes
    monitor,       \* the sampling thread: "off", "asleep" or "query"
    stopped,       \* its _stop event
    child,         \* the child of every call
    code,          \* return codes
    hung,          \* children that do nothing more unless they are signalled
    stuck,         \* children that not even SIGKILL ends in time
    \* history and bounds
    abandoned,     \* children whose parent was killed
    disturbed,     \* calls that began beside such a child, or whose child left no file
    faults

files == <<output, predictions, summary, evaluation>>
processes == <<child, code, hung, stuck>>
history == <<abandoned, disturbed, faults>>
vars == <<files, pc, call, error, parsed, monitor, stopped, processes, history>>

Init ==
    /\ output = NoOutput /\ predictions = 0
    /\ summary = [call |-> 0, status |-> "none"] /\ evaluation = NoEvaluation
    /\ pc = "idle" /\ call = 0 /\ error = FALSE /\ parsed = 0
    /\ monitor = "off" /\ stopped = FALSE
    /\ child = [c \in Calls |-> "absent"] /\ code = [c \in Calls |-> 0]
    /\ hung = {} /\ stuck = {}
    /\ abandoned = {} /\ disturbed = {} /\ faults = 0

At(place) == pc = place
Goto(place) == pc' = place

Alive(c) == child[c] \in {"loading", "writing", "written"}
Ended(c) == child[c] = "ended"
Fault == faults < MaxFaults /\ faults' = faults + 1

-------------------------------------------------------------------------------
(* The stage and run_batched_arm *)

\* The input manifest and the command line.
StartCall ==
    /\ At("idle") /\ call < MaxCalls
    /\ Goto("monitor") /\ call' = call + 1 /\ error' = FALSE /\ parsed' = 0
    /\ disturbed' = disturbed \union (IF \E c \in abandoned : Alive(c) THEN {call + 1} ELSE {})
    /\ UNCHANGED <<files, monitor, stopped, processes, abandoned, faults>>

StartMonitor ==
    /\ At("monitor")
    /\ Goto("popen") /\ monitor' = "asleep" /\ stopped' = FALSE
    /\ UNCHANGED <<files, call, error, parsed, processes, history>>

Popen ==
    /\ At("popen")
    /\ Goto("read") /\ child' = [child EXCEPT ![call] = "loading"]
    /\ UNCHANGED <<files, call, error, parsed, monitor, stopped, code, hung, stuck, history>>

PopenRaises ==
    /\ At("popen") /\ Fault
    /\ Goto("finally") /\ error' = TRUE
    /\ UNCHANGED <<files, call, parsed, monitor, stopped, processes, abandoned, disturbed>>

\* The pipe is at its end when the child has exited, which wait then reports.
ReadToEnd ==
    /\ At("read") /\ Ended(call)
    /\ Goto("finally")
    /\ UNCHANGED <<files, call, error, parsed, monitor, stopped, processes, history>>

\* Mutant: an exception leaves the child to itself.
InterruptLeaves ==
    /\ At("read") /\ Fault
    /\ error' = TRUE /\ Goto("finally")
    /\ UNCHANGED <<files, call, parsed, monitor, stopped, processes, abandoned, disturbed>>

\* An exception while the output is relayed: an interrupt, a full disk, a closed
\* terminal.
Interrupt ==
    /\ At("read") /\ Fault
    /\ error' = TRUE /\ Goto(IF Ended(call) THEN "finally" ELSE "terminate")
    /\ UNCHANGED <<files, call, parsed, monitor, stopped, processes, abandoned, disturbed>>

\* wait(timeout=10) after terminate, and again after kill, whose second expiry is
\* an exception like the first.
ChildGone ==
    /\ pc \in {"terminate", "kill"} /\ Ended(call)
    /\ Goto("finally")
    /\ UNCHANGED <<files, call, error, parsed, monitor, stopped, processes, history>>

TerminateExpires ==
    /\ At("terminate") /\ ~Ended(call)
    /\ Goto("kill")
    /\ UNCHANGED <<files, call, error, parsed, monitor, stopped, processes, history>>

KillExpires ==
    /\ At("kill") /\ call \in stuck /\ ~Ended(call)
    /\ Goto("finally")
    /\ UNCHANGED <<files, call, error, parsed, monitor, stopped, processes, history>>

StopMonitor ==
    /\ At("finally")
    /\ Goto("join") /\ stopped' = TRUE
    /\ UNCHANGED <<files, call, error, parsed, monitor, processes, history>>

\* Where the call goes after run_subprocess_with_monitor.  An error, or a status
\* other than PASSED, ends the process of the stage and with it the daemon thread.
Leave ==
    /\ monitor' = "off"
    /\ Goto(IF error THEN "idle" ELSE IF code[call] = 0 THEN "parse" ELSE "summary")
    /\ UNCHANGED <<files, call, error, parsed, stopped, processes, history>>

\* Mutant: the join waits for the thread.
JoinForever == At("join") /\ monitor = "off" /\ Leave

\* join(timeout=10): the thread has ended, or is held up in its query.
Join == At("join") /\ monitor \in {"off", "query"} /\ Leave

\* Mutant: a missing or short output is no error.
ParseAnything ==
    /\ At("parse")
    /\ Goto("predictions") /\ parsed' = output.by
    /\ UNCHANGED <<files, call, error, monitor, stopped, processes, history>>

\* newest_streaming_output, parse_sentinel_predictions and
\* validate_prediction_ids: a missing file or missing rows raise.
Parse ==
    /\ At("parse")
    /\ Goto(IF output.full THEN "predictions" ELSE "idle")
    /\ parsed' = IF output.full THEN output.by ELSE 0
    /\ UNCHANGED <<files, call, error, monitor, stopped, processes, history>>

WritePredictions ==
    /\ At("predictions")
    /\ Goto("summary") /\ predictions' = parsed
    /\ UNCHANGED <<output, summary, evaluation, call, error, parsed, monitor, stopped,
                   processes, history>>

\* The stage goes on only with a PASSED arm.
WriteSummary ==
    /\ At("summary")
    /\ summary' = [call |-> call, status |-> IF code[call] = 0 THEN "PASSED" ELSE "FAILED"]
    /\ Goto(IF code[call] = 0 THEN "evaluation" ELSE "idle")
    /\ UNCHANGED <<output, predictions, evaluation, call, error, parsed, monitor, stopped,
                   processes, history>>

\* The stage loads the predictions again from their file.
WriteEvaluation ==
    /\ At("evaluation")
    /\ Goto("idle") /\ evaluation' = [call |-> call, by |-> predictions]
    /\ UNCHANGED <<output, predictions, summary, call, error, parsed, monitor, stopped,
                   processes, history>>

\* SIGKILL, or an exception in the clean-up: the stage is gone, its child is not.
Killed ==
    /\ ~At("idle") /\ Fault
    /\ Goto("idle") /\ monitor' = "off"
    /\ abandoned' = abandoned \union {c \in {call} : Alive(c)}
    /\ UNCHANGED <<files, call, error, parsed, stopped, processes, disturbed>>

Stage ==
    \/ StartMonitor \/ Popen \/ ReadToEnd
    \/ ChildGone \/ TerminateExpires \/ KillExpires
    \/ StopMonitor \/ Join
    \/ Parse \/ WritePredictions \/ WriteSummary \/ WriteEvaluation

-------------------------------------------------------------------------------
(* NvidiaSmiMonitor._run *)

Query ==
    /\ monitor = "asleep" /\ ~stopped
    /\ monitor' = "query"
    /\ UNCHANGED <<files, pc, call, error, parsed, stopped, processes, history>>

\* The query has no timeout: it may also never be answered.
QueryAnswered ==
    /\ monitor = "query"
    /\ monitor' = "asleep"
    /\ UNCHANGED <<files, pc, call, error, parsed, stopped, processes, history>>

MonitorEnds ==
    /\ monitor = "asleep" /\ stopped
    /\ monitor' = "off"
    /\ UNCHANGED <<files, pc, call, error, parsed, stopped, processes, history>>

-------------------------------------------------------------------------------
(* The children *)

Moves(c, next) ==
    /\ c \notin hung
    /\ child' = [child EXCEPT ![c] = next]
    /\ UNCHANGED <<predictions, summary, evaluation, pc, call, error, parsed, monitor,
                   stopped, hung, stuck>>

\* All of the audio is transcribed before the output file is opened.
OpenOutput(c) ==
    /\ child[c] = "loading" /\ Moves(c, "writing")
    /\ output' = [by |-> c, full |-> FALSE]
    /\ UNCHANGED <<code, history>>

WriteRows(c) ==
    /\ child[c] = "writing" /\ Moves(c, "written")
    /\ output' = [by |-> c, full |-> TRUE]
    /\ UNCHANGED <<code, history>>

Exit(c) ==
    /\ child[c] = "written" /\ Moves(c, "ended")
    /\ UNCHANGED <<output, code, history>>

ExitWithoutOutput(c) ==
    /\ child[c] = "loading" /\ Moves(c, "ended") /\ Fault
    /\ disturbed' = disturbed \union {c}
    /\ UNCHANGED <<output, code, abandoned>>

\* An error of the child: out of memory, or a pipe that nobody reads any more.
Fails(c) ==
    /\ Alive(c) /\ Moves(c, "ended") /\ Fault
    /\ code' = [code EXCEPT ![c] = 1]
    /\ UNCHANGED <<output, abandoned, disturbed>>

Hangs(c, inDriver) ==
    /\ Alive(c) /\ c \notin hung /\ Fault
    /\ hung' = hung \union {c}
    /\ stuck' = IF inDriver THEN stuck \union {c} ELSE stuck
    /\ UNCHANGED <<files, pc, call, error, parsed, monitor, stopped, child, code,
                   abandoned, disturbed>>

\* SIGTERM ends a child that does not hang, SIGKILL one that is not stuck in the
\* driver; the latter never comes back to its code.
DiesOfSignal(c) ==
    /\ c = call /\ Alive(c)
    /\ \/ At("terminate") /\ c \notin hung
       \/ At("kill") /\ c \notin stuck
    /\ child' = [child EXCEPT ![c] = "ended"] /\ code' = [code EXCEPT ![c] = 1]
    /\ UNCHANGED <<files, pc, call, error, parsed, monitor, stopped, hung, stuck, history>>

Child(c) == OpenOutput(c) \/ WriteRows(c) \/ Exit(c) \/ DiesOfSignal(c)
Misbehaves(c) == ExitWithoutOutput(c) \/ Fails(c) \/ \E inDriver \in BOOLEAN : Hangs(c, inDriver)

-------------------------------------------------------------------------------
Next ==
    \/ StartCall \/ Stage
    \/ PopenRaises \/ Interrupt \/ Killed
    \/ Query \/ QueryAnswered \/ MonitorEnds
    \/ \E c \in Calls : Child(c) \/ Misbehaves(c)

Spec == Init /\ [][Next]_vars

\* Processes and threads go on, except a child that hangs and a query that is not
\* answered; nobody has to start another call.
FairSpec ==
    /\ Spec
    /\ WF_vars(Stage) /\ WF_vars(MonitorEnds)
    /\ \A c \in Calls : WF_vars(Child(c))

-------------------------------------------------------------------------------
(* Properties *)

\* Files, stage, threads and children have the shapes the code gives them; in
\* particular nothing is written without predictions that a child has made.
TypeOK ==
    /\ output \in [by : Calls \union {0}, full : BOOLEAN]
    /\ predictions \in Calls \union {0}
    /\ summary \in [call : Calls \union {0}, status : {"none", "PASSED", "FAILED"}]
    /\ evaluation \in {NoEvaluation} \union [call : Calls, by : Calls]
    /\ pc \in {"idle", "monitor", "popen", "read", "terminate", "kill", "finally", "join",
               "parse", "predictions", "summary", "evaluation"}
    /\ call \in Calls \union {0} /\ (pc # "idle" => call \in Calls)
    /\ error \in BOOLEAN /\ parsed \in Calls \union {0}
    /\ monitor \in {"off", "asleep", "query"} /\ stopped \in BOOLEAN
    /\ child \in [Calls -> {"absent", "loading", "writing", "written", "ended"}]
    /\ code \in [Calls -> {0, 1}]
    /\ hung \subseteq Calls /\ stuck \subseteq Calls
    /\ abandoned \subseteq Calls /\ disturbed \subseteq Calls /\ faults \in Nat

\* The directory keeps the outputs and predictions of all former calls, whole,
\* partial or failed, and "newest" is all that tells them apart.  Still, what is
\* reported for a checkpoint was computed from it, unless the call began while the
\* child of a killed stage was alive, or its own child left no file: a stage that
\* raises takes its child with it.
OwnPredictions ==
    evaluation # NoEvaluation /\ evaluation.call \notin disturbed =>
        evaluation.by = evaluation.call

\* A call ends, whatever the GPU monitor's query does and however the child dies,
\* except that a child that hangs with its pipe open is waited for, as no caller
\* gives a timeout; an interrupt ends that too.
CallEnds == (pc # "idle") ~> (pc = "idle" \/ (pc = "read" /\ call \in hung))
================================================================================
