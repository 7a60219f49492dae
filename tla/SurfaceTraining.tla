---------------------------- MODULE SurfaceTraining ----------------------------
(***************************************************************************)
(* One surface experiment, as run_fixed_scale2000_surface08_full_encoder   *)
(* runs it: the shell script starts the stages one after the other, every  *)
(* stage is a process that keeps all it must not lose in files, and a      *)
(* stage that dies or raises ends the script, which is then run again.     *)
(*                                                                         *)
(* Training saves a checkpoint per round (model, optimizer, and a marker   *)
(* with their hashes, in that order), scores it on ARTUR controller-dev in *)
(* a child process, appends the row to the training state and asks         *)
(* ControllerCurve whether to go on.  A checkpoint is known by the launch  *)
(* of the training process that wrote it and by the launch that wrote the  *)
(* weights it was trained from.  write_json replaces its file atomically;  *)
(* the model and optimizer files are complete only with their marker.      *)
(***************************************************************************)
EXTENDS ControllerCurve, FiniteSets

CONSTANTS
    MaxRounds,     \* training.max_rounds
    Sizes,         \* the physical_microbatch_candidates
    BaseScore,     \* the score of the base model on controller-dev
    Scores,        \* the scores a trained round may get
    MaxFaults,     \* bound: deaths, errors and out-of-memory errors
    MaxHands,      \* bound: stages started by hand while the script is not running
    MaxLaunches    \* bound: training processes

ASSUME ConstantsAssumption ==
    /\ MaxRounds \in Nat \ {0}
    /\ Sizes \subseteq 1..8        \* effective_batch_size
    /\ BaseScore \in Score /\ Scores \subseteq Score
    /\ MaxFaults \in Nat /\ MaxHands \in Nat /\ MaxLaunches \in Nat

Rounds == 0..MaxRounds
Stages == {"probe-microbatch", "train", "evaluate-directional", "summarize"}

\* Files that do not exist.  Launch 0 is nobody.
NoModel == [by |-> 0, from |-> 0]
NoMarker == [model |-> NoModel, optim |-> 0]
NoState == [done |-> NoRound, probes |-> <<>>, rows |-> <<>>, norms |-> <<>>]
NoPreds == [by |-> 0, score |-> BaseScore]
NoSummary == [stopped |-> NoRound, selected |-> NoRound,
              probes |-> <<>>, rows |-> <<>>, norms |-> <<>>]
NoEvaluation == [round |-> NoRound, by |-> 0]
NoDocument == [selected |-> NoRound, round |-> NoRound, by |-> 0]

VARIABLES
    \* files
    ooms,          \* training-memory-failures: the sizes that ran out of memory
    micro,         \* verification/microbatch.local.json
    initial,       \* how many of the two initial fingerprint files are written
    model, optim, marker,       \* the three files of every round's checkpoint
    saved,         \* training-state.local.json
    preds,         \* controller-dev/round_NN/predictions.local.jsonl
    summary,       \* training-summary.local.json
    evaluation,    \* directional-evaluation/summary.local.json
    certificate, report, page,  \* certificate, report and markdown report
    \* the stage that runs
    pc,            \* where it is; "idle" when no stage runs
    size,          \* physical
    state,         \* the training state in memory
    weights,       \* the model in memory
    round,         \* the round of these weights
    phase,         \* what a row is appended for: "base", "resume" or "loop"
    \* the script and the operator
    step,          \* the stage the script starts next; "done" after the last,
                   \* and "over" once a stage by hand has followed that
    byHand,        \* the stage that runs was started by hand
    launches,      \* training processes started
    faults, hands, \* spent bounds
    refused        \* a consistency check of a stage has failed

checkpoints == <<model, optim, marker>>
trained == <<initial, checkpoints, saved, preds, summary>>
documents == <<certificate, report, page>>
files == <<ooms, micro, trained, evaluation, documents>>
process == <<size, state, weights, round, phase>>
operator == <<step, byHand, launches, faults, hands>>
vars == <<files, pc, process, operator, refused>>

-------------------------------------------------------------------------------
Init ==
    /\ ooms = {} /\ micro = [status |-> "none", size |-> 0]
    /\ initial = 0
    /\ model = [r \in Rounds |-> NoModel] /\ optim = [r \in Rounds |-> 0]
    /\ marker = [r \in Rounds |-> NoMarker]
    /\ saved = NoState
    /\ preds = [r \in Rounds |-> NoPreds]
    /\ summary = NoSummary /\ evaluation = NoEvaluation
    /\ certificate = NoDocument /\ report = NoDocument /\ page = NoDocument
    /\ pc = "idle" /\ size = 0 /\ state = NoState /\ weights = NoModel
    /\ round = 0 /\ phase = "base"
    /\ step = "probe-microbatch" /\ byHand = FALSE
    /\ launches = 0 /\ faults = 0 /\ hands = 0
    /\ refused = FALSE

\* The process exits.  A stage of the script hands over to the next one, or, as
\* the script runs under set -e, the whole script has to be run again.
Exit(next) ==
    /\ pc' = "idle" /\ size' = 0 /\ state' = NoState /\ weights' = NoModel
    /\ round' = 0 /\ phase' = "base"
    /\ byHand' = FALSE /\ step' = IF byHand THEN step ELSE next
Fail == Exit("probe-microbatch")

At(place) == pc = place
Goto(place) == pc' = place

\* run_fixed_scale2000_surface08_full_encoder.sh starts its next stage.
ScriptStarts ==
    /\ At("idle") /\ step \in Stages
    /\ Goto(step)
    /\ UNCHANGED <<files, process, operator, refused>>

\* --stage, while the script is not running.
StartByHand(stage) ==
    /\ At("idle") /\ step \in {"probe-microbatch", "done", "over"} /\ hands < MaxHands
    /\ Goto(stage) /\ byHand' = TRUE /\ hands' = hands + 1
    /\ step' = IF step = "done" THEN "over" ELSE step
    /\ UNCHANGED <<files, process, launches, faults, refused>>

\* Mutant: when nothing fits the probe passes all the same.
ProbeAlwaysPasses ==
    /\ At("probe-microbatch")
    /\ \E fits \in SUBSET (Sizes \ ooms) :
          micro' = [status |-> "PASSED", size |-> IF fits = {} THEN 0 ELSE CHOOSE s \in fits : TRUE]
    /\ Exit("train")
    /\ UNCHANGED <<ooms, trained, evaluation, documents, launches, faults, hands, refused>>

\* stage_probe_microbatch: a size that ran out of memory in training is not
\* tried; of those that fit the largest is selected.
ProbeMicrobatch ==
    /\ At("probe-microbatch")
    /\ \E fits \in SUBSET (Sizes \ ooms) :
          IF fits = {}
          THEN micro' = [status |-> "BLOCKED_SURFACE08_OOM", size |-> 0] /\ Fail
          ELSE /\ micro' = [status |-> "PASSED",
                            size |-> CHOOSE s \in fits : \A t \in fits : t <= s]
               /\ Exit("train")
    /\ UNCHANGED <<ooms, trained, evaluation, documents, launches, faults, hands, refused>>

\* The gradients of the selected size do not add up to those of size 1.
ProbeIncorrect ==
    /\ At("probe-microbatch") /\ Sizes \ ooms # {} /\ faults < MaxFaults
    /\ micro' = [status |-> "FAILED_ACCUMULATION_CORRECTNESS", size |-> 0]
    /\ faults' = faults + 1 /\ Fail
    /\ UNCHANGED <<ooms, trained, evaluation, documents, launches, hands, refused>>

-------------------------------------------------------------------------------
(* stage_train *)

Train ==
    /\ At("train") /\ micro.status = "PASSED" /\ launches < MaxLaunches
    /\ size' = micro.size /\ launches' = launches + 1 /\ Goto("load")
    /\ UNCHANGED <<files, state, weights, round, phase, step, byHand, faults, hands, refused>>

TrainRefuses ==
    /\ At("train") /\ micro.status # "PASSED"
    /\ Fail
    /\ UNCHANGED <<files, launches, faults, hands, refused>>

\* Mutant: a checkpoint without its marker counts.
CompleteUnmarked(r) == model[r].by # 0 /\ optim[r] # 0

\* _latest_complete_round, whose hash checks are HashesMatch.
Complete(r) == model[r].by # 0 /\ optim[r] # 0 /\ marker[r] # NoMarker
CompleteRounds == {r \in Rounds : Complete(r)}
Latest == CHOOSE r \in CompleteRounds : \A q \in CompleteRounds : q <= r
HashesMatch(r) == marker[r] = [model |-> model[r], optim |-> optim[r]]

\* The training state read when round r is the latest: a missing one is rebuilt
\* from the marker of round 0.
Read(r) == IF saved = NoState THEN [NoState EXCEPT !.done = 0, !.probes = <<0>>] ELSE saved

\* A training state that its own checkpoint has overtaken takes the probe losses
\* of the round from the marker.  The norms of the round are lost.
Repaired(doc, r) ==
    [doc EXCEPT !.done = r, !.probes = IF \E k \in DOMAIN @ : @[k] = r THEN @ ELSE Append(@, r)]

\* _load_or_initialize_training: there is no complete checkpoint.
Initialise ==
    /\ At("load") /\ CompleteRounds = {}
    /\ initial' = 1 /\ Goto("initial")
    /\ UNCHANGED <<ooms, micro, checkpoints, saved, preds, summary, evaluation, documents,
                   process, operator, refused>>

Initialised ==
    /\ At("initial")
    /\ initial' = 2 /\ Goto("loaded")
    /\ state' = [NoState EXCEPT !.done = 0]
    /\ weights' = [by |-> launches, from |-> 0] /\ round' = 0
    /\ UNCHANGED <<ooms, micro, checkpoints, saved, preds, summary, evaluation, documents,
                   size, phase, operator, refused>>

\* Mutant: a state that the checkpoint has overtaken is refused, not repaired.
LoadableUnrepaired ==
    /\ CompleteRounds # {}
    /\ \A r \in CompleteRounds : HashesMatch(r)
    /\ saved = NoState => Latest = 0
    /\ saved # NoState => saved.done = Latest
    /\ initial = 2
    /\ pc # "load" => Latest = round

\* What a load of the latest checkpoint checks.  "load" takes whatever round is
\* there, the reloads after an evaluation insist on the round they evaluated.
Loadable ==
    /\ CompleteRounds # {}
    /\ \A r \in CompleteRounds : HashesMatch(r)
    /\ saved = NoState => Latest = 0
    /\ saved.done <= Latest
    /\ initial = 2
    /\ pc # "load" => Latest = round

\* The state with which round r goes on, written if the checkpoint was ahead of it.
Resumed(r) == IF Read(r).done = r THEN Read(r) ELSE Repaired(Read(r), r)

Refuse ==
    /\ refused' = TRUE /\ Fail
    /\ UNCHANGED <<files, launches, faults, hands>>

\* Mutant: training goes on from the best round, not from the latest.
RestoreBest ==
    /\ state' = Resumed(Latest)
    /\ saved' = IF Read(Latest).done = Latest THEN saved ELSE Resumed(Latest)
    /\ weights' = model[IF state.rows = <<>> THEN Latest ELSE Best(state.rows).round]
    /\ round' = Latest
    /\ UNCHANGED <<ooms, micro, initial, checkpoints, preds, summary, evaluation, documents,
                   size, phase, operator, refused>>

Restore ==
    /\ state' = Resumed(Latest)
    /\ saved' = IF Read(Latest).done = Latest THEN saved ELSE Resumed(Latest)
    /\ weights' = model[Latest] /\ round' = Latest
    /\ UNCHANGED <<ooms, micro, initial, checkpoints, preds, summary, evaluation, documents,
                   size, phase, operator, refused>>

Load ==
    /\ At("load") /\ CompleteRounds # {}
    /\ IF Loadable THEN Restore /\ Goto("loaded") ELSE Refuse

\* After the evaluation of the round that was resumed.
RestoreResumed ==
    /\ At("restore")
    /\ IF Loadable THEN Restore /\ Goto("next") ELSE Refuse

\* Mutant: the loop goes on whatever the rule says.
ReloadGoesOn ==
    /\ At("reload")
    /\ IF Loadable THEN Restore /\ Goto("next") ELSE Refuse

\* After the evaluation of a round of the loop: the rule says whether to go on.
Reload ==
    /\ At("reload")
    /\ IF Loadable
       THEN Restore /\ Goto(IF Surface08Stops(state.rows) THEN "finish" ELSE "next")
       ELSE Refuse

\* The state has no probe loss yet: the base model is saved and scored first.
Base ==
    /\ At("loaded") /\ state.probes = <<>>
    /\ state' = [state EXCEPT !.probes = <<0>>] /\ phase' = "base" /\ Goto("model")
    /\ UNCHANGED <<files, size, weights, round, operator, refused>>

Evaluated == {row.round : row \in RowsOf(state.rows)}

\* Mutant: the round that is resumed is evaluated even if the curve has it.
ResumeEvaluates ==
    /\ At("loaded") /\ state.probes # <<>>
    /\ Goto("evaluate") /\ phase' = "resume"
    /\ UNCHANGED <<files, size, state, weights, round, operator, refused>>

Resume ==
    /\ At("loaded") /\ state.probes # <<>>
    /\ IF round \in Evaluated THEN Goto("next") /\ UNCHANGED phase
       ELSE Goto("evaluate") /\ phase' = "resume"
    /\ UNCHANGED <<files, size, state, weights, round, operator, refused>>

\* One round of 16 000 exposures, the probes and the norms.
TrainRound ==
    /\ At("next") /\ round < MaxRounds
    /\ round' = round + 1 /\ phase' = "loop" /\ Goto("model")
    /\ weights' = [by |-> launches, from |-> weights.by]
    /\ state' = [state EXCEPT !.probes = Append(@, round + 1), !.norms = Append(@, round + 1)]
    /\ UNCHANGED <<files, size, operator, refused>>

\* An out-of-memory error inside the loop is recorded for the size in use.
OutOfMemory ==
    /\ (At("next") /\ round < MaxRounds) \/ At("reload")
    /\ faults < MaxFaults /\ faults' = faults + 1
    /\ ooms' = ooms \union {size}
    /\ Fail
    /\ UNCHANGED <<micro, trained, evaluation, documents, launches, hands, refused>>

-------------------------------------------------------------------------------
(* _save_round_checkpoint, the state, the evaluation and the row of a round *)

\* The base model is scored before its state is written.
AfterSave == IF phase = "base" THEN "evaluate" ELSE "state"

\* A complete checkpoint of this round would be kept, and the new weights not saved.
SaveModel ==
    /\ At("model")
    /\ IF ~Complete(round) THEN model' = [model EXCEPT ![round] = weights] /\ Goto("optimizer")
       ELSE UNCHANGED model /\ Goto(AfterSave)
    /\ UNCHANGED <<ooms, micro, initial, optim, marker, saved, preds, summary, evaluation,
                   documents, process, operator, refused>>

SaveOptimizer ==
    /\ At("optimizer")
    /\ optim' = [optim EXCEPT ![round] = launches] /\ Goto("marker")
    /\ UNCHANGED <<ooms, micro, initial, model, marker, saved, preds, summary, evaluation,
                   documents, process, operator, refused>>

SaveMarker ==
    /\ At("marker")
    /\ marker' = [marker EXCEPT ![round] = [model |-> model[round], optim |-> optim[round]]]
    /\ Goto(AfterSave)
    /\ UNCHANGED <<ooms, micro, initial, model, optim, saved, preds, summary, evaluation,
                   documents, process, operator, refused>>

SaveState ==
    /\ At("state")
    /\ state' = [state EXCEPT !.done = round] /\ saved' = [state EXCEPT !.done = round]
    /\ Goto("evaluate")
    /\ UNCHANGED <<ooms, micro, initial, checkpoints, preds, summary, evaluation, documents,
                   size, weights, round, phase, operator, refused>>

\* evaluate_controller_checkpoint.  Complete predictions of the round are taken
\* as they are.  The synthetic losses of a score belong to the round's probes.
Evaluate ==
    /\ At("evaluate")
    /\ \/ preds[round].by # 0 /\ UNCHANGED preds
       \/ /\ preds[round].by = 0
          /\ \E score \in (IF round = 0 THEN {BaseScore} ELSE Scores) :
                preds' = [preds EXCEPT ![round] = [by |-> model[round].by, score |-> score]]
    /\ Goto("row")
    /\ UNCHANGED <<ooms, micro, initial, checkpoints, saved, summary, evaluation, documents,
                   process, operator, refused>>

\* Mutant: the row names the checkpoint of the process that appends it.
NewRowOfProcess == [round |-> round, checkpoint |-> launches,
                    scored |-> preds[round].by, score |-> preds[round].score]

\* The row names the checkpoint of the marker, its score the one that was scored.
NewRow == [round |-> round, checkpoint |-> marker[round].model.by,
           scored |-> preds[round].by, score |-> preds[round].score]

AppendRow ==
    /\ At("row")
    /\ state' = [state EXCEPT !.rows = Append(@, NewRow)]
    /\ saved' = [state EXCEPT !.rows = Append(@, NewRow)]
    /\ Goto(CASE phase = "base" -> "loaded" [] phase = "resume" -> "restore" [] phase = "loop" -> "reload")
    /\ UNCHANGED <<ooms, micro, initial, checkpoints, preds, summary, evaluation, documents,
                   size, weights, round, phase, operator, refused>>

\* The end of stage_train.  When no round is eligible selected_round is None, and
\* int(None) raises after the state is written.
Finish ==
    /\ At("finish") \/ (At("next") /\ round = MaxRounds)
    /\ saved' = state
    /\ IF Selected(state.rows) = NoRound
       THEN UNCHANGED summary /\ Fail
       ELSE /\ summary' = [stopped |-> round, selected |-> Selected(state.rows),
                           probes |-> state.probes, rows |-> state.rows, norms |-> state.norms]
            /\ Exit("evaluate-directional")
    /\ UNCHANGED <<ooms, micro, initial, checkpoints, preds, evaluation, documents,
                   launches, faults, hands, refused>>

-------------------------------------------------------------------------------
(* stage_evaluate_directional and stage_summarize *)

\* Mutant: an evaluation that is there is kept.
EvaluateOnce ==
    /\ At("evaluate-directional") /\ summary # NoSummary
    /\ summary' = [summary EXCEPT !.selected = Selected(summary.rows)]
    /\ evaluation' = IF evaluation # NoEvaluation THEN evaluation
                     ELSE [round |-> summary'.selected,
                           by |-> marker[summary'.selected].model.by]
    /\ Exit("summarize")
    /\ UNCHANGED <<ooms, micro, initial, checkpoints, saved, preds, documents,
                   launches, faults, hands, refused>>

\* The selection is computed again; the arm always runs anew.
EvaluateDirectional ==
    /\ At("evaluate-directional") /\ summary # NoSummary
    /\ summary' = [summary EXCEPT !.selected = Selected(summary.rows)]
    /\ IF marker[summary'.selected].model = model[summary'.selected]
       THEN /\ evaluation' = [round |-> summary'.selected,
                              by |-> marker[summary'.selected].model.by]
            /\ Exit("summarize") /\ UNCHANGED refused
       ELSE refused' = TRUE /\ Fail /\ UNCHANGED evaluation
    /\ UNCHANGED <<ooms, micro, initial, checkpoints, saved, preds, documents,
                   launches, faults, hands>>

\* A stage whose input is not there yet raises.
MissingInput ==
    /\ \/ At("evaluate-directional") /\ summary = NoSummary
       \/ At("summarize") /\ (summary = NoSummary \/ evaluation = NoEvaluation)
    /\ Fail
    /\ UNCHANGED <<files, launches, faults, hands, refused>>

\* The round comes from the training summary, the checkpoint from the evaluation,
\* and nothing compares evaluation["selected_round"] with the former.
Document == [selected |-> summary.selected, round |-> evaluation.round, by |-> evaluation.by]

WriteCertificate ==
    /\ At("summarize") /\ summary # NoSummary /\ evaluation # NoEvaluation
    /\ certificate' = Document /\ Goto("report")
    /\ UNCHANGED <<ooms, micro, trained, evaluation, report, page, process, operator, refused>>

WriteReport ==
    /\ At("report")
    /\ report' = Document /\ Goto("page")
    /\ UNCHANGED <<ooms, micro, trained, evaluation, certificate, page, process, operator, refused>>

WritePage ==
    /\ At("page")
    /\ page' = Document /\ Exit("done")
    /\ UNCHANGED <<ooms, micro, trained, evaluation, certificate, report, launches, faults, hands,
                   refused>>

-------------------------------------------------------------------------------
\* The process dies, its evaluation child fails, or something else raises.
Crash ==
    /\ pc # "idle" /\ faults < MaxFaults /\ faults' = faults + 1
    /\ Fail
    /\ UNCHANGED <<files, launches, hands, refused>>

Training ==
    \/ Train \/ TrainRefuses \/ Initialise \/ Initialised \/ Load \/ RestoreResumed \/ Reload
    \/ Base \/ Resume \/ TrainRound
    \/ SaveModel \/ SaveOptimizer \/ SaveMarker \/ SaveState
    \/ Evaluate \/ AppendRow \/ Finish

Reporting ==
    \/ EvaluateDirectional \/ MissingInput
    \/ WriteCertificate \/ WriteReport \/ WritePage

Work == ScriptStarts \/ ProbeMicrobatch \/ Training \/ Reporting
Fault == ProbeIncorrect \/ OutOfMemory \/ Crash
Next == Work \/ Fault \/ \E stage \in Stages : StartByHand(stage)

Spec == Init /\ [][Next]_vars

\* The script is run again until it is through; a stage that runs goes on.
FairSpec == Spec /\ WF_vars(Work)
-------------------------------------------------------------------------------
(* Properties *)

Row == [round : Rounds, checkpoint : Nat, scored : Nat, score : Score]
State == [done : Rounds \union {NoRound}, probes : Seq(Rounds), rows : Seq(Row),
          norms : Seq(Rounds)]
Documents == [selected : Rounds \union {NoRound}, round : Rounds \union {NoRound}, by : Nat]

\* The files and the process of the stage have the shapes the code gives them.
TypeOK ==
    /\ ooms \subseteq Sizes
    /\ micro.size \in Sizes \union {0} /\ (micro.status = "PASSED" => micro.size \in Sizes)
    /\ initial \in 0..2
    /\ model \in [Rounds -> [by : Nat, from : Nat]] /\ optim \in [Rounds -> Nat]
    /\ marker \in [Rounds -> [model : [by : Nat, from : Nat], optim : Nat]]
    /\ saved \in State /\ state \in State
    /\ preds \in [Rounds -> [by : Nat, score : Score]]
    /\ summary \in [stopped : Rounds \union {NoRound}, selected : Rounds \union {NoRound},
                    probes : Seq(Rounds), rows : Seq(Row), norms : Seq(Rounds)]
    /\ evaluation \in [round : Rounds \union {NoRound}, by : Nat]
    /\ {certificate, report, page} \subseteq Documents
    /\ size \in Sizes \union {0} /\ weights \in [by : Nat, from : Nat] /\ round \in Rounds
    /\ phase \in {"base", "resume", "loop"}
    /\ pc \in Stages \union {"idle", "load", "initial", "loaded", "next", "model", "optimizer",
                              "marker", "state", "evaluate", "row", "restore", "reload",
                              "finish", "report", "page"}
    /\ step \in Stages \union {"done", "over"}
    /\ {launches, faults, hands} \subseteq Nat /\ {byHand, refused} \subseteq BOOLEAN

\* However often training dies between two files of a checkpoint, between the
\* checkpoint and the state, or between the evaluation and its row: the complete
\* rounds form one chain in which every model was trained from the one before it.
Lineage ==
    \A r \in CompleteRounds :
        /\ HashesMatch(r) /\ model[r].by = optim[r]
        /\ r > 0 => r - 1 \in CompleteRounds /\ model[r].from = model[r - 1].by

\* Every row of the curve is the score of the very checkpoint its hash names, and
\* that checkpoint is the one on disk, although predictions are reused by round.
RowsOnOwnCheckpoint ==
    \A row \in RowsOf(saved.rows) \union RowsOf(summary.rows) :
        row.checkpoint = row.scored /\ row.scored = model[row.round].by

UpTo(curve, last) == Len(curve) = last + 1 /\ \A k \in DOMAIN curve : curve[k] = k - 1
RoundsOf(rows) == [k \in DOMAIN rows |-> rows[k].round]

\* The controller curve and the probe curve hold every round once and in order,
\* up to the round training stopped at; no crash leaves a gap or a double.  (The
\* norm curve has gaps, but no doubles.)
CurvesComplete ==
    /\ UpTo(RoundsOf(saved.rows), Len(saved.rows) - 1)
    /\ saved # NoState => UpTo(saved.probes, saved.done)
    /\ summary # NoSummary =>
          /\ UpTo(RoundsOf(summary.rows), summary.stopped)
          /\ UpTo(summary.probes, summary.stopped)
    /\ \A j, k \in DOMAIN saved.norms : j < k => saved.norms[j] < saved.norms[k]

\* None of the consistency checks of the stages ever fails: no sequence of deaths
\* and stages by hand leaves files that a later process refuses to work with.
NeverRefused == ~refused

\* What the script certifies when it gets through, whatever died and whatever
\* stages were started by hand before, is one thing: certificate, report and page
\* name the selected round and the checkpoint that this round has on disk, which
\* the curve's rule selects.
ScriptCertifiesSelected ==
    step = "done" =>
        /\ certificate = report /\ report = page
        /\ page.selected = Selected(saved.rows)
        /\ page.round = page.selected /\ page.by = model[page.selected].by

\* Rounds after which the rule said stop and training went on all the same.
Overruns == {k \in 1..(Len(saved.rows) - 1) : Surface08Stops(SubSeq(saved.rows, 1, k))}

\* A training process heeds the stop rule: training is carried on past a stop
\* only by a further process, once per process.
StopsHeeded == Cardinality(Overruns) <= (IF launches = 0 THEN 0 ELSE launches - 1)

\* The files of an experiment, whatever died, are those of a loop that no process
\* ever left: the complete checkpoints in their order, the rows of the saved curve,
\* the summary and the directional evaluation.
Loop == INSTANCE TrainingLoop WITH
    Names <- 1..MaxLaunches, Select <- Selected, None <- NoRound,
    chain <- [k \in {r + 1 : r \in CompleteRounds} |-> model[k - 1]],
    curve <- saved.rows,
    result <- [selected |-> summary.selected, rows |-> summary.rows],
    evaluated <- evaluation
ImplementsLoop == Loop!Spec

\* Whatever dies, the repeated script gets through, unless no size fits or no
\* round is eligible, which no repetition repairs.
SweepEnds ==
    <>(step = "done" \/ micro.status = "BLOCKED_SURFACE08_OOM"
          \/ (Len(saved.rows) > MaxRounds /\ Selected(saved.rows) = NoRound))

\* continue_rounds_after_raw_best and its companions in the configuration: once
\* the curve says stop, no further round is trained.
StopIsFinal == Overruns = {}
================================================================================
