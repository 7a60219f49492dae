----------------------------- MODULE TrainingLoop -----------------------------
(***************************************************************************)
(* What a surface experiment promises, told as if no process ever died:    *)
(* the base model and then one round after the other is trained from the   *)
(* checkpoint before it and scored before the next one is trained; the     *)
(* rule that reads the curve selects a round, and the checkpoint of that   *)
(* round is evaluated.  A checkpoint and a row are never changed.          *)
(*                                                                         *)
(* When training ends is not said here: SurfaceTraining!StopsHeeded is     *)
(* about that.                                                             *)
(***************************************************************************)
EXTENDS Integers, Sequences

CONSTANTS
    MaxRounds,     \* training.max_rounds
    Names,         \* what tells the weights of one round apart
    BaseScore,     \* the score of the base model
    Scores,        \* the scores a trained round may get
    Select(_),     \* the round a curve selects, or None
    None           \* no round

VARIABLES
    chain,         \* the checkpoints: round k is chain[k + 1]
    curve,         \* the rows, one for each round
    result,        \* the rows selected from, and the round selected
    evaluated      \* the round evaluated, and its checkpoint

vars == <<chain, curve, result, evaluated>>

Init ==
    /\ chain = <<>> /\ curve = <<>>
    /\ result = [selected |-> None, rows |-> <<>>]
    /\ evaluated = [round |-> None, by |-> 0]

\* The next checkpoint; the base model is trained from nothing.
TrainRound ==
    /\ Len(curve) = Len(chain) /\ Len(chain) <= MaxRounds
    /\ \E name \in Names :
          chain' = Append(chain, [by |-> name, from |-> IF chain = <<>> THEN 0 ELSE chain[Len(chain)].by])
    /\ UNCHANGED <<curve, result, evaluated>>

\* The row of the latest checkpoint.
ScoreRound ==
    /\ Len(chain) = Len(curve) + 1
    /\ \E score \in (IF curve = <<>> THEN {BaseScore} ELSE Scores) :
          curve' = Append(curve, [round |-> Len(curve), checkpoint |-> chain[Len(chain)].by,
                                  scored |-> chain[Len(chain)].by, score |-> score])
    /\ UNCHANGED <<chain, result, evaluated>>

\* The summary of training: every checkpoint has its row.
Publish ==
    /\ Len(curve) = Len(chain) /\ Select(curve) # None
    /\ result' = [selected |-> Select(curve), rows |-> curve]
    /\ UNCHANGED <<chain, curve, evaluated>>

\* The checkpoint of the selected round.
Evaluate ==
    /\ result.selected # None
    /\ evaluated' = [round |-> result.selected, by |-> chain[result.selected + 1].by]
    /\ UNCHANGED <<chain, curve, result>>

Next == TrainRound \/ ScoreRound \/ Publish \/ Evaluate

Spec == Init /\ [][Next]_vars
===============================================================================
