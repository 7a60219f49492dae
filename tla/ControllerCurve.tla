---------------------------- MODULE ControllerCurve ----------------------------
(***************************************************************************)
(* The rules that read a controller-dev curve: which round is selected     *)
(* (artur_controller_dev.py, select_earliest_within_tolerance) and when    *)
(* training stops (trainable_surface_sweep.py, should_stop_...).           *)
(*                                                                         *)
(* A curve is a sequence of rows [round, score, ...], in the order in      *)
(* which they were appended; a score is [wer, cer, empty, better]: error   *)
(* rates in thousandths of a point, the number of empty hypotheses, and    *)
(* whether both synthetic probe losses are below those of the base model.  *)
(* Every row is "available": the code never appends another one.           *)
(***************************************************************************)
EXTENDS Integers, Sequences

Score == [wer : Nat, cer : Nat, empty : Nat, better : BOOLEAN]

NoRound == -1

RowsOf(curve) == {curve[k] : k \in DOMAIN curve}

\* The order of min(..., key=(wer, cer, round)).
Precedes(a, b) ==
    \/ a.score.wer < b.score.wer
    \/ a.score.wer = b.score.wer /\ a.score.cer < b.score.cer
    \/ /\ a.score.wer = b.score.wer /\ a.score.cer = b.score.cer
       /\ a.round <= b.round

\* The raw best row.  Its CER, not the smallest one, is the reference for the
\* CER tolerance.
Best(curve) == CHOOSE a \in RowsOf(curve) : \A b \in RowsOf(curve) : Precedes(a, b)

EmptyOfBase(curve) ==
    (CHOOSE row \in RowsOf(curve) : row.round = 0).score.empty

Eligible(curve) ==
    {row \in RowsOf(curve) :
        /\ row.score.wer <= Best(curve).score.wer + 500
        /\ row.score.cer <= Best(curve).score.cer + 250
        /\ row.score.empty <= EmptyOfBase(curve)}

\* The earliest eligible round; None in the code when there is none.
Selected(curve) ==
    IF Eligible(curve) = {} THEN NoRound
    ELSE (CHOOSE a \in Eligible(curve) :
             \A b \in Eligible(curve) : a.round <= b.round).round

Post(curve) == SelectSeq(curve, LAMBDA row : row.round > 0)

\* The last two rows of a curve of two or more are both above a limit.
LastTwoAbove(curve, limit) ==
    /\ Len(curve) >= 2
    /\ \A k \in {Len(curve) - 1, Len(curve)} : curve[k].score.wer > limit

\* The rule every surface shares: from the third round on, an empty hypothesis
\* after round 1, two catastrophic rounds, or three rounds without a new best.
CurveStops(curve) ==
    LET post == Post(curve)
        best == CHOOSE a \in RowsOf(post) :
                   \A b \in RowsOf(post) :
                      \/ a.score.wer < b.score.wer
                      \/ a.score.wer = b.score.wer /\ a.round <= b.round
    IN  /\ Len(post) >= 3
        /\ \/ \E row \in RowsOf(post) : row.round > 1 /\ row.score.empty > 0
           \/ LastTwoAbove(post, best.score.wer + 5000)
           \/ post[Len(post)].round - best.round >= 3

\* The guards surface 08 adds in front of it; 43443 is the selected WER of
\* surface 07.  The divergence guard compares with the best of all rows.
Surface08Stops(curve) ==
    LET post   == Post(curve)
        latest == post[Len(post)]
    IN  /\ \E row \in RowsOf(curve) : row.round > 0
        /\ \/ latest.round > 1 /\ latest.score.empty > 0
           \/ LastTwoAbove(post, 43443 + 5000)
           \/ /\ latest.score.better
              /\ \E row \in RowsOf(curve) : latest.score.wer > row.score.wer + 8000
           \/ CurveStops(curve)
================================================================================
