--------------------------- MODULE MCSurfaceTraining ---------------------------
(* A small curve: the base model as experiment 0029 reports it, and a score that *)
(* is accepted, one that diverges from the synthetic probes, and a raw best that *)
(* has more empty hypotheses than the base model and is not eligible.            *)
EXTENDS SurfaceTraining

MCBaseScore == [wer |-> 66467, cer |-> 27409, empty |-> 13, better |-> FALSE]
Good == [wer |-> 45000, cer |-> 15000, empty |-> 0, better |-> TRUE]
Bad == [wer |-> 54000, cer |-> 20000, empty |-> 0, better |-> TRUE]
Silent == [wer |-> 44800, cer |-> 14900, empty |-> 14, better |-> TRUE]
MCScores == {Good, Bad, Silent}
================================================================================
