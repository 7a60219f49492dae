------------------------- MODULE SurfaceTraining_proofs -------------------------
(***************************************************************************)
(* Proofs about SurfaceTraining, for any number of rounds, faults, stages  *)
(* by hand and training processes and for any scores.                      *)
(***************************************************************************)
EXTENDS SurfaceTraining, FiniteSetTheorems, SequenceTheorems, WellFoundedInduction, TLAPS

\* The types, under names, so that a proof may leave them closed.
Weights == [by : Nat, from : Nat]
Models == [Rounds -> Weights]
Optims == [Rounds -> Nat]
Markers == [Rounds -> [model : Weights, optim : Nat]]
Predictions == [Rounds -> [by : Nat, score : Score]]
Summaries == [stopped : Rounds \union {NoRound}, selected : Rounds \union {NoRound},
              probes : Seq(Rounds), rows : Seq(Row), norms : Seq(Rounds)]
Evaluations == [round : Rounds \union {NoRound}, by : Nat]
Places == Stages \union {"idle", "load", "initial", "loaded", "next", "model", "optimizer",
                         "marker", "state", "evaluate", "row", "restore", "reload",
                         "finish", "report", "page"}
Types ==
    /\ ooms \subseteq Sizes
    /\ micro.size \in Sizes \union {0} /\ (micro.status = "PASSED" => micro.size \in Sizes)
    /\ initial \in 0..2
    /\ model \in Models /\ optim \in Optims /\ marker \in Markers
    /\ saved \in State /\ state \in State
    /\ preds \in Predictions /\ summary \in Summaries /\ evaluation \in Evaluations
    /\ certificate \in Documents /\ report \in Documents /\ page \in Documents
    /\ size \in Sizes \union {0} /\ weights \in Weights /\ round \in Rounds
    /\ phase \in {"base", "resume", "loop"}
    /\ pc \in Places /\ step \in Stages \union {"done", "over"}
    /\ launches \in Nat /\ faults \in Nat /\ hands \in Nat
    /\ byHand \in BOOLEAN /\ refused \in BOOLEAN

Saving == pc \in {"model", "optimizer", "marker"}
Scoring == pc \in {"evaluate", "row"}
Between == pc \in {"next", "restore", "reload", "finish"}
Known == pc \in {"loaded", "state"} \/ Saving \/ Scoring \/ Between

\* The checkpoints on disk: a marker is the last of its round's files, and its
\* round was trained from the complete round before it.
Chain ==
    /\ \A r \in Rounds : marker[r] # NoMarker => r \in CompleteRounds
    /\ Lineage

\* The process continues the checkpoint of the round before the one it saves.
Continues ==
    /\ round \notin CompleteRounds /\ weights.by = launches
    /\ round > 0 => round - 1 \in CompleteRounds /\ weights.from = model[round - 1].by

\* Nothing is complete yet, and the base model is in memory.
Fresh ==
    /\ CompleteRounds = {} /\ round = 0
    /\ weights = [by |-> launches, from |-> 0]
    /\ state.done = 0 /\ state.probes = <<>> /\ state.rows = <<>> /\ state.norms = <<>>

\* Where training is tells which round is the latest on disk and whose weights
\* are in memory.
Place ==
    /\ pc \in {"load", "initial"} \/ Known => launches > 0 /\ size \in Sizes
    /\ pc = "initial" => CompleteRounds = {}
    /\ Known => \A q \in CompleteRounds : q <= round
    /\ pc = "loaded" => Fresh \/ (round \in CompleteRounds /\ weights = model[round])
    /\ Saving => Continues /\ ((phase = "base" /\ round = 0) \/ (phase = "loop" /\ round > 0))
    /\ pc \in {"optimizer", "marker"} => model[round] = weights
    /\ pc = "marker" => optim[round] = launches
    /\ pc = "state" \/ Scoring \/ Between => round \in CompleteRounds
    /\ pc = "state" => phase = "loop" /\ round > 0
    /\ Scoring /\ phase = "base" => round = 0
    /\ pc = "next" \/ (Scoring /\ phase = "base") => weights = model[round]

\* The rows of a curve are rounds 0, 1, ... in order.
InOrder(rows) == \A k \in 1..Len(rows) : rows[k].round = k - 1

\* A training state after a number of rounds, the last of which may lack its row.
Curve(doc, last) ==
    /\ Len(doc.probes) = last + 1
    /\ \A k \in 1..Len(doc.probes) : doc.probes[k] = k - 1
    /\ InOrder(doc.rows)
    /\ \A k \in 1..Len(doc.norms) : doc.norms[k] <= last
    /\ \A j, k \in 1..Len(doc.norms) : j < k => doc.norms[j] < doc.norms[k]

\* The saved state is at most one checkpoint behind, and only when it has the
\* row of its last round.
SavedCurve ==
    /\ initial = 2 \/ (CompleteRounds = {} /\ ~Known)
    /\ saved.done = NoRound => saved = NoState
    /\ saved.done # NoRound => saved.done \in CompleteRounds
    /\ Curve(saved, saved.done)
    /\ Len(saved.rows) \in {saved.done, saved.done + 1}
    /\ \A q \in CompleteRounds :
          q <= saved.done + 1 /\ (q = saved.done + 1 => Len(saved.rows) = q)

\* The state in memory is the saved one, or ahead of it by the round at hand.
HeldCurve ==
    /\ pc = "loaded" =>
          \/ Fresh /\ saved = NoState
          \/ /\ state.done = round /\ Curve(state, round) /\ Len(state.rows) \in {round, round + 1}
             /\ saved = state \/ (saved = NoState /\ round = 0 /\ state.rows = <<>>)
    /\ Saving \/ pc = "state" =>
          /\ Curve(state, round) /\ Len(state.rows) = round
          /\ phase = "base" => state.done = round
          /\ saved.done = round - 1 /\ Len(saved.rows) = round
    /\ Scoring =>
          /\ state.done = round /\ Curve(state, round) /\ Len(state.rows) = round
          /\ saved = state \/ (saved = NoState /\ round = 0)
    /\ Between =>
          state.done = round /\ Curve(state, round) /\ Len(state.rows) = round + 1 /\ saved = state

\* The rows of a curve are scores of complete checkpoints.
Backed(rows) ==
    \A k \in 1..Len(rows) :
        /\ rows[k].round \in CompleteRounds
        /\ rows[k].checkpoint = rows[k].scored /\ rows[k].scored = model[rows[k].round].by

\* Predictions are those of the checkpoint on disk, and so is every row.
Scored ==
    /\ \A r \in Rounds : preds[r].by # 0 => r \in CompleteRounds /\ preds[r].by = model[r].by
    /\ pc = "row" => preds[round].by # 0
    /\ Backed(saved.rows) /\ Backed(summary.rows) /\ Backed(state.rows)

\* A training summary covers the rounds up to its last and can be selected from.
Summarised ==
    /\ Len(summary.rows) = summary.stopped + 1 /\ InOrder(summary.rows)
    /\ Len(summary.probes) = summary.stopped + 1
    /\ \A k \in 1..Len(summary.probes) : summary.probes[k] = k - 1
    /\ summary # NoSummary => Selected(summary.rows) # NoRound

IInv ==
    /\ Types /\ Chain /\ Place /\ SavedCurve /\ HeldCurve /\ Scored /\ Summarised
    /\ NeverRefused

-------------------------------------------------------------------------------
(* Operators *)

\* A set of natural numbers that is not empty has a smallest one.
LEMMA Smallest ==
  ASSUME NEW S \in SUBSET Nat, S # {}
  PROVE  \E m \in S : \A n \in S : m <= n
<1> DEFINE R == {ss \in Nat \X Nat : ss[1] < ss[2]}
<1>1. IsWellFoundedOn(R, Nat)
  BY NatLessThanWellFounded DEF OpToRel
<1>2. \A n, m \in Nat : ~ (<<n, m>> \in R) => m <= n
  OBVIOUS
<1> HIDE DEF R
<1>3. PICK m \in S : \A n \in S : ~ (<<n, m>> \in R)
  BY <1>1, WFMin
<1> QED
  BY <1>2, <1>3

\* A bounded set of natural numbers that is not empty has a largest one.
LEMMA Largest ==
  ASSUME NEW bound \in Nat, NEW S \in SUBSET (0..bound), S # {}
  PROVE  \E m \in S : \A n \in S : n <= m
<1> DEFINE T == {bound - n : n \in S}
<1>1. T \in SUBSET Nat /\ T # {}
  <2>1. \A n \in S : n \in Nat /\ bound - n \in Nat
    OBVIOUS
  <2>2. T # {}
    OBVIOUS
  <2> QED
    BY <2>1, <2>2
<1>2. PICK t \in T : \A u \in T : t <= u
  BY <1>1, Smallest
<1>3. PICK m \in S : t = bound - m
  BY <1>2
<1>4. ASSUME NEW n \in S PROVE n <= m
  <2>1. bound - n \in T
    OBVIOUS
  <2>2. t <= bound - n
    BY <1>2, <2>1
  <2> QED
    BY <1>3, <2>2
<1> QED
  BY <1>3, <1>4

\* The latest complete round is one of them.
LEMMA LatestIsComplete ==
  ASSUME ConstantsAssumption, CompleteRounds # {}
  PROVE  Latest \in CompleteRounds /\ \A q \in CompleteRounds : q <= Latest
<1>1. CompleteRounds \in SUBSET (0..MaxRounds) /\ MaxRounds \in Nat
  BY ConstantsAssumption DEF CompleteRounds, Rounds
<1>2. \E r \in CompleteRounds : \A q \in CompleteRounds : q <= r
  BY <1>1, Largest
<1> QED
  BY <1>2 DEF Latest

\* The round that a curve selects is one of its rounds, or none.
LEMMA SelectedIsRow ==
  ASSUME NEW rows \in Seq(Row), Selected(rows) # NoRound
  PROVE  \E k \in 1..Len(rows) : Selected(rows) = rows[k].round
<1> DEFINE T == {a.round : a \in Eligible(rows)}
<1>1. Eligible(rows) # {} /\ Eligible(rows) \subseteq RowsOf(rows)
  BY DEF Selected, Eligible
<1>2. RowsOf(rows) \subseteq Row
  BY DEF RowsOf
<1>3. T \in SUBSET Nat /\ T # {}
  BY <1>1, <1>2 DEF Row, Rounds
<1>4. PICK t \in T : \A u \in T : t <= u
  BY <1>3, Smallest
<1>5. PICK a \in Eligible(rows) : t = a.round
  BY <1>4
<1>6. \A b \in Eligible(rows) : a.round <= b.round
  BY <1>4, <1>5
<1>7. \E c \in Eligible(rows) : Selected(rows) = c.round
  BY <1>1, <1>5, <1>6 DEF Selected
<1> QED
  BY <1>1, <1>7 DEF RowsOf

\* The size that is selected is one of those that fit.
LEMMA SelectedSizeFits ==
  ASSUME ConstantsAssumption, NEW fits \in SUBSET Sizes, fits # {}
  PROVE  (CHOOSE s \in fits : \A t \in fits : t <= s) \in Sizes
<1>1. fits \in SUBSET (0..8)
  BY ConstantsAssumption
<1>2. \E s \in fits : \A t \in fits : t <= s
  BY <1>1, Largest
<1> QED
  BY <1>2

\* The round a curve selects is a round, or none.
LEMMA SelectedType ==
  ASSUME NEW rows \in Seq(Row) PROVE Selected(rows) \in Rounds \union {NoRound}
<1>1. \A k \in 1..Len(rows) : rows[k] \in Row
  OBVIOUS
<1>2. \A k \in 1..Len(rows) : rows[k].round \in Rounds
  BY <1>1 DEF Row
<1> QED
  BY <1>2, SelectedIsRow

\* What stands for a missing file has the file's type.
LEMMA MissingFiles ==
  /\ NoState \in State /\ NoModel \in Weights /\ NoMarker \in [model : Weights, optim : Nat]
  /\ NoPreds \in [by : Nat, score : Score]
  /\ NoSummary \in Summaries /\ NoEvaluation \in Evaluations /\ NoDocument \in Documents
  /\ [NoState EXCEPT !.done = 0] \in State
<1>1. 0 \in Rounds /\ BaseScore \in Score
  BY ConstantsAssumption DEF Rounds
<1>2. <<>> \in Seq(Rounds) /\ <<>> \in Seq(Row)
  OBVIOUS
<1>3. NoModel \in Weights
  BY DEF NoModel, Weights
<1>4. NoMarker \in [model : Weights, optim : Nat]
  BY <1>3 DEF NoMarker
<1>5. NoState \in State
  BY <1>2 DEF NoState, State
<1>6. NoSummary \in Summaries
  BY <1>2 DEF NoSummary, Summaries
<1>7. NoEvaluation \in Evaluations /\ NoDocument \in Documents
  BY DEF NoEvaluation, NoDocument, Evaluations, Documents
<1>8. NoPreds \in [by : Nat, score : Score]
  BY <1>1 DEF NoPreds
<1>9. [NoState EXCEPT !.done = 0] \in State
  BY <1>1, <1>2 DEF NoState, State
<1> QED
  BY <1>3, <1>4, <1>5, <1>6, <1>7, <1>8, <1>9

\* The types under names are those of TypeOK.
LEMMA TypesAreTypeOK == Types => TypeOK
  BY DEF Types, TypeOK, Places, Weights, Models, Optims, Markers, Predictions, Summaries, Evaluations

\* There are rows.
LEMMA RowExists == \E row : row \in Row
<1>1. [round |-> 0, checkpoint |-> 0, scored |-> 0, score |-> BaseScore] \in Row
  BY ConstantsAssumption DEF Row, Rounds
<1> QED
  BY <1>1

\* What training does to its state keeps the type.
LEMMA StateEdits ==
  ASSUME ConstantsAssumption, NEW s \in State, NEW r \in Rounds, NEW row \in Row
  PROVE  /\ [s EXCEPT !.done = r] \in State
         /\ [s EXCEPT !.probes = <<0>>] \in State
         /\ [s EXCEPT !.done = r, !.probes = <<0>>] \in State
         /\ [s EXCEPT !.probes = Append(@, r), !.norms = Append(@, r)] \in State
         /\ [s EXCEPT !.done = r, !.probes = Append(@, r)] \in State
         /\ [s EXCEPT !.rows = Append(@, row)] \in State
<1>1. s.probes \in Seq(Rounds) /\ s.norms \in Seq(Rounds) /\ s.rows \in Seq(Row)
  BY DEF State
<1>2. 0 \in Rounds
  BY ConstantsAssumption DEF Rounds
<1>3. <<0>> \in Seq(Rounds) /\ Append(s.probes, r) \in Seq(Rounds)
  BY <1>1, <1>2
<1>4. Append(s.norms, r) \in Seq(Rounds) /\ Append(s.rows, row) \in Seq(Row)
  BY <1>1
<1>5. /\ [s EXCEPT !.done = r] \in State /\ [s EXCEPT !.probes = <<0>>] \in State
      /\ [s EXCEPT !.done = r, !.probes = <<0>>] \in State
  BY <1>3 DEF State
<1>6. /\ [s EXCEPT !.probes = Append(@, r), !.norms = Append(@, r)] \in State
      /\ [s EXCEPT !.done = r, !.probes = Append(@, r)] \in State
  BY <1>3, <1>4 DEF State
<1>7. [s EXCEPT !.rows = Append(@, row)] \in State
  BY <1>4 DEF State
<1> QED
  BY <1>5, <1>6, <1>7

\* A load leaves a training state and a model of the latest round.
LEMMA RestoreTypes ==
  ASSUME ConstantsAssumption, Types, Loadable, Restore
  PROVE  state' \in State /\ saved' \in State /\ weights' \in Weights /\ round' \in Rounds
<1> DEFINE row == [round |-> 0, checkpoint |-> 0, scored |-> 0, score |-> BaseScore]
<1>1. Latest \in Rounds /\ 0 \in Rounds /\ row \in Row
  BY ConstantsAssumption, LatestIsComplete DEF Loadable, CompleteRounds, Rounds, Row
<1> HIDE DEF row
<1>2. saved \in State /\ model \in Models
  BY DEF Types
<1>3. Read(Latest) \in State
  <2>1. [NoState EXCEPT !.done = 0, !.probes = <<0>>] \in State
    BY <1>1, MissingFiles, StateEdits
  <2> QED
    BY <2>1, <1>2 DEF Read
<1>4. Repaired(Read(Latest), Latest) \in State
  <2> DEFINE known == \E k \in DOMAIN Read(Latest).probes : Read(Latest).probes[k] = Latest
  <2>1. CASE known
    <3>1. Repaired(Read(Latest), Latest) = [Read(Latest) EXCEPT !.done = Latest]
      BY <2>1, <1>3 DEF Repaired, State
    <3> QED
      BY <1>1, <1>3, <3>1, StateEdits
  <2>2. CASE ~known
    <3>1. Repaired(Read(Latest), Latest)
            = [Read(Latest) EXCEPT !.done = Latest, !.probes = Append(@, Latest)]
      BY <2>2 DEF Repaired
    <3> QED
      BY <1>1, <1>3, <3>1, StateEdits
  <2> QED
    BY <2>1, <2>2
<1>5. Resumed(Latest) \in State
  BY <1>3, <1>4 DEF Resumed
<1> QED
  BY <1>1, <1>2, <1>5 DEF Restore, Models

\* The summary of a training state has its type.
LEMMA SummaryType ==
  ASSUME NEW s \in State, NEW r \in Rounds, NEW chosen \in Rounds \union {NoRound}
  PROVE  [stopped |-> r, selected |-> chosen, probes |-> s.probes, rows |-> s.rows,
          norms |-> s.norms] \in Summaries
  BY DEF State, Summaries

\* What is reported has the type of a document.
LEMMA DocumentType == Types => Document \in Documents
<1> SUFFICES ASSUME Types PROVE Document \in Documents
  OBVIOUS
<1>1. summary \in Summaries /\ evaluation \in Evaluations
  BY DEF Types
<1>2. /\ summary.selected \in Rounds \union {NoRound}
      /\ evaluation.round \in Rounds \union {NoRound} /\ evaluation.by \in Nat
  BY <1>1 DEF Summaries, Evaluations
<1> QED
  BY <1>2 DEF Document, Documents

\* A model or optimizer file is only written for a round that is not complete,
\* and does not complete it.
LEMMA SaveFrame ==
  ASSUME Types, Chain, Place, SaveModel \/ SaveOptimizer
  PROVE  /\ CompleteRounds' = CompleteRounds /\ round \in Rounds \ CompleteRounds
         /\ \A r \in Rounds : r # round => model'[r] = model[r] /\ optim'[r] = optim[r]
         /\ SaveModel => model'[round] = weights /\ pc' = "optimizer"
         /\ SaveOptimizer => model' = model /\ optim'[round] = launches /\ pc' = "marker"
         /\ UNCHANGED <<marker, process, operator, initial, saved, preds, summary>>
<1>1. /\ round \notin CompleteRounds /\ round \in Rounds
      /\ UNCHANGED <<marker, process, operator, initial, saved, preds, summary>>
      /\ SaveModel => model' = [model EXCEPT ![round] = weights] /\ optim' = optim
      /\ SaveOptimizer => optim' = [optim EXCEPT ![round] = launches] /\ model' = model
  BY DEF SaveModel, SaveOptimizer, At, Place, Saving, Continues, Types, Complete, CompleteRounds
<1>2. marker[round] = NoMarker
  BY <1>1 DEF Chain
<1>3. \A r \in Rounds : r # round => model'[r] = model[r] /\ optim'[r] = optim[r]
  BY <1>1 DEF Types, Models, Optims
<1>4. \A r \in Rounds : r # round => Complete(r)' = Complete(r)
  BY <1>1, <1>3 DEF Complete
<1>5. \A r \in Rounds : r = round => ~ Complete(r)'
  BY <1>1, <1>2 DEF Complete
<1>6. CompleteRounds' = CompleteRounds
  BY <1>1, <1>4, <1>5 DEF CompleteRounds
<1>7. /\ SaveModel => model'[round] = weights /\ pc' = "optimizer"
      /\ SaveOptimizer => model' = model /\ optim'[round] = launches /\ pc' = "marker"
  BY <1>1 DEF SaveModel, SaveOptimizer, Goto, Types, Models, Optims, CompleteRounds
<1> QED
  BY <1>1, <1>3, <1>6, <1>7

\* The marker completes the round.
LEMMA MarkerFrame ==
  ASSUME Types, Chain, Place, SaveMarker
  PROVE  /\ CompleteRounds' = CompleteRounds \union {round} /\ round \in Rounds \ CompleteRounds
         /\ marker'[round] = [model |-> model[round], optim |-> optim[round]]
         /\ \A r \in Rounds : r # round => marker'[r] = marker[r]
         /\ pc' = AfterSave
         /\ UNCHANGED <<model, optim, process, operator, initial, saved, preds, summary>>
<1>1. /\ round \notin CompleteRounds /\ round \in Rounds
      /\ UNCHANGED <<model, optim, process, operator, initial, saved, preds, summary>>
      /\ marker' = [marker EXCEPT ![round] = [model |-> model[round], optim |-> optim[round]]]
      /\ model[round].by = launches /\ launches > 0 /\ optim[round] = launches
      /\ pc' = AfterSave
  BY DEF SaveMarker, At, Goto, Place, Saving, Continues, Known, Types
<1>2. marker'[round] = [model |-> model[round], optim |-> optim[round]]
  BY <1>1 DEF Types, Markers
<1>3. \A r \in Rounds : r # round => Complete(r)' = Complete(r) /\ marker'[r] = marker[r]
  BY <1>1 DEF Complete, Types, Markers
<1>4. launches # 0
  BY <1>1 DEF Types
<1>5. \A r \in Rounds : r = round => Complete(r)'
  BY <1>1, <1>2, <1>4 DEF Complete, NoMarker
<1>6. CompleteRounds' = CompleteRounds \union {round}
  BY <1>1, <1>3, <1>5 DEF CompleteRounds
<1> QED
  BY <1>1, <1>2, <1>3, <1>6

-------------------------------------------------------------------------------
(* Curves *)

\* The state of a process that has nothing yet.
LEMMA EmptyCurve ==
  /\ Curve(NoState, NoRound) /\ Len(NoState.rows) = 0 /\ NoState.done = NoRound
  /\ Curve([NoState EXCEPT !.done = 0, !.probes = <<0>>], 0)
  /\ [NoState EXCEPT !.done = 0, !.probes = <<0>>].done = 0
  /\ [NoState EXCEPT !.done = 0, !.probes = <<0>>].rows = <<>>
  BY DEF Curve, InOrder, NoState, NoRound

\* A row is appended to a curve that lacks it.
LEMMA CurveWithRow ==
  ASSUME NEW s \in State, NEW r \in Nat, NEW row \in Row,
         Curve(s, r), Len(s.rows) = r, row.round = r
  PROVE  LET t == [s EXCEPT !.rows = Append(@, row)]
         IN  Curve(t, r) /\ Len(t.rows) = r + 1 /\ t.done = s.done
<1> DEFINE t == [s EXCEPT !.rows = Append(@, row)]
<1>1. s.rows \in Seq(Row)
  BY DEF State
<1>2. /\ t.rows = Append(s.rows, row) /\ t.probes = s.probes /\ t.norms = s.norms
      /\ t.done = s.done
  BY DEF State
<1> HIDE DEF t
<1>3. /\ Len(t.rows) = r + 1 /\ t.rows[r + 1] = row
      /\ \A k \in 1..r : t.rows[k] = s.rows[k]
  BY <1>1, <1>2
<1>4. InOrder(t.rows)
  <2>1. \A k \in 1..r : s.rows[k].round = k - 1
    BY DEF InOrder, Curve
  <2>2. ASSUME NEW k \in 1..Len(t.rows) PROVE t.rows[k].round = k - 1
    <3>1. k \in 1..r \/ k = r + 1
      BY <1>3
    <3>2. CASE k \in 1..r
      BY <1>3, <2>1, <3>2
    <3>3. CASE k = r + 1
      BY <1>3, <3>3
    <3> QED
      BY <3>1, <3>2, <3>3
  <2> QED
    BY <2>2 DEF InOrder
<1>5. Curve(t, r)
  BY <1>2, <1>4 DEF Curve
<1> QED
  BY <1>2, <1>3, <1>5 DEF t

\* A round of training adds its probe and its norm.
LEMMA CurveTrained ==
  ASSUME ConstantsAssumption, NEW s \in State, NEW r \in Nat, r + 1 \in Rounds, Curve(s, r)
  PROVE  LET t == [s EXCEPT !.probes = Append(@, r + 1), !.norms = Append(@, r + 1)]
         IN  Curve(t, r + 1) /\ t.rows = s.rows /\ t.done = s.done
<1> DEFINE t == [s EXCEPT !.probes = Append(@, r + 1), !.norms = Append(@, r + 1)]
<1>1. s.probes \in Seq(Rounds) /\ s.norms \in Seq(Rounds)
  BY DEF State
<1>2. /\ t.rows = s.rows /\ t.probes = Append(s.probes, r + 1) /\ t.norms = Append(s.norms, r + 1)
      /\ t.done = s.done
  BY DEF State
<1> HIDE DEF t
<1>3. /\ Len(t.probes) = r + 2
      /\ \A k \in 1..(r + 2) : t.probes[k] = IF k <= r + 1 THEN s.probes[k] ELSE r + 1
  BY <1>1, <1>2 DEF Curve
<1>4. /\ Len(t.norms) = Len(s.norms) + 1
      /\ \A k \in 1..Len(s.norms) : t.norms[k] = s.norms[k]
      /\ t.norms[Len(s.norms) + 1] = r + 1
  BY <1>1, <1>2
<1>5. \A k \in 1..Len(t.probes) : t.probes[k] = k - 1
  BY <1>3 DEF Curve
<1>6. \A k \in 1..Len(s.norms) : s.norms[k] \in Int /\ s.norms[k] <= r
  <2>1. \A k \in 1..Len(s.norms) : s.norms[k] \in Rounds
    BY <1>1
  <2>2. \A k \in 1..Len(s.norms) : s.norms[k] <= r
    BY DEF Curve
  <2> QED
    BY <2>1, <2>2, ConstantsAssumption DEF Rounds
<1>7. Len(s.norms) \in Nat
  BY <1>1
<1>8. \A k \in 1..Len(t.norms) : k \in 1..Len(s.norms) \/ k = Len(s.norms) + 1
  BY <1>4, <1>7
<1>9. ASSUME NEW k \in 1..Len(t.norms) PROVE t.norms[k] <= r + 1
  <2>1. CASE k \in 1..Len(s.norms)
    BY <1>4, <1>6, <2>1
  <2>2. CASE k = Len(s.norms) + 1
    BY <1>4, <2>2
  <2> QED
    BY <1>8, <2>1, <2>2
<1>10. ASSUME NEW j \in 1..Len(t.norms), NEW k \in 1..Len(t.norms), j < k
       PROVE  t.norms[j] < t.norms[k]
  <2>1. j \in 1..Len(s.norms)
    BY <1>4, <1>7, <1>10
  <2>2. CASE k \in 1..Len(s.norms)
    BY <1>4, <1>10, <2>1, <2>2 DEF Curve
  <2>3. CASE k = Len(s.norms) + 1
    BY <1>4, <1>6, <2>1, <2>3
  <2> QED
    BY <1>8, <2>2, <2>3
<1>11. InOrder(t.rows)
  BY <1>2 DEF Curve
<1>12. Curve(t, r + 1)
  BY <1>3, <1>5, <1>9, <1>10, <1>11 DEF Curve
<1> QED
  BY <1>2, <1>12 DEF t

\* The probe of a round that the checkpoint is ahead is taken from its marker.
LEMMA CurveRepaired ==
  ASSUME ConstantsAssumption, NEW s \in State, NEW r \in Nat, r + 1 \in Rounds, Curve(s, r)
  PROVE  LET t == Repaired(s, r + 1)
         IN  Curve(t, r + 1) /\ t.rows = s.rows /\ t.done = r + 1
<1> DEFINE t == [s EXCEPT !.done = r + 1, !.probes = Append(@, r + 1)]
<1>1. s.probes \in Seq(Rounds) /\ s.norms \in Seq(Rounds)
  BY DEF State
<1>2. \A k \in DOMAIN s.probes : s.probes[k] # r + 1
  BY <1>1 DEF Curve
<1>3. Repaired(s, r + 1) = t
  BY <1>2 DEF Repaired
<1>4. t.rows = s.rows /\ t.probes = Append(s.probes, r + 1) /\ t.norms = s.norms /\ t.done = r + 1
  BY DEF State
<1> HIDE DEF t
<1>5. /\ Len(t.probes) = r + 2
      /\ \A k \in 1..(r + 2) : t.probes[k] = IF k <= r + 1 THEN s.probes[k] ELSE r + 1
  BY <1>1, <1>4 DEF Curve
<1>6. \A k \in 1..Len(t.probes) : t.probes[k] = k - 1
  BY <1>5 DEF Curve
<1>7. \A k \in 1..Len(s.norms) : s.norms[k] \in Int /\ s.norms[k] <= r
  <2>1. \A k \in 1..Len(s.norms) : s.norms[k] \in Rounds
    BY <1>1
  <2>2. \A k \in 1..Len(s.norms) : s.norms[k] <= r
    BY DEF Curve
  <2> QED
    BY <2>1, <2>2, ConstantsAssumption DEF Rounds
<1>8. Curve(t, r + 1)
  BY <1>4, <1>5, <1>6, <1>7 DEF Curve
<1> QED
  BY <1>3, <1>4, <1>8

\* A load finds the curve up to the latest round, with or without its row, and
\* leaves it in the saved state unless it had to start one.
LEMMA RestoreCurve ==
  ASSUME ConstantsAssumption, Types, SavedCurve, Loadable, Restore
  PROVE  /\ state'.done = Latest /\ Curve(state', Latest)
         /\ Len(state'.rows) \in {Latest, Latest + 1}
         /\ \/ saved' = state'
            \/ saved' = NoState /\ saved = NoState /\ Latest = 0 /\ state'.rows = <<>>
         /\ saved # NoState => state'.rows = saved.rows
         /\ saved.done = Latest => state' = saved
<1>1. Latest \in CompleteRounds /\ (\A q \in CompleteRounds : q <= Latest) /\ Latest \in Rounds
  BY LatestIsComplete DEF Loadable, CompleteRounds
<1>2. state' = Resumed(Latest) /\ saved' = IF Read(Latest).done = Latest THEN saved ELSE Resumed(Latest)
  BY DEF Restore
<1>3. CASE saved = NoState
  <2>1. Latest = 0 /\ Read(Latest) = [NoState EXCEPT !.done = 0, !.probes = <<0>>]
    BY <1>3 DEF Loadable, Read
  <2>2. Resumed(Latest) = Read(Latest) /\ saved' = NoState
    BY <1>2, <1>3, <2>1, EmptyCurve DEF Resumed
  <2>3. saved.done # Latest
    BY <1>3, <2>1, EmptyCurve DEF NoRound
  <2>4. /\ state'.done = 0 /\ Curve(state', 0) /\ state'.rows = <<>>
    BY <1>2, <2>1, <2>2, EmptyCurve
  <2>5. Len(state'.rows) = 0
    BY <2>4
  <2> QED
    BY <1>3, <2>1, <2>2, <2>3, <2>4, <2>5
<1>4. CASE saved # NoState
  <2>1. Read(Latest) = saved /\ saved.done \in CompleteRounds
    BY <1>4 DEF Read, SavedCurve
  <2>2. saved.done \in Nat /\ saved \in State /\ Latest \in Nat
    BY <1>1, <2>1 DEF CompleteRounds, Rounds, Types
  <2>3. CASE saved.done = Latest
    <3>1. Resumed(Latest) = saved /\ saved' = saved
      BY <1>2, <2>1, <2>3 DEF Resumed
    <3> QED
      BY <1>2, <2>3, <3>1 DEF SavedCurve
  <2>4. CASE saved.done # Latest
    <3>1. Latest = saved.done + 1 /\ Len(saved.rows) = Latest
      BY <1>1, <2>1, <2>2, <2>4 DEF SavedCurve
    <3>2. Resumed(Latest) = Repaired(saved, saved.done + 1) /\ saved' = Resumed(Latest)
      BY <1>2, <2>1, <2>4, <3>1 DEF Resumed
    <3>3. saved.done + 1 \in Rounds /\ Curve(saved, saved.done)
      BY <1>1, <3>1 DEF SavedCurve
    <3> QED
      BY <1>2, <2>2, <2>4, <3>1, <3>2, <3>3, CurveRepaired
  <2> QED
    BY <2>3, <2>4
<1> QED
  BY <1>3, <1>4

\* A marker names the model on disk.
LEMMA MarkerNames == Chain => \A r \in CompleteRounds : marker[r].model = model[r]
<1> SUFFICES ASSUME Chain, NEW r \in CompleteRounds PROVE marker[r].model = model[r]
  OBVIOUS
<1>1. marker[r] = [model |-> model[r], optim |-> optim[r]]
  BY DEF Chain, Lineage, HashesMatch
<1> QED
  BY <1>1

\* No check of a load fails.
LEMMA LoadSucceeds ==
  ASSUME ConstantsAssumption, IInv,
         (At("load") /\ CompleteRounds # {}) \/ At("restore") \/ At("reload")
  PROVE  Loadable
<1>1. Types /\ Chain /\ Place /\ SavedCurve
  BY DEF IInv
<1>2. pc # "load" => round \in CompleteRounds /\ \A q \in CompleteRounds : q <= round
  BY <1>1 DEF Place, Known, Between, At
<1>3. CompleteRounds # {}
  BY <1>2 DEF At
<1>4. Latest \in CompleteRounds /\ (\A q \in CompleteRounds : q <= Latest) /\ CompleteRounds \subseteq Nat
  BY <1>3, LatestIsComplete, ConstantsAssumption DEF CompleteRounds, Rounds
<1>5. \A r \in CompleteRounds : HashesMatch(r)
  BY <1>1 DEF Chain, Lineage
<1>6. saved = NoState => Latest = 0
  <2>1. saved = NoState => saved.done + 1 = 0
    BY EmptyCurve DEF NoRound
  <2> QED
    BY <1>1, <1>4, <2>1 DEF SavedCurve
<1>7. saved.done <= Latest
  <2>1. saved.done = NoRound \/ saved.done \in CompleteRounds
    BY <1>1 DEF SavedCurve
  <2>2. Latest \in Nat
    BY <1>4
  <2>3. CASE saved.done = NoRound
    BY <2>2, <2>3 DEF NoRound
  <2>4. CASE saved.done \in CompleteRounds
    BY <1>4, <2>4
  <2> QED
    BY <2>1, <2>3, <2>4
<1>8. initial = 2
  BY <1>1, <1>3 DEF SavedCurve
<1>9. pc # "load" => Latest = round
  <2>1. \A a, b \in Nat : a <= b /\ b <= a => a = b
    OBVIOUS
  <2> QED
    BY <1>2, <1>4, <2>1
<1> QED
  BY <1>3, <1>5, <1>6, <1>7, <1>8, <1>9 DEF Loadable

\* The first state has no checkpoint and no curve.
LEMMA InitIInv == Init => IInv
<1> SUFFICES ASSUME Init PROVE IInv
  OBVIOUS
<1> USE ConstantsAssumption DEF Init
<1>1. Types
  <2>1. 0 \in Rounds
    BY DEF Rounds
  <2>2. model \in Models /\ optim \in Optims /\ marker \in Markers /\ preds \in Predictions
    BY MissingFiles DEF Models, Optims, Markers, Predictions
  <2>3. micro.size = 0 /\ micro.status # "PASSED"
    OBVIOUS
  <2>4. /\ saved \in State /\ state \in State /\ summary \in Summaries
        /\ evaluation \in Evaluations /\ weights \in Weights
        /\ certificate \in Documents /\ report \in Documents /\ page \in Documents
    BY MissingFiles
  <2>5. pc \in Places /\ step \in Stages
    BY DEF Places, Stages
  <2> HIDE DEF Init
  <2>6. /\ ooms = {} /\ initial = 0 /\ size = 0 /\ round = 0 /\ phase = "base"
        /\ launches = 0 /\ faults = 0 /\ hands = 0
    BY DEF Init
  <2>7. byHand \in BOOLEAN /\ refused \in BOOLEAN
    BY DEF Init
  <2> QED
    BY <2>1, <2>2, <2>3, <2>4, <2>5, <2>6, <2>7 DEF Types
<1> USE DEF Rounds, NoModel, NoMarker, NoState, NoPreds, NoSummary, NoEvaluation, NoDocument,
            NoRound
<1>2. Chain
  BY DEF Chain, Lineage, Complete, CompleteRounds, HashesMatch
<1>3. Place
  BY DEF Place, Known, Saving, Scoring, Between
<1>4. SavedCurve
  BY DEF SavedCurve, Curve, InOrder, Complete, CompleteRounds, Known, Saving, Scoring, Between
<1>5. HeldCurve
  BY DEF HeldCurve, Saving, Scoring, Between
<1>6. Scored
  BY DEF Scored, Backed
<1>7. Summarised
  BY DEF Summarised, InOrder
<1> QED
  BY <1>1, <1>2, <1>3, <1>4, <1>5, <1>6, <1>7 DEF IInv, NeverRefused

\* Every step keeps the types.
LEMMA TypesStep == IInv /\ [Next]_vars => Types'
<1> SUFFICES ASSUME IInv, [Next]_vars PROVE Types'
  OBVIOUS
<1> Types
  BY DEF IInv
<1>0. 0 \in Rounds
  BY ConstantsAssumption DEF Rounds
<1> USE ConstantsAssumption, MissingFiles, <1>0 DEF Types, Places, Stages, vars, files, trained, checkpoints, documents, process, operator, At, Goto, Exit, Fail
<1>1. CASE ScriptStarts
  BY <1>1 DEF ScriptStarts
<1>2. CASE ProbeMicrobatch
  <2>1. micro'.size \in Sizes \union {0} /\ (micro'.status = "PASSED" => micro'.size \in Sizes)
    BY <1>2, SelectedSizeFits DEF ProbeMicrobatch
  <2> QED
    BY <1>2, <2>1 DEF ProbeMicrobatch
<1>3. CASE Training
  <2>1. CASE Train
    BY <2>1 DEF Train
  <2>2. CASE TrainRefuses
    BY <2>2 DEF TrainRefuses
  <2>3. CASE Initialise
    BY <2>3 DEF Initialise
  <2>4. CASE Initialised
    <3>1. state' \in State /\ weights' \in Weights
      BY <2>4 DEF Initialised, Weights
    <3> QED
      BY <2>4, <3>1 DEF Initialised
  <2>5. CASE Load
    <3>1. Loadable => state' \in State /\ saved' \in State /\ weights' \in Weights /\ round' \in Rounds
      BY <2>5, RestoreTypes DEF Load
    <3> QED
      BY <2>5, <3>1 DEF Load, Restore, Refuse
  <2>6. CASE RestoreResumed
    <3>1. Loadable => state' \in State /\ saved' \in State /\ weights' \in Weights /\ round' \in Rounds
      BY <2>6, RestoreTypes DEF RestoreResumed
    <3> QED
      BY <2>6, <3>1 DEF RestoreResumed, Restore, Refuse
  <2>7. CASE Reload
    <3>1. Loadable => state' \in State /\ saved' \in State /\ weights' \in Weights /\ round' \in Rounds
      BY <2>7, RestoreTypes DEF Reload
    <3> QED
      BY <2>7, <3>1 DEF Reload, Restore, Refuse
  <2>8. CASE Base
    <3>1. state' \in State
      BY <2>8, StateEdits, RowExists DEF Base
    <3> QED
      BY <2>8, <3>1 DEF Base
  <2>9. CASE Resume
    BY <2>9 DEF Resume
  <2>10. CASE TrainRound
    <3>1. round' \in Rounds
      BY <2>10 DEF TrainRound, Rounds
    <3>2. state' \in State
      BY <2>10, <3>1, StateEdits, RowExists DEF TrainRound
    <3>3. weights' \in Weights
      BY <2>10 DEF TrainRound, Weights
    <3> QED
      BY <2>10, <3>1, <3>2, <3>3 DEF TrainRound
  <2>11. CASE SaveModel
    <3>1. model' \in Models
      BY <2>11 DEF SaveModel, Models
    <3> QED
      BY <2>11, <3>1 DEF SaveModel, AfterSave
  <2>12. CASE SaveOptimizer
    <3>1. optim' \in Optims
      BY <2>12 DEF SaveOptimizer, Optims
    <3> QED
      BY <2>12, <3>1 DEF SaveOptimizer
  <2>13. CASE SaveMarker
    <3>1. marker' \in Markers
      BY <2>13 DEF SaveMarker, Markers, Models, Optims
    <3> QED
      BY <2>13, <3>1 DEF SaveMarker, AfterSave
  <2>14. CASE SaveState
    <3>1. state' \in State /\ saved' \in State
      BY <2>14, StateEdits, RowExists DEF SaveState
    <3> QED
      BY <2>14, <3>1 DEF SaveState
  <2>15. CASE Evaluate
    <3>1. preds' \in Predictions
      <4>1. CASE UNCHANGED preds
        BY <4>1
      <4>2. ASSUME NEW score \in (IF round = 0 THEN {BaseScore} ELSE Scores),
                  preds' = [preds EXCEPT ![round] = [by |-> model[round].by, score |-> score]]
           PROVE  preds' \in Predictions
        <5>1. score \in Score
          OBVIOUS
        <5>2. model[round].by \in Nat
          BY DEF Models, Weights
        <5> QED
          BY <4>2, <5>1, <5>2 DEF Predictions
      <4> QED
        BY <2>15, <4>1, <4>2 DEF Evaluate
    <3> QED
      BY <2>15, <3>1 DEF Evaluate
  <2>16. CASE AppendRow
    <3>1. NewRow \in Row
      BY DEF NewRow, Row, Models, Markers, Predictions, Weights
    <3>2. state' \in State /\ saved' \in State
      BY <2>16, <3>1, StateEdits DEF AppendRow
    <3> QED
      BY <2>16, <3>1, <3>2 DEF AppendRow
  <2>17. CASE Finish
    <3>1. Selected(state.rows) \in Rounds \union {NoRound}
      BY SelectedType DEF State
    <3>2. summary' \in Summaries
      BY <2>17, <3>1, SummaryType DEF Finish
    <3> QED
      BY <2>17, <3>1, <3>2 DEF Finish
  <2> QED
    BY <1>3, <2>1, <2>2, <2>3, <2>4, <2>5, <2>6, <2>7, <2>8, <2>9, <2>10, <2>11, <2>12, <2>13, <2>14, <2>15, <2>16, <2>17 DEF Training
<1>4. CASE Reporting
  <2>1. CASE EvaluateDirectional
    <3>1. Selected(summary.rows) \in Rounds \union {NoRound}
      BY SelectedType DEF Summaries
    <3>2. summary' \in Summaries /\ summary'.selected = Selected(summary.rows)
      BY <2>1, <3>1 DEF EvaluateDirectional, Summaries
    <3>3. Selected(summary.rows) \in Rounds
      BY <2>1, <3>1 DEF EvaluateDirectional, IInv, Summarised
    <3>4. marker[Selected(summary.rows)].model.by \in Nat
      BY <3>3 DEF Markers, Weights
    <3>5. evaluation' \in Evaluations
      BY <2>1, <3>2, <3>3, <3>4 DEF EvaluateDirectional, Evaluations
    <3> QED
      BY <2>1, <3>1, <3>2, <3>3, <3>4, <3>5 DEF EvaluateDirectional
  <2>2. CASE MissingInput
    BY <2>2 DEF MissingInput
  <2>3. CASE WriteCertificate
    <3>1. Document \in Documents
      BY DocumentType
    <3> QED
      BY <2>3, <3>1 DEF WriteCertificate
  <2>4. CASE WriteReport
    <3>1. Document \in Documents
      BY DocumentType
    <3> QED
      BY <2>4, <3>1 DEF WriteReport
  <2>5. CASE WritePage
    <3>1. Document \in Documents
      BY DocumentType
    <3> QED
      BY <2>5, <3>1 DEF WritePage
  <2> QED
    BY <1>4, <2>1, <2>2, <2>3, <2>4, <2>5 DEF Reporting
<1>5. CASE ProbeIncorrect
  <2>1. faults' \in Nat
    BY <1>5 DEF ProbeIncorrect
  <2>2. micro'.size = 0 /\ micro'.status # "PASSED"
    BY <1>5 DEF ProbeIncorrect
  <2> QED
    BY <1>5, <2>1, <2>2 DEF ProbeIncorrect
<1>6. CASE OutOfMemory
  <2>1. faults' \in Nat
    BY <1>6 DEF OutOfMemory
  <2>2. size \in Sizes
    BY <1>6 DEF OutOfMemory, IInv, Place, Known, Between
  <2> QED
    BY <1>6, <2>1, <2>2 DEF OutOfMemory
<1>7. CASE Crash
  <2>1. faults' \in Nat
    BY <1>7 DEF Crash
  <2> QED
    BY <1>7, <2>1 DEF Crash
<1>8. ASSUME NEW stage \in Stages, StartByHand(stage) PROVE Types'
  BY <1>8 DEF StartByHand
<1>9. CASE UNCHANGED vars
  BY <1>9
<1> QED
  BY <1>1, <1>2, <1>3, <1>4, <1>5, <1>6, <1>7, <1>8, <1>9 DEF Next, Work, Fault

\* Files of a complete checkpoint are never written again; a new one continues the
\* round before it.
LEMMA ChainStep == IInv /\ [Next]_vars => Chain'
<1> SUFFICES ASSUME IInv, [Next]_vars PROVE Chain'
  OBVIOUS
<1> Types /\ Chain /\ Place
  BY DEF IInv
<1>0. ASSUME UNCHANGED checkpoints PROVE Chain'
  BY <1>0 DEF checkpoints, Chain, Lineage, Complete, CompleteRounds, HashesMatch
<1>1. CASE ScriptStarts
  BY <1>1, <1>0 DEF ScriptStarts, vars, files, trained, Exit, Fail
<1>2. CASE ProbeMicrobatch
  BY <1>2, <1>0 DEF ProbeMicrobatch, vars, files, trained, Exit, Fail
<1>3. CASE Training
  <2>1. CASE Train
    BY <2>1, <1>0 DEF Train, vars, files, trained, Exit, Fail
  <2>2. CASE TrainRefuses
    BY <2>2, <1>0 DEF TrainRefuses, vars, files, trained, Exit, Fail
  <2>3. CASE Initialise
    BY <2>3, <1>0 DEF Initialise, vars, files, trained, Exit, Fail
  <2>4. CASE Initialised
    BY <2>4, <1>0 DEF Initialised, vars, files, trained, Exit, Fail
  <2>5. CASE Load
    BY <2>5, <1>0 DEF Load, vars, files, trained, Exit, Fail, Restore, Refuse
  <2>6. CASE RestoreResumed
    BY <2>6, <1>0 DEF RestoreResumed, vars, files, trained, Exit, Fail, Restore, Refuse
  <2>7. CASE Reload
    BY <2>7, <1>0 DEF Reload, vars, files, trained, Exit, Fail, Restore, Refuse
  <2>8. CASE Base
    BY <2>8, <1>0 DEF Base, vars, files, trained, Exit, Fail
  <2>9. CASE Resume
    BY <2>9, <1>0 DEF Resume, vars, files, trained, Exit, Fail
  <2>10. CASE TrainRound
    BY <2>10, <1>0 DEF TrainRound, vars, files, trained, Exit, Fail
  <2>11. CASE SaveModel
    <3>1. CompleteRounds' = CompleteRounds /\ \A r \in CompleteRounds : model'[r] = model[r] /\ optim'[r] = optim[r]
      BY <2>11, SaveFrame DEF CompleteRounds
    <3>2. marker' = marker
      BY <2>11, SaveFrame
    <3>3. \A r \in CompleteRounds : HashesMatch(r)'
      BY <3>1, <3>2 DEF HashesMatch, Chain, Lineage
    <3> QED
      BY <3>1, <3>2, <3>3 DEF Chain, Lineage
  <2>12. CASE SaveOptimizer
    <3>1. CompleteRounds' = CompleteRounds /\ \A r \in CompleteRounds : model'[r] = model[r] /\ optim'[r] = optim[r]
      BY <2>12, SaveFrame DEF CompleteRounds
    <3>2. marker' = marker
      BY <2>12, SaveFrame
    <3>3. \A r \in CompleteRounds : HashesMatch(r)'
      BY <3>1, <3>2 DEF HashesMatch, Chain, Lineage
    <3> QED
      BY <3>1, <3>2, <3>3 DEF Chain, Lineage
  <2>13. CASE SaveMarker
    <3>1. /\ CompleteRounds' = CompleteRounds \union {round} /\ round \in Rounds \ CompleteRounds
          /\ UNCHANGED <<model, optim>>
          /\ marker'[round] = [model |-> model[round], optim |-> optim[round]]
          /\ \A r \in Rounds : r # round => marker'[r] = marker[r]
      BY <2>13, MarkerFrame
    <3>2. /\ model[round].by = optim[round]
          /\ round > 0 => round - 1 \in CompleteRounds /\ model[round].from = model[round - 1].by
      BY <2>13 DEF SaveMarker, At, Place, Saving, Continues
    <3>3. \A r \in CompleteRounds' : HashesMatch(r)'
      BY <3>1 DEF CompleteRounds, HashesMatch, Chain, Lineage
    <3>4. \A r \in Rounds : marker'[r] # NoMarker => r \in CompleteRounds'
      BY <3>1 DEF Chain
    <3>5. ASSUME NEW r \in CompleteRounds'
       PROVE  /\ model'[r].by = optim'[r]
              /\ r > 0 => r - 1 \in CompleteRounds' /\ model'[r].from = model'[r - 1].by
      <4>1. model' = model /\ optim' = optim
        BY <3>1
      <4>2. CASE r = round
        BY <3>1, <3>2, <4>1, <4>2
      <4>3. CASE r \in CompleteRounds
        BY <3>1, <4>1, <4>3 DEF Chain, Lineage
      <4> QED
        BY <3>1, <4>2, <4>3
    <3> QED
      BY <3>3, <3>4, <3>5 DEF Chain, Lineage
  <2>14. CASE SaveState
    BY <2>14, <1>0 DEF SaveState, vars, files, trained, Exit, Fail
  <2>15. CASE Evaluate
    BY <2>15, <1>0 DEF Evaluate, vars, files, trained, Exit, Fail
  <2>16. CASE AppendRow
    BY <2>16, <1>0 DEF AppendRow, vars, files, trained, Exit, Fail
  <2>17. CASE Finish
    BY <2>17, <1>0 DEF Finish, vars, files, trained, Exit, Fail
  <2> QED
    BY <1>3, <2>1, <2>2, <2>3, <2>4, <2>5, <2>6, <2>7, <2>8, <2>9, <2>10, <2>11, <2>12, <2>13, <2>14, <2>15, <2>16, <2>17 DEF Training
<1>4. CASE Reporting
  <2>1. CASE EvaluateDirectional
    BY <2>1, <1>0 DEF EvaluateDirectional, vars, files, trained, Exit, Fail
  <2>2. CASE MissingInput
    BY <2>2, <1>0 DEF MissingInput, vars, files, trained, Exit, Fail
  <2>3. CASE WriteCertificate
    BY <2>3, <1>0 DEF WriteCertificate, vars, files, trained, Exit, Fail
  <2>4. CASE WriteReport
    BY <2>4, <1>0 DEF WriteReport, vars, files, trained, Exit, Fail
  <2>5. CASE WritePage
    BY <2>5, <1>0 DEF WritePage, vars, files, trained, Exit, Fail
  <2> QED
    BY <1>4, <2>1, <2>2, <2>3, <2>4, <2>5 DEF Reporting
<1>5. CASE ProbeIncorrect
  BY <1>5, <1>0 DEF ProbeIncorrect, vars, files, trained, Exit, Fail
<1>6. CASE OutOfMemory
  BY <1>6, <1>0 DEF OutOfMemory, vars, files, trained, Exit, Fail
<1>7. CASE Crash
  BY <1>7, <1>0 DEF Crash, vars, files, trained, Exit, Fail
<1>8. ASSUME NEW stage \in Stages, StartByHand(stage) PROVE Chain'
  BY <1>8, <1>0 DEF StartByHand, vars, files, trained, Exit, Fail
<1>9. CASE UNCHANGED vars
  BY <1>9, <1>0 DEF vars, files, trained, Exit, Fail
<1> QED
  BY <1>1, <1>2, <1>3, <1>4, <1>5, <1>6, <1>7, <1>8, <1>9 DEF Next, Work, Fault

\* Every place is reached with what it relies upon.
LEMMA PlaceStep == IInv /\ [Next]_vars => Place'
<1> SUFFICES ASSUME IInv, [Next]_vars PROVE Place'
  OBVIOUS
<1> Types /\ Chain /\ Place /\ HeldCurve
  BY DEF IInv
<1>0. ASSUME pc' \in Stages \union {"idle", "report", "page"} PROVE Place'
  BY <1>0 DEF Place, Known, Saving, Scoring, Between, Stages
<1> USE DEF At, Goto
<1>1. CASE ScriptStarts
  BY <1>1, <1>0 DEF ScriptStarts, Exit, Fail
<1>2. CASE ProbeMicrobatch
  BY <1>2, <1>0 DEF ProbeMicrobatch, Exit, Fail, Stages
<1>3. CASE Training
  <2>1. CASE Train
    BY <2>1 DEF Train, Types, files, Place, Known, Saving, Scoring, Between, trained, checkpoints
  <2>2. CASE TrainRefuses
    BY <2>2, <1>0 DEF TrainRefuses, Exit, Fail
  <2>3. CASE Initialise
    BY <2>3 DEF Initialise, CompleteRounds, Complete, checkpoints, process, operator, Place, Known, Saving, Scoring, Between
  <2>4. CASE Initialised
    <3>1. CompleteRounds' = {} /\ pc = "initial"
      BY <2>4 DEF Initialised, CompleteRounds, Complete, checkpoints, Place
    <3> QED
      BY <2>4, <3>1 DEF Initialised, operator, NoState, Fresh, Place, Known, Saving, Scoring, Between
  <2>5. CASE Load
    <3>1. CASE Loadable
      <4>1. Restore
        BY <2>5, <3>1 DEF Load
      <4>2. round' = Latest /\ weights' = model[Latest] /\ CompleteRounds' = CompleteRounds /\ model' = model
        BY <4>1 DEF Restore, CompleteRounds, Complete, checkpoints
      <4>3. Latest \in CompleteRounds /\ \A q \in CompleteRounds : q <= Latest
        BY ConstantsAssumption, <3>1, LatestIsComplete DEF Loadable
      <4>4. UNCHANGED <<operator, size>> /\ launches > 0 /\ size \in Sizes
        BY <2>5, <4>1 DEF Load, Restore, Place, Known, Between
      <4>5. pc' \in {"loaded", "next", "finish"}
        BY <2>5, <3>1 DEF Load
      <4> QED
        BY <4>2, <4>3, <4>4, <4>5 DEF operator, Place, Known, Saving, Scoring, Between
    <3>2. CASE ~Loadable
      BY <2>5, <3>2, <1>0 DEF Load, Refuse, Exit, Fail
    <3> QED
      BY <3>1, <3>2
  <2>6. CASE RestoreResumed
    <3>1. CASE Loadable
      <4>1. Restore
        BY <2>6, <3>1 DEF RestoreResumed
      <4>2. round' = Latest /\ weights' = model[Latest] /\ CompleteRounds' = CompleteRounds /\ model' = model
        BY <4>1 DEF Restore, CompleteRounds, Complete, checkpoints
      <4>3. Latest \in CompleteRounds /\ \A q \in CompleteRounds : q <= Latest
        BY ConstantsAssumption, <3>1, LatestIsComplete DEF Loadable
      <4>4. UNCHANGED <<operator, size>> /\ launches > 0 /\ size \in Sizes
        BY <2>6, <4>1 DEF RestoreResumed, Restore, Place, Known, Between
      <4>5. pc' \in {"loaded", "next", "finish"}
        BY <2>6, <3>1 DEF RestoreResumed
      <4> QED
        BY <4>2, <4>3, <4>4, <4>5 DEF operator, Place, Known, Saving, Scoring, Between
    <3>2. CASE ~Loadable
      BY <2>6, <3>2, <1>0 DEF RestoreResumed, Refuse, Exit, Fail
    <3> QED
      BY <3>1, <3>2
  <2>7. CASE Reload
    <3>1. CASE Loadable
      <4>1. Restore
        BY <2>7, <3>1 DEF Reload
      <4>2. round' = Latest /\ weights' = model[Latest] /\ CompleteRounds' = CompleteRounds /\ model' = model
        BY <4>1 DEF Restore, CompleteRounds, Complete, checkpoints
      <4>3. Latest \in CompleteRounds /\ \A q \in CompleteRounds : q <= Latest
        BY ConstantsAssumption, <3>1, LatestIsComplete DEF Loadable
      <4>4. UNCHANGED <<operator, size>> /\ launches > 0 /\ size \in Sizes
        BY <2>7, <4>1 DEF Reload, Restore, Place, Known, Between
      <4>5. pc' \in {"loaded", "next", "finish"}
        BY <2>7, <3>1 DEF Reload
      <4> QED
        BY <4>2, <4>3, <4>4, <4>5 DEF operator, Place, Known, Saving, Scoring, Between
    <3>2. CASE ~Loadable
      BY <2>7, <3>2, <1>0 DEF Reload, Refuse, Exit, Fail
    <3> QED
      BY <3>1, <3>2
  <2>8. CASE Base
    <3>1. Fresh
      BY <2>8 DEF Base, Place, HeldCurve, Curve, Types, Rounds
    <3>2. CompleteRounds' = CompleteRounds /\ UNCHANGED <<model, operator, size, weights, round>>
      BY <2>8 DEF Base, CompleteRounds, Complete, files, trained, checkpoints
    <3> QED
      BY <2>8, <3>1, <3>2 DEF Base, Fresh, Continues, operator, Place, Known, Saving, Scoring, Between
  <2>9. CASE Resume
    <3>1. round \in CompleteRounds /\ weights = model[round]
      BY <2>9 DEF Resume, Place, Fresh
    <3>2. CompleteRounds' = CompleteRounds /\ UNCHANGED <<model, operator, size, weights, round>>
      BY <2>9 DEF Resume, CompleteRounds, Complete, files, trained, checkpoints
    <3> QED
      BY <2>9, <3>1, <3>2 DEF Resume, operator, Place, Known, Saving, Scoring, Between
  <2>10. CASE TrainRound
    <3>1. round \in CompleteRounds /\ weights = model[round] /\ round \in Rounds
      BY <2>10 DEF TrainRound, Types, Place, Known, Saving, Scoring, Between
    <3>2. CompleteRounds' = CompleteRounds /\ UNCHANGED <<model, operator, size>>
      BY <2>10 DEF TrainRound, CompleteRounds, Complete, files, trained, checkpoints
    <3>3. round' = round + 1 /\ \A q \in CompleteRounds : q <= round
      BY <2>10 DEF TrainRound, Place, Known, Between
    <3>4. CompleteRounds \subseteq Nat /\ round \in Nat
      BY <3>1, ConstantsAssumption DEF CompleteRounds, Rounds
    <3>5. round' \notin CompleteRounds' /\ (\A q \in CompleteRounds' : q <= round')
      BY <3>2, <3>3, <3>4
    <3>6. weights' = [by |-> launches, from |-> model[round].by] /\ phase' = "loop" /\ pc' = "model"
      BY <2>10, <3>1 DEF TrainRound
    <3>7. Continues'
      BY <3>1, <3>2, <3>3, <3>4, <3>5, <3>6 DEF Continues, operator
    <3> QED
      BY <2>10, <3>2, <3>3, <3>4, <3>5, <3>6, <3>7 DEF TrainRound, operator, Place, Known, Saving, Scoring, Between
  <2>11. CASE SaveModel
    <3>1. /\ CompleteRounds' = CompleteRounds /\ round \in Rounds \ CompleteRounds
          /\ \A r \in Rounds : r # round => model'[r] = model[r]
          /\ model'[round] = weights /\ pc' = "optimizer" /\ UNCHANGED <<process, operator>>
      BY <2>11, SaveFrame
    <3>2. Continues /\ pc = "model"
      BY <2>11 DEF SaveModel, Place, Saving
    <3>3. Continues'
      BY <3>1, <3>2, ConstantsAssumption DEF Continues, process, operator, CompleteRounds, Rounds
    <3> QED
      BY <3>1, <3>2, <3>3 DEF process, operator, Place, Known, Saving, Scoring, Between
  <2>12. CASE SaveOptimizer
    <3>1. /\ CompleteRounds' = CompleteRounds /\ round \in Rounds \ CompleteRounds /\ model' = model
          /\ optim'[round] = launches /\ pc' = "marker" /\ UNCHANGED <<process, operator>>
      BY <2>12, SaveFrame
    <3>2. Continues /\ pc = "optimizer"
      BY <2>12 DEF SaveOptimizer, Place, Saving
    <3>3. Continues'
      BY <3>1, <3>2 DEF Continues, process, operator
    <3> QED
      BY <3>1, <3>2, <3>3 DEF process, operator, Place, Known, Saving, Scoring, Between
  <2>13. CASE SaveMarker
    <3>1. /\ CompleteRounds' = CompleteRounds \union {round} /\ round \in Rounds
          /\ pc' = AfterSave /\ UNCHANGED <<model, process, operator>>
      BY <2>13, MarkerFrame
    <3>2. pc = "marker" /\ model[round] = weights
      BY <2>13 DEF SaveMarker, Place
    <3>3. \A q \in CompleteRounds' : q <= round
      BY <3>1, <3>2, ConstantsAssumption DEF Place, Known, Saving, Rounds
    <3> QED
      BY <3>1, <3>2, <3>3 DEF AfterSave, process, operator, Place, Known, Saving, Scoring, Between
  <2>14. CASE SaveState
    <3>1. CompleteRounds' = CompleteRounds /\ UNCHANGED <<model, weights, round, phase, size, operator>>
      BY <2>14 DEF SaveState, CompleteRounds, Complete, checkpoints, process
    <3> QED
      BY <2>14, <3>1 DEF SaveState, operator, Place, Known, Saving, Scoring, Between
  <2>15. CASE Evaluate
    <3>1. CompleteRounds' = CompleteRounds /\ UNCHANGED <<model, weights, round, phase, size, operator>>
      BY <2>15 DEF Evaluate, CompleteRounds, Complete, checkpoints, process
    <3> QED
      BY <2>15, <3>1 DEF Evaluate, operator, process, Place, Known, Saving, Scoring, Between
  <2>16. CASE AppendRow
    <3>1. CompleteRounds' = CompleteRounds /\ UNCHANGED <<model, weights, round, phase, size, operator>>
      BY <2>16 DEF AppendRow, CompleteRounds, Complete, checkpoints, process
    <3> QED
      BY <2>16, <3>1 DEF AppendRow, operator, Types, Place, Known, Saving, Scoring, Between
  <2>17. CASE Finish
    BY <2>17, <1>0 DEF Finish, Exit, Fail, Stages
  <2> QED
    BY <1>3, <2>1, <2>2, <2>3, <2>4, <2>5, <2>6, <2>7, <2>8, <2>9, <2>10, <2>11, <2>12, <2>13, <2>14, <2>15, <2>16, <2>17 DEF Training
<1>4. CASE Reporting
  <2>1. CASE EvaluateDirectional
    BY <2>1, <1>0 DEF EvaluateDirectional, Exit, Fail, Stages
  <2>2. CASE MissingInput
    BY <2>2, <1>0 DEF MissingInput, Exit, Fail
  <2>3. CASE WriteCertificate
    BY <2>3, <1>0 DEF WriteCertificate, Exit, Fail
  <2>4. CASE WriteReport
    BY <2>4, <1>0 DEF WriteReport, Exit, Fail
  <2>5. CASE WritePage
    BY <2>5, <1>0 DEF WritePage, Exit, Fail
  <2> QED
    BY <1>4, <2>1, <2>2, <2>3, <2>4, <2>5 DEF Reporting
<1>5. CASE ProbeIncorrect
  BY <1>5, <1>0 DEF ProbeIncorrect, Exit, Fail
<1>6. CASE OutOfMemory
  BY <1>6, <1>0 DEF OutOfMemory, Exit, Fail
<1>7. CASE Crash
  BY <1>7, <1>0 DEF Crash, Exit, Fail
<1>8. ASSUME NEW stage \in Stages, StartByHand(stage) PROVE Place'
  BY <1>8, <1>0 DEF StartByHand, Exit, Fail
<1>9. CASE UNCHANGED vars
  BY <1>9 DEF vars, files, trained, checkpoints, process, operator, Place, Known, Saving, Scoring, Between, Continues, Fresh, CompleteRounds, Complete
<1> QED
  BY <1>1, <1>2, <1>3, <1>4, <1>5, <1>6, <1>7, <1>8, <1>9 DEF Next, Work, Fault

\* The saved state follows the checkpoints.
LEMMA SavedCurveStep == IInv /\ [Next]_vars => SavedCurve'
<1> SUFFICES ASSUME IInv, [Next]_vars PROVE SavedCurve'
  OBVIOUS
<1> Types /\ Chain /\ Place /\ SavedCurve /\ HeldCurve
  BY DEF IInv
<1>u. UNCHANGED checkpoints => CompleteRounds' = CompleteRounds
  BY DEF CompleteRounds, Complete, checkpoints
<1>0. ASSUME CompleteRounds' = CompleteRounds, UNCHANGED <<initial, saved>>, Known' => Known
      PROVE  SavedCurve'
  BY <1>0 DEF SavedCurve
<1> USE DEF At, Goto
<1>1. CASE ScriptStarts
  BY <1>1, <1>0, <1>u DEF ScriptStarts, Exit, Fail, Stages, vars, files, trained, Known, Saving, Scoring, Between
<1>2. CASE ProbeMicrobatch
  BY <1>2, <1>0, <1>u DEF ProbeMicrobatch, Exit, Fail, Stages, vars, files, trained, Known, Saving, Scoring, Between
<1>3. CASE Training
  <2>1. CASE Train
    BY <2>1, <1>0, <1>u DEF Train, Exit, Fail, Stages, vars, files, trained, Known, Saving, Scoring, Between
  <2>2. CASE TrainRefuses
    BY <2>2, <1>0, <1>u DEF TrainRefuses, Exit, Fail, Stages, vars, files, trained, Known, Saving, Scoring, Between
  <2>3. CASE Initialise
    <3>1. CompleteRounds' = {} /\ CompleteRounds = {} /\ saved' = saved /\ pc' = "initial"
      BY <2>3, <1>u DEF Initialise
    <3> QED
      BY <3>1 DEF SavedCurve, Known, Saving, Scoring, Between
  <2>4. CASE Initialised
    <3>1. CompleteRounds' = CompleteRounds /\ saved' = saved /\ initial' = 2
      BY <2>4, <1>u DEF Initialised
    <3> QED
      BY <3>1 DEF SavedCurve
  <2>5. CASE Load
    <3>1. CASE Loadable
      <4>1. Restore
        BY <2>5, <3>1 DEF Load
      <4>2. CompleteRounds' = CompleteRounds /\ initial' = initial /\ initial = 2
        BY <3>1, <4>1, <1>u DEF Restore, Loadable
      <4>3. CASE saved' = saved
        BY <4>2, <4>3 DEF SavedCurve
      <4>4. CASE saved' = state' /\ saved' # saved
        <5>1. /\ saved'.done = Latest /\ Curve(saved', Latest) /\ Len(saved'.rows) \in {Latest, Latest + 1}
          BY <4>1, <4>4, <3>1, RestoreCurve, ConstantsAssumption
        <5>2. Latest \in CompleteRounds /\ \A q \in CompleteRounds : q <= Latest
          BY <3>1, LatestIsComplete, ConstantsAssumption DEF Loadable
        <5>3. CompleteRounds \subseteq Nat /\ Latest \in Nat
          BY <5>2, ConstantsAssumption DEF CompleteRounds, Rounds
        <5>4. \A q \in CompleteRounds : q <= Latest + 1 /\ q # Latest + 1
          BY <5>2, <5>3
        <5>5. Latest # NoRound
          BY <5>3 DEF NoRound
        <5> QED
          BY <4>2, <5>1, <5>2, <5>4, <5>5 DEF SavedCurve
      <4>5. saved' = saved \/ saved' = state'
        BY <4>1, <3>1, RestoreCurve, ConstantsAssumption
      <4> QED
        BY <4>3, <4>4, <4>5
    <3>2. CASE ~Loadable
      BY <2>5, <3>2, <1>0, <1>u DEF Load, Refuse, Exit, Fail, files, trained, Known, Saving, Scoring, Between
    <3> QED
      BY <3>1, <3>2
  <2>6. CASE RestoreResumed
    <3>1. CASE Loadable
      <4>1. Restore
        BY <2>6, <3>1 DEF RestoreResumed
      <4>2. CompleteRounds' = CompleteRounds /\ initial' = initial /\ initial = 2
        BY <3>1, <4>1, <1>u DEF Restore, Loadable
      <4>3. CASE saved' = saved
        BY <4>2, <4>3 DEF SavedCurve
      <4>4. CASE saved' = state' /\ saved' # saved
        <5>1. /\ saved'.done = Latest /\ Curve(saved', Latest) /\ Len(saved'.rows) \in {Latest, Latest + 1}
          BY <4>1, <4>4, <3>1, RestoreCurve, ConstantsAssumption
        <5>2. Latest \in CompleteRounds /\ \A q \in CompleteRounds : q <= Latest
          BY <3>1, LatestIsComplete, ConstantsAssumption DEF Loadable
        <5>3. CompleteRounds \subseteq Nat /\ Latest \in Nat
          BY <5>2, ConstantsAssumption DEF CompleteRounds, Rounds
        <5>4. \A q \in CompleteRounds : q <= Latest + 1 /\ q # Latest + 1
          BY <5>2, <5>3
        <5>5. Latest # NoRound
          BY <5>3 DEF NoRound
        <5> QED
          BY <4>2, <5>1, <5>2, <5>4, <5>5 DEF SavedCurve
      <4>5. saved' = saved \/ saved' = state'
        BY <4>1, <3>1, RestoreCurve, ConstantsAssumption
      <4> QED
        BY <4>3, <4>4, <4>5
    <3>2. CASE ~Loadable
      BY <2>6, <3>2, <1>0, <1>u DEF RestoreResumed, Refuse, Exit, Fail, files, trained, Known, Saving, Scoring, Between
    <3> QED
      BY <3>1, <3>2
  <2>7. CASE Reload
    <3>1. CASE Loadable
      <4>1. Restore
        BY <2>7, <3>1 DEF Reload
      <4>2. CompleteRounds' = CompleteRounds /\ initial' = initial /\ initial = 2
        BY <3>1, <4>1, <1>u DEF Restore, Loadable
      <4>3. CASE saved' = saved
        BY <4>2, <4>3 DEF SavedCurve
      <4>4. CASE saved' = state' /\ saved' # saved
        <5>1. /\ saved'.done = Latest /\ Curve(saved', Latest) /\ Len(saved'.rows) \in {Latest, Latest + 1}
          BY <4>1, <4>4, <3>1, RestoreCurve, ConstantsAssumption
        <5>2. Latest \in CompleteRounds /\ \A q \in CompleteRounds : q <= Latest
          BY <3>1, LatestIsComplete, ConstantsAssumption DEF Loadable
        <5>3. CompleteRounds \subseteq Nat /\ Latest \in Nat
          BY <5>2, ConstantsAssumption DEF CompleteRounds, Rounds
        <5>4. \A q \in CompleteRounds : q <= Latest + 1 /\ q # Latest + 1
          BY <5>2, <5>3
        <5>5. Latest # NoRound
          BY <5>3 DEF NoRound
        <5> QED
          BY <4>2, <5>1, <5>2, <5>4, <5>5 DEF SavedCurve
      <4>5. saved' = saved \/ saved' = state'
        BY <4>1, <3>1, RestoreCurve, ConstantsAssumption
      <4> QED
        BY <4>3, <4>4, <4>5
    <3>2. CASE ~Loadable
      BY <2>7, <3>2, <1>0, <1>u DEF Reload, Refuse, Exit, Fail, files, trained, Known, Saving, Scoring, Between
    <3> QED
      BY <3>1, <3>2
  <2>8. CASE Base
    BY <2>8, <1>0, <1>u DEF Base, Exit, Fail, Stages, vars, files, trained, Known, Saving, Scoring, Between
  <2>9. CASE Resume
    BY <2>9, <1>0, <1>u DEF Resume, Exit, Fail, Stages, vars, files, trained, Known, Saving, Scoring, Between
  <2>10. CASE TrainRound
    BY <2>10, <1>0, <1>u DEF TrainRound, Exit, Fail, Stages, vars, files, trained, Known, Saving, Scoring, Between
  <2>11. CASE SaveModel
    BY <2>11, <1>0, SaveFrame DEF SaveModel, Known, Saving, Scoring, Between
  <2>12. CASE SaveOptimizer
    BY <2>12, <1>0, SaveFrame DEF SaveOptimizer, Known, Saving, Scoring, Between
  <2>13. CASE SaveMarker
    <3>1. CompleteRounds' = CompleteRounds \union {round} /\ round \in Rounds /\ UNCHANGED <<initial, saved>>
      BY <2>13, MarkerFrame
    <3>2. saved.done = round - 1 /\ Len(saved.rows) = round /\ initial = 2
      BY <2>13 DEF SaveMarker, HeldCurve, SavedCurve, Known, Saving, Scoring, Between
    <3>3. round \in Nat
      BY <3>1, ConstantsAssumption DEF Rounds
    <3>4. \A q \in CompleteRounds' : q <= saved.done + 1 /\ (q = saved.done + 1 => Len(saved.rows) = q)
      BY <3>1, <3>2, <3>3 DEF SavedCurve
    <3> QED
      BY <3>1, <3>2, <3>4 DEF SavedCurve
  <2>14. CASE SaveState
    <3>1. /\ round \in CompleteRounds /\ \A q \in CompleteRounds : q <= round
          /\ Curve(state, round) /\ Len(state.rows) = round /\ initial = 2
      BY <2>14 DEF SaveState, Place, HeldCurve, SavedCurve, Known, Saving, Scoring, Between
    <3>2. CompleteRounds' = CompleteRounds /\ initial' = initial /\ round \in Nat /\ CompleteRounds \subseteq Nat
      BY <2>14, <1>u, <3>1, ConstantsAssumption DEF SaveState, CompleteRounds, Rounds
    <3>3. /\ saved'.done = round /\ saved'.rows = state.rows /\ saved'.probes = state.probes
          /\ saved'.norms = state.norms
      BY <2>14 DEF SaveState, Types, State
    <3>4. Curve(saved', round)
      BY <3>1, <3>3 DEF Curve
    <3>5. round # NoRound /\ \A q \in CompleteRounds : q <= round + 1 /\ q # round + 1
      BY <3>1, <3>2 DEF NoRound
    <3> QED
      BY <3>1, <3>2, <3>3, <3>4, <3>5 DEF SavedCurve
  <2>15. CASE Evaluate
    BY <2>15, <1>0, <1>u DEF Evaluate, Exit, Fail, Stages, vars, files, trained, Known, Saving, Scoring, Between
  <2>16. CASE AppendRow
    <3>1. /\ round \in CompleteRounds /\ \A q \in CompleteRounds : q <= round
          /\ Curve(state, round) /\ Len(state.rows) = round /\ state.done = round /\ initial = 2
      BY <2>16 DEF AppendRow, Place, HeldCurve, SavedCurve, Known, Saving, Scoring, Between
    <3>2. CompleteRounds' = CompleteRounds /\ initial' = initial /\ round \in Nat /\ CompleteRounds \subseteq Nat
      BY <2>16, <1>u, <3>1, ConstantsAssumption DEF AppendRow, CompleteRounds, Rounds
    <3>3. NewRow \in Row /\ NewRow.round = round
      BY DEF NewRow, Row, Types, Models, Markers, Predictions, Weights
    <3>4. Curve(saved', round) /\ Len(saved'.rows) = round + 1 /\ saved'.done = round
      BY <2>16, <3>1, <3>2, <3>3, CurveWithRow DEF AppendRow, Types
    <3>5. round # NoRound /\ \A q \in CompleteRounds : q <= round + 1 /\ q # round + 1
      BY <3>1, <3>2 DEF NoRound
    <3> QED
      BY <3>1, <3>2, <3>4, <3>5 DEF SavedCurve
  <2>17. CASE Finish
    <3>1. saved' = saved
      BY <2>17 DEF Finish, HeldCurve, Between
    <3> QED
      BY <2>17, <3>1, <1>0, <1>u DEF Finish, Exit, Fail, Known, Saving, Scoring, Between
  <2> QED
    BY <1>3, <2>1, <2>2, <2>3, <2>4, <2>5, <2>6, <2>7, <2>8, <2>9, <2>10, <2>11, <2>12, <2>13, <2>14, <2>15, <2>16, <2>17 DEF Training
<1>4. CASE Reporting
  <2>1. CASE EvaluateDirectional
    BY <2>1, <1>0, <1>u DEF EvaluateDirectional, Exit, Fail, Stages, vars, files, trained, Known, Saving, Scoring, Between
  <2>2. CASE MissingInput
    BY <2>2, <1>0, <1>u DEF MissingInput, Exit, Fail, Stages, vars, files, trained, Known, Saving, Scoring, Between
  <2>3. CASE WriteCertificate
    BY <2>3, <1>0, <1>u DEF WriteCertificate, Exit, Fail, Stages, vars, files, trained, Known, Saving, Scoring, Between
  <2>4. CASE WriteReport
    BY <2>4, <1>0, <1>u DEF WriteReport, Exit, Fail, Stages, vars, files, trained, Known, Saving, Scoring, Between
  <2>5. CASE WritePage
    BY <2>5, <1>0, <1>u DEF WritePage, Exit, Fail, Stages, vars, files, trained, Known, Saving, Scoring, Between
  <2> QED
    BY <1>4, <2>1, <2>2, <2>3, <2>4, <2>5 DEF Reporting
<1>5. CASE ProbeIncorrect
  BY <1>5, <1>0, <1>u DEF ProbeIncorrect, Exit, Fail, Stages, vars, files, trained, Known, Saving, Scoring, Between
<1>6. CASE OutOfMemory
  BY <1>6, <1>0, <1>u DEF OutOfMemory, Exit, Fail, Stages, vars, files, trained, Known, Saving, Scoring, Between
<1>7. CASE Crash
  BY <1>7, <1>0, <1>u DEF Crash, Exit, Fail, Stages, vars, files, trained, Known, Saving, Scoring, Between
<1>8. ASSUME NEW stage \in Stages, StartByHand(stage) PROVE SavedCurve'
  BY <1>8, <1>0, <1>u DEF StartByHand, Exit, Fail, Stages, vars, files, trained, Known, Saving, Scoring, Between
<1>9. CASE UNCHANGED vars
  BY <1>9, <1>0, <1>u DEF Exit, Fail, Stages, vars, files, trained, Known, Saving, Scoring, Between
<1> QED
  BY <1>1, <1>2, <1>3, <1>4, <1>5, <1>6, <1>7, <1>8, <1>9 DEF Next, Work, Fault

\* The state in memory follows the saved one.
LEMMA HeldCurveStep == IInv /\ [Next]_vars => HeldCurve'
<1> SUFFICES ASSUME IInv, [Next]_vars PROVE HeldCurve'
  OBVIOUS
<1> Types /\ Chain /\ Place /\ SavedCurve /\ HeldCurve
  BY DEF IInv
<1>u. UNCHANGED checkpoints => CompleteRounds' = CompleteRounds
  BY DEF CompleteRounds, Complete, checkpoints
<1>0. ASSUME pc' \in Stages \union {"idle", "report", "page", "load", "initial"} PROVE HeldCurve'
  BY <1>0 DEF HeldCurve, Saving, Between, Scoring, Stages
<1> USE DEF At, Goto
<1>1. CASE ScriptStarts
  BY <1>1, <1>0 DEF ScriptStarts, Exit, Fail, Stages
<1>2. CASE ProbeMicrobatch
  BY <1>2, <1>0 DEF ProbeMicrobatch, Exit, Fail, Stages
<1>3. CASE Training
  <2>1. CASE Train
    BY <2>1, <1>0 DEF Train, Exit, Fail, Stages
  <2>2. CASE TrainRefuses
    BY <2>2, <1>0 DEF TrainRefuses, Exit, Fail, Stages
  <2>3. CASE Initialise
    BY <2>3, <1>0 DEF Initialise, Exit, Fail, Stages
  <2>4. CASE Initialised
    <3>1. CompleteRounds' = {} /\ saved' = NoState
      BY <2>4, <1>u DEF Initialised, Place, SavedCurve
    <3>2. Fresh'
      BY <2>4, <3>1 DEF Initialised, Fresh, NoState, operator
    <3> QED
      BY <2>4, <3>1, <3>2 DEF Initialised, HeldCurve, Saving, Scoring, Between
  <2>5. CASE Load
    <3>1. CASE Loadable
      <4>1. Restore
        BY <2>5, <3>1 DEF Load
      <4>2. round' = Latest
        BY <4>1 DEF Restore
      <4>3. /\ state'.done = round' /\ Curve(state', round') /\ Len(state'.rows) \in {round', round' + 1}
            /\ saved' = state' \/ (saved' = NoState /\ round' = 0 /\ state'.rows = <<>>)
        BY <3>1, <4>1, <4>2, RestoreCurve, ConstantsAssumption
      <4>4. pc' = "loaded"
        BY <2>5, <3>1 DEF Load
      <4> QED
        BY <4>3, <4>4 DEF HeldCurve, Saving, Scoring, Between
    <3>2. CASE ~Loadable
      BY <2>5, <3>2, <1>0 DEF Load, Refuse, Exit, Fail
    <3> QED
      BY <3>1, <3>2
  <2>6. CASE RestoreResumed
    <3>1. CASE Loadable
      <4>1. Restore
        BY <2>6, <3>1 DEF RestoreResumed
      <4>2. round' = Latest
        BY <4>1 DEF Restore
      <4>3. Latest = round
        BY <2>6, <3>1 DEF RestoreResumed, Loadable
      <4>4. saved = state /\ state.done = round /\ Curve(state, round) /\ Len(state.rows) = round + 1
        BY <2>6 DEF RestoreResumed, HeldCurve, Between
      <4>5. state' = saved
        BY <3>1, <4>1, <4>3, <4>4, RestoreCurve, ConstantsAssumption
      <4>6. saved' = saved
        BY <3>1, <4>1, <4>3, <4>4, RestoreCurve, ConstantsAssumption
      <4>7. pc' \in {"next", "finish"}
        BY <2>6, <3>1 DEF RestoreResumed
      <4> QED
        BY <4>2, <4>3, <4>4, <4>5, <4>6, <4>7 DEF HeldCurve, Saving, Scoring, Between
    <3>2. CASE ~Loadable
      BY <2>6, <3>2, <1>0 DEF RestoreResumed, Refuse, Exit, Fail
    <3> QED
      BY <3>1, <3>2
  <2>7. CASE Reload
    <3>1. CASE Loadable
      <4>1. Restore
        BY <2>7, <3>1 DEF Reload
      <4>2. round' = Latest
        BY <4>1 DEF Restore
      <4>3. Latest = round
        BY <2>7, <3>1 DEF Reload, Loadable
      <4>4. saved = state /\ state.done = round /\ Curve(state, round) /\ Len(state.rows) = round + 1
        BY <2>7 DEF Reload, HeldCurve, Between
      <4>5. state' = saved
        BY <3>1, <4>1, <4>3, <4>4, RestoreCurve, ConstantsAssumption
      <4>6. saved' = saved
        BY <3>1, <4>1, <4>3, <4>4, RestoreCurve, ConstantsAssumption
      <4>7. pc' \in {"next", "finish"}
        BY <2>7, <3>1 DEF Reload
      <4> QED
        BY <4>2, <4>3, <4>4, <4>5, <4>6, <4>7 DEF HeldCurve, Saving, Scoring, Between
    <3>2. CASE ~Loadable
      BY <2>7, <3>2, <1>0 DEF Reload, Refuse, Exit, Fail
    <3> QED
      BY <3>1, <3>2
  <2>8. CASE Base
    <3>1. Fresh /\ saved = NoState
      BY <2>8 DEF Base, Place, HeldCurve, Curve, Types, Rounds
    <3>2. state' = [state EXCEPT !.probes = <<0>>] /\ UNCHANGED <<saved, round>> /\ pc' = "model"
      BY <2>8 DEF Base, files, trained
    <3>3. /\ state'.probes = <<0>> /\ state'.rows = <<>> /\ state'.norms = <<>> /\ state'.done = 0
          /\ round' = 0
      BY <3>1, <3>2 DEF Fresh, Types, State
    <3>4. Curve(state', round') /\ Len(state'.rows) = round'
      BY <3>3 DEF Curve, InOrder
    <3>5. saved'.done = round' - 1 /\ Len(saved'.rows) = round'
      BY <3>1, <3>2, <3>3, EmptyCurve DEF NoRound
    <3> QED
      BY <3>2, <3>3, <3>4, <3>5 DEF HeldCurve, Saving, Scoring, Between
  <2>9. CASE Resume
    <3>1. /\ state.done = round /\ Curve(state, round) /\ Len(state.rows) \in {round, round + 1}
          /\ saved = state \/ (saved = NoState /\ round = 0 /\ state.rows = <<>>)
      BY <2>9 DEF Resume, HeldCurve, Fresh
    <3>2. UNCHANGED <<saved, state, round>>
      BY <2>9 DEF Resume, files, trained
    <3>3. round \in Nat /\ Len(state.rows) \in Nat
      BY <3>1, ConstantsAssumption DEF Types, Rounds
    <3>4. CASE round \in Evaluated
      <4>1. PICK k \in 1..Len(state.rows) : state.rows[k].round = round
        BY <3>4 DEF Evaluated, RowsOf, Types, State
      <4>2. k - 1 = round
        BY <3>1, <4>1 DEF Curve, InOrder
      <4>3. Len(state.rows) = round + 1 /\ state.rows # <<>>
        BY <3>1, <3>3, <4>1, <4>2
      <4>4. pc' = "next"
        BY <2>9, <3>4 DEF Resume
      <4> QED
        BY <3>1, <3>2, <4>3, <4>4 DEF HeldCurve, Saving, Scoring, Between
    <3>5. CASE round \notin Evaluated
      <4>1. ASSUME Len(state.rows) = round + 1 PROVE FALSE
        <5>1. round + 1 \in 1..Len(state.rows)
          BY <3>3, <4>1
        <5>2. state.rows[round + 1].round = round
          BY <3>1, <3>3, <5>1 DEF Curve, InOrder
        <5> QED
          BY <3>5, <5>1, <5>2 DEF Evaluated, RowsOf, Types, State
      <4>2. pc' = "evaluate"
        BY <2>9, <3>5 DEF Resume
      <4> QED
        BY <3>1, <3>2, <4>1, <4>2 DEF HeldCurve, Saving, Scoring, Between
    <3> QED
      BY <3>4, <3>5
  <2>10. CASE TrainRound
    <3>1. state.done = round /\ Curve(state, round) /\ Len(state.rows) = round + 1 /\ saved = state
      BY <2>10 DEF TrainRound, HeldCurve, Between
    <3>2. /\ round' = round + 1 /\ saved' = saved /\ pc' = "model" /\ phase' = "loop"
          /\ state' = [state EXCEPT !.probes = Append(@, round + 1), !.norms = Append(@, round + 1)]
      BY <2>10 DEF TrainRound, files, trained
    <3>3. round \in Nat /\ round + 1 \in Rounds
      BY <2>10, ConstantsAssumption DEF TrainRound, Types, Rounds
    <3>4. Curve(state', round') /\ state'.rows = state.rows
      BY <3>1, <3>2, <3>3, CurveTrained, ConstantsAssumption DEF Types
    <3>5. saved'.done = round' - 1 /\ Len(saved'.rows) = round' /\ Len(state'.rows) = round'
      BY <3>1, <3>2, <3>3, <3>4
    <3> QED
      BY <3>2, <3>4, <3>5 DEF HeldCurve, Saving, Scoring, Between
  <2>11. CASE SaveModel
    <3>1. UNCHANGED <<process, saved>> /\ pc' \in {"optimizer", "marker"}
      BY <2>11, SaveFrame
    <3>2. Saving
      BY <2>11 DEF SaveModel, Saving
    <3> QED
      BY <3>1, <3>2 DEF HeldCurve, process, Saving, Scoring, Between
  <2>12. CASE SaveOptimizer
    <3>1. UNCHANGED <<process, saved>> /\ pc' \in {"optimizer", "marker"}
      BY <2>12, SaveFrame
    <3>2. Saving
      BY <2>12 DEF SaveOptimizer, Saving
    <3> QED
      BY <3>1, <3>2 DEF HeldCurve, process, Saving, Scoring, Between
  <2>13. CASE SaveMarker
    <3>1. UNCHANGED <<process, saved>> /\ pc' = AfterSave
      BY <2>13, MarkerFrame
    <3>2. Saving /\ (phase = "base" => round = 0)
      BY <2>13 DEF SaveMarker, Place, Saving
    <3>3. CASE phase = "base"
      <4>1. saved = NoState
        BY <3>2, <3>3 DEF HeldCurve, SavedCurve, NoRound
      <4> QED
        BY <3>1, <3>2, <3>3, <4>1 DEF AfterSave, HeldCurve, process, Saving, Scoring, Between
    <3>4. CASE phase # "base"
      BY <3>1, <3>2, <3>4 DEF AfterSave, HeldCurve, process, Saving, Scoring, Between
    <3> QED
      BY <3>3, <3>4
  <2>14. CASE SaveState
    <3>1. Curve(state, round) /\ Len(state.rows) = round
      BY <2>14 DEF SaveState, HeldCurve
    <3>2. /\ saved' = state' /\ state'.done = round /\ state'.rows = state.rows
          /\ state'.probes = state.probes /\ state'.norms = state.norms
          /\ round' = round /\ pc' = "evaluate"
      BY <2>14 DEF SaveState, Types, State
    <3>3. Curve(state', round')
      BY <3>1, <3>2 DEF Curve
    <3> QED
      BY <3>1, <3>2, <3>3 DEF HeldCurve, Saving, Scoring, Between
  <2>15. CASE Evaluate
    BY <2>15 DEF Evaluate, process, HeldCurve, Saving, Scoring, Between
  <2>16. CASE AppendRow
    <3>1. Curve(state, round) /\ Len(state.rows) = round /\ state.done = round /\ round \in Nat
      BY <2>16, ConstantsAssumption DEF AppendRow, HeldCurve, Scoring, Types, Rounds
    <3>2. NewRow \in Row /\ NewRow.round = round
      BY DEF NewRow, Row, Types, Models, Markers, Predictions, Weights
    <3>3. Curve(state', round) /\ Len(state'.rows) = round + 1 /\ state'.done = round
      BY <2>16, <3>1, <3>2, CurveWithRow DEF AppendRow, Types
    <3>4. saved' = state' /\ round' = round /\ pc' \in {"loaded", "restore", "reload"}
      BY <2>16 DEF AppendRow, Types
    <3> QED
      BY <3>3, <3>4 DEF HeldCurve, Saving, Scoring, Between
  <2>17. CASE Finish
    BY <2>17, <1>0 DEF Finish, Exit, Fail, Stages
  <2> QED
    BY <1>3, <2>1, <2>2, <2>3, <2>4, <2>5, <2>6, <2>7, <2>8, <2>9, <2>10, <2>11, <2>12, <2>13, <2>14, <2>15, <2>16, <2>17 DEF Training
<1>4. CASE Reporting
  <2>1. CASE EvaluateDirectional
    BY <2>1, <1>0 DEF EvaluateDirectional, Exit, Fail, Stages
  <2>2. CASE MissingInput
    BY <2>2, <1>0 DEF MissingInput, Exit, Fail, Stages
  <2>3. CASE WriteCertificate
    BY <2>3, <1>0 DEF WriteCertificate, Exit, Fail, Stages
  <2>4. CASE WriteReport
    BY <2>4, <1>0 DEF WriteReport, Exit, Fail, Stages
  <2>5. CASE WritePage
    BY <2>5, <1>0 DEF WritePage, Exit, Fail, Stages
  <2> QED
    BY <1>4, <2>1, <2>2, <2>3, <2>4, <2>5 DEF Reporting
<1>5. CASE ProbeIncorrect
  BY <1>5, <1>0 DEF ProbeIncorrect, Exit, Fail, Stages
<1>6. CASE OutOfMemory
  BY <1>6, <1>0 DEF OutOfMemory, Exit, Fail, Stages
<1>7. CASE Crash
  BY <1>7, <1>0 DEF Crash, Exit, Fail, Stages
<1>8. ASSUME NEW stage \in Stages, StartByHand(stage) PROVE HeldCurve'
  BY <1>8, <1>0 DEF StartByHand, Exit, Fail, Stages
<1>9. CASE UNCHANGED vars
  BY <1>9, <1>u DEF vars, files, trained, process, operator, HeldCurve, Fresh, Saving, Scoring, Between
<1> QED
  BY <1>1, <1>2, <1>3, <1>4, <1>5, <1>6, <1>7, <1>8, <1>9 DEF Next, Work, Fault

\* Predictions and rows stay with their checkpoint, which is not written again.
LEMMA ScoredStep == IInv /\ [Next]_vars => Scored'
<1> SUFFICES ASSUME IInv, [Next]_vars PROVE Scored'
  OBVIOUS
<1> Types /\ Chain /\ Place /\ SavedCurve /\ HeldCurve /\ Scored
  BY DEF IInv
<1>u. UNCHANGED checkpoints => CompleteRounds' = CompleteRounds
  BY DEF CompleteRounds, Complete, checkpoints
<1>0. ASSUME CompleteRounds \subseteq CompleteRounds', \A r \in CompleteRounds : model'[r] = model[r],
             preds' = preds, pc' # "row",
             saved'.rows \in {saved.rows, state.rows}, summary'.rows \in {summary.rows, state.rows},
             state'.rows \in {state.rows, saved.rows, <<>>}
      PROVE  Scored'
  <2> DEFINE BackedNow(rows) ==
        \A k \in 1..Len(rows) :
           /\ rows[k].round \in CompleteRounds'
           /\ rows[k].checkpoint = rows[k].scored /\ rows[k].scored = model'[rows[k].round].by
  <2>1. \A rows : Backed(rows) => BackedNow(rows)
    BY <1>0 DEF Backed
  <2>2. Backed(state.rows) /\ Backed(saved.rows) /\ Backed(summary.rows) /\ Backed(<<>>)
    BY DEF Scored, Backed
  <2> HIDE DEF BackedNow
  <2>3. BackedNow(saved'.rows) /\ BackedNow(summary'.rows) /\ BackedNow(state'.rows)
    BY <1>0, <2>1, <2>2
  <2>5. Backed(saved.rows)' /\ Backed(summary.rows)' /\ Backed(state.rows)'
    BY <2>3 DEF Backed, BackedNow
  <2>4. \A r \in Rounds : preds'[r].by # 0 => r \in CompleteRounds' /\ preds'[r].by = model'[r].by
    BY <1>0 DEF Scored
  <2> QED
    BY <1>0, <2>4, <2>5 DEF Scored
<1>m. UNCHANGED checkpoints =>
       CompleteRounds \subseteq CompleteRounds' /\ \A r \in CompleteRounds : model'[r] = model[r]
  BY <1>u DEF checkpoints
<1>e. NoState.rows = <<>>
  BY DEF NoState
<1> USE DEF At, Goto
<1>1. CASE ScriptStarts
  BY <1>1, <1>0, <1>m, <1>e DEF ScriptStarts, Exit, Fail, Stages, files, trained, process
<1>2. CASE ProbeMicrobatch
  BY <1>2, <1>0, <1>m, <1>e DEF ProbeMicrobatch, Exit, Fail, Stages, files, trained, process
<1>3. CASE Training
  <2>1. CASE Train
    BY <2>1, <1>0, <1>m, <1>e DEF Train, Exit, Fail, Stages, files, trained, process
  <2>2. CASE TrainRefuses
    BY <2>2, <1>0, <1>m, <1>e DEF TrainRefuses, Exit, Fail, Stages, files, trained, process
  <2>3. CASE Initialise
    BY <2>3, <1>0, <1>m, <1>e DEF Initialise, Exit, Fail, Stages, files, trained, process
  <2>4. CASE Initialised
    <3>1. state'.rows = <<>>
      BY <2>4 DEF Initialised, NoState
    <3> QED
      BY <2>4, <3>1, <1>0, <1>m DEF Initialised
  <2>5. CASE Load
    <3>1. CASE Loadable
      <4>1. Restore
        BY <2>5, <3>1 DEF Load
      <4>2. round' = Latest
        BY <4>1 DEF Restore
      <4>3. /\ saved'.rows \in {saved.rows, <<>>} \/ saved'.rows = state'.rows
            /\ state'.rows \in {saved.rows, <<>>}
        <5>1. CASE saved = NoState
          BY <3>1, <4>1, <5>1, RestoreCurve, ConstantsAssumption, <1>e DEF Restore, Resumed, Read, Loadable
        <5>2. CASE saved # NoState
          BY <3>1, <4>1, <5>2, RestoreCurve, ConstantsAssumption, <1>e
        <5> QED
          BY <5>1, <5>2
      <4>4. saved'.rows = saved.rows
        BY <3>1, <4>1, <4>3, RestoreCurve, ConstantsAssumption, <1>e
      <4>5. UNCHANGED <<checkpoints, preds, summary>> /\ pc' # "row"
        BY <2>5, <3>1, <4>1 DEF Load, Restore
      <4> QED
        BY <4>3, <4>4, <4>5, <1>0, <1>m
    <3>2. CASE ~Loadable
      BY <2>5, <3>2, <1>0, <1>m, <1>e DEF Load, Refuse, Exit, Fail, files, trained
    <3> QED
      BY <3>1, <3>2
  <2>6. CASE RestoreResumed
    <3>1. CASE Loadable
      <4>1. Restore
        BY <2>6, <3>1 DEF RestoreResumed
      <4>2. round' = Latest
        BY <4>1 DEF Restore
      <4>3. /\ saved'.rows \in {saved.rows, <<>>} \/ saved'.rows = state'.rows
            /\ state'.rows \in {saved.rows, <<>>}
        <5>1. CASE saved = NoState
          BY <3>1, <4>1, <5>1, RestoreCurve, ConstantsAssumption, <1>e DEF Restore, Resumed, Read, Loadable
        <5>2. CASE saved # NoState
          BY <3>1, <4>1, <5>2, RestoreCurve, ConstantsAssumption, <1>e
        <5> QED
          BY <5>1, <5>2
      <4>4. saved'.rows = saved.rows
        BY <3>1, <4>1, <4>3, RestoreCurve, ConstantsAssumption, <1>e
      <4>5. UNCHANGED <<checkpoints, preds, summary>> /\ pc' # "row"
        BY <2>6, <3>1, <4>1 DEF RestoreResumed, Restore
      <4> QED
        BY <4>3, <4>4, <4>5, <1>0, <1>m
    <3>2. CASE ~Loadable
      BY <2>6, <3>2, <1>0, <1>m, <1>e DEF RestoreResumed, Refuse, Exit, Fail, files, trained
    <3> QED
      BY <3>1, <3>2
  <2>7. CASE Reload
    <3>1. CASE Loadable
      <4>1. Restore
        BY <2>7, <3>1 DEF Reload
      <4>2. round' = Latest
        BY <4>1 DEF Restore
      <4>3. /\ saved'.rows \in {saved.rows, <<>>} \/ saved'.rows = state'.rows
            /\ state'.rows \in {saved.rows, <<>>}
        <5>1. CASE saved = NoState
          BY <3>1, <4>1, <5>1, RestoreCurve, ConstantsAssumption, <1>e DEF Restore, Resumed, Read, Loadable
        <5>2. CASE saved # NoState
          BY <3>1, <4>1, <5>2, RestoreCurve, ConstantsAssumption, <1>e
        <5> QED
          BY <5>1, <5>2
      <4>4. saved'.rows = saved.rows
        BY <3>1, <4>1, <4>3, RestoreCurve, ConstantsAssumption, <1>e
      <4>5. UNCHANGED <<checkpoints, preds, summary>> /\ pc' # "row"
        BY <2>7, <3>1, <4>1 DEF Reload, Restore
      <4> QED
        BY <4>3, <4>4, <4>5, <1>0, <1>m
    <3>2. CASE ~Loadable
      BY <2>7, <3>2, <1>0, <1>m, <1>e DEF Reload, Refuse, Exit, Fail, files, trained
    <3> QED
      BY <3>1, <3>2
  <2>8. CASE Base
    <3>1. state'.rows = state.rows
      BY <2>8 DEF Base, Types, State
    <3> QED
      BY <2>8, <3>1, <1>0, <1>m DEF Base, files, trained
  <2>9. CASE Resume
    BY <2>9, <1>0, <1>m, <1>e DEF Resume, Exit, Fail, Stages, files, trained, process
  <2>10. CASE TrainRound
    <3>1. state'.rows = state.rows
      BY <2>10 DEF TrainRound, Types, State
    <3> QED
      BY <2>10, <3>1, <1>0, <1>m DEF TrainRound, files, trained
  <2>11. CASE SaveModel
    <3>1. \A r \in CompleteRounds : model'[r] = model[r]
      BY <2>11, SaveFrame DEF CompleteRounds
    <3> QED
      BY <2>11, <3>1, <1>0, SaveFrame DEF SaveModel, process
  <2>12. CASE SaveOptimizer
    <3>1. \A r \in CompleteRounds : model'[r] = model[r]
      BY <2>12, SaveFrame DEF CompleteRounds
    <3> QED
      BY <2>12, <3>1, <1>0, SaveFrame DEF SaveOptimizer, process
  <2>13. CASE SaveMarker
    BY <2>13, <1>0, MarkerFrame DEF SaveMarker, AfterSave, process
  <2>14. CASE SaveState
    <3>1. state'.rows = state.rows
      BY <2>14 DEF SaveState, Types, State
    <3> QED
      BY <2>14, <3>1, <1>0, <1>m DEF SaveState, files, trained
  <2>15. CASE Evaluate
    <3>1. round \in CompleteRounds /\ round \in Rounds
      BY <2>15 DEF Evaluate, Place, Scoring, Types
    <3>2. UNCHANGED <<checkpoints, saved, state, summary, round>> /\ CompleteRounds' = CompleteRounds /\ model' = model
      BY <2>15, <1>u DEF Evaluate, process, checkpoints
    <3>3. model[round].by # 0
      BY <3>1 DEF CompleteRounds, Complete
    <3>4. /\ preds'[round].by # 0 /\ preds'[round].by = model[round].by
          /\ \A r \in Rounds : r # round => preds'[r] = preds[r]
      BY <2>15, <3>1, <3>3 DEF Evaluate, Scored, Types, Predictions
    <3>5. \A r \in Rounds : preds'[r].by # 0 => r \in CompleteRounds' /\ preds'[r].by = model'[r].by
      BY <3>1, <3>2, <3>4 DEF Scored
    <3>6. Backed(saved.rows)' /\ Backed(summary.rows)' /\ Backed(state.rows)'
      BY <3>2 DEF Scored, Backed
    <3> QED
      BY <3>2, <3>4, <3>5, <3>6 DEF Scored
  <2>16. CASE AppendRow
    <3>1. /\ round \in CompleteRounds /\ round \in Rounds /\ preds[round].by = model[round].by
      BY <2>16 DEF AppendRow, Place, Scoring, Types, Scored
    <3>2. /\ UNCHANGED <<checkpoints, preds, summary>> /\ CompleteRounds' = CompleteRounds
          /\ model' = model /\ saved' = state' /\ pc' # "row"
      BY <2>16, <1>u DEF AppendRow, checkpoints, Types
    <3>3. state'.rows = Append(state.rows, NewRow) /\ state.rows \in Seq(Row)
      BY <2>16 DEF AppendRow, Types, State
    <3>4. NewRow.round = round /\ NewRow.checkpoint = NewRow.scored /\ NewRow.scored = model[round].by
      BY <3>1, MarkerNames DEF NewRow
    <3>5. NewRow \in Row
      BY DEF NewRow, Row, Types, Models, Markers, Predictions, Weights
    <3>6. /\ Len(state'.rows) = Len(state.rows) + 1 /\ Len(state.rows) \in Nat
          /\ \A k \in 1..Len(state.rows) : state'.rows[k] = state.rows[k]
          /\ state'.rows[Len(state.rows) + 1] = NewRow
      BY <3>3, <3>5
    <3>7. ASSUME NEW k \in 1..Len(state'.rows)
         PROVE  /\ state'.rows[k].round \in CompleteRounds
                /\ state'.rows[k].checkpoint = state'.rows[k].scored
                /\ state'.rows[k].scored = model[state'.rows[k].round].by
      <4>1. k \in 1..Len(state.rows) \/ k = Len(state.rows) + 1
        BY <3>6
      <4>2. CASE k \in 1..Len(state.rows)
        BY <3>6, <4>2 DEF Scored, Backed
      <4>3. CASE k = Len(state.rows) + 1
        BY <3>1, <3>4, <3>6, <4>3
      <4> QED
        BY <4>1, <4>2, <4>3
    <3>8. Backed(state.rows)' /\ Backed(saved.rows)'
      BY <3>2, <3>7 DEF Backed
    <3>9. Backed(summary.rows)'
      BY <3>2 DEF Backed, Scored
    <3> QED
      BY <3>2, <3>8, <3>9 DEF Scored
  <2>17. CASE Finish
    <3>1. summary'.rows \in {summary.rows, state.rows}
      BY <2>17 DEF Finish
    <3> QED
      BY <2>17, <3>1, <1>0, <1>m, <1>e DEF Finish, Exit, Fail
  <2> QED
    BY <1>3, <2>1, <2>2, <2>3, <2>4, <2>5, <2>6, <2>7, <2>8, <2>9, <2>10, <2>11, <2>12, <2>13, <2>14, <2>15, <2>16, <2>17 DEF Training
<1>4. CASE Reporting
  <2>1. CASE EvaluateDirectional
    <3>1. summary'.rows = summary.rows
      BY <2>1 DEF EvaluateDirectional, Types, Summaries
    <3> QED
      BY <2>1, <3>1, <1>0, <1>m, <1>e DEF EvaluateDirectional, Exit, Fail
  <2>2. CASE MissingInput
    BY <2>2, <1>0, <1>m, <1>e DEF MissingInput, Exit, Fail, Stages, files, trained, process
  <2>3. CASE WriteCertificate
    BY <2>3, <1>0, <1>m, <1>e DEF WriteCertificate, Exit, Fail, Stages, files, trained, process
  <2>4. CASE WriteReport
    BY <2>4, <1>0, <1>m, <1>e DEF WriteReport, Exit, Fail, Stages, files, trained, process
  <2>5. CASE WritePage
    BY <2>5, <1>0, <1>m, <1>e DEF WritePage, Exit, Fail, Stages, files, trained, process
  <2> QED
    BY <1>4, <2>1, <2>2, <2>3, <2>4, <2>5 DEF Reporting
<1>5. CASE ProbeIncorrect
  BY <1>5, <1>0, <1>m, <1>e DEF ProbeIncorrect, Exit, Fail, Stages, files, trained, process
<1>6. CASE OutOfMemory
  BY <1>6, <1>0, <1>m, <1>e DEF OutOfMemory, Exit, Fail, Stages, files, trained, process
<1>7. CASE Crash
  BY <1>7, <1>0, <1>m, <1>e DEF Crash, Exit, Fail, Stages, files, trained, process
<1>8. ASSUME NEW stage \in Stages, StartByHand(stage) PROVE Scored'
  BY <1>8, <1>0, <1>m, <1>e DEF StartByHand, Exit, Fail, Stages, files, trained, process
<1>9. CASE UNCHANGED vars
  BY <1>9, <1>u DEF vars, files, trained, checkpoints, process, Scored, Backed
<1> QED
  BY <1>1, <1>2, <1>3, <1>4, <1>5, <1>6, <1>7, <1>8, <1>9 DEF Next, Work, Fault

\* A summary is written with a selected round.
LEMMA SummarisedStep == IInv /\ [Next]_vars => Summarised'
<1> SUFFICES ASSUME IInv, [Next]_vars PROVE Summarised'
  OBVIOUS
<1> Types /\ Chain /\ Place /\ SavedCurve /\ HeldCurve /\ Summarised
  BY DEF IInv
<1>0. ASSUME summary' = summary PROVE Summarised'
  BY <1>0 DEF Summarised
<1> USE DEF At, Goto
<1>1. CASE ScriptStarts
  BY <1>1, <1>0 DEF ScriptStarts, vars, files, trained
<1>2. CASE ProbeMicrobatch
  BY <1>2, <1>0 DEF ProbeMicrobatch, vars, files, trained
<1>3. CASE Training
  <2>1. CASE Train
    BY <2>1, <1>0 DEF Train, vars, files, trained
  <2>2. CASE TrainRefuses
    BY <2>2, <1>0 DEF TrainRefuses, vars, files, trained
  <2>3. CASE Initialise
    BY <2>3, <1>0 DEF Initialise, vars, files, trained
  <2>4. CASE Initialised
    BY <2>4, <1>0 DEF Initialised, vars, files, trained
  <2>5. CASE Load
    BY <2>5, <1>0 DEF Load, Restore, Refuse, files, trained
  <2>6. CASE RestoreResumed
    BY <2>6, <1>0 DEF RestoreResumed, Restore, Refuse, files, trained
  <2>7. CASE Reload
    BY <2>7, <1>0 DEF Reload, Restore, Refuse, files, trained
  <2>8. CASE Base
    BY <2>8, <1>0 DEF Base, vars, files, trained
  <2>9. CASE Resume
    BY <2>9, <1>0 DEF Resume, vars, files, trained
  <2>10. CASE TrainRound
    BY <2>10, <1>0 DEF TrainRound, vars, files, trained
  <2>11. CASE SaveModel
    BY <2>11, <1>0 DEF SaveModel
  <2>12. CASE SaveOptimizer
    BY <2>12, <1>0 DEF SaveOptimizer
  <2>13. CASE SaveMarker
    BY <2>13, <1>0 DEF SaveMarker
  <2>14. CASE SaveState
    BY <2>14, <1>0 DEF SaveState, vars, files, trained
  <2>15. CASE Evaluate
    BY <2>15, <1>0 DEF Evaluate, vars, files, trained
  <2>16. CASE AppendRow
    BY <2>16, <1>0 DEF AppendRow, vars, files, trained
  <2>17. CASE Finish
    <3>1. CASE summary' = summary
      BY <3>1, <1>0
    <3>2. CASE summary' # summary
      <4>1. /\ Selected(state.rows) # NoRound
            /\ summary' = [stopped |-> round, selected |-> Selected(state.rows), probes |-> state.probes,
                           rows |-> state.rows, norms |-> state.norms]
        BY <2>17, <3>2 DEF Finish
      <4>2. Curve(state, round) /\ Len(state.rows) = round + 1
        BY <2>17 DEF Finish, HeldCurve, Between
      <4>3. /\ summary'.stopped = round /\ summary'.rows = state.rows /\ summary'.probes = state.probes
        BY <4>1
      <4> QED
        BY <4>1, <4>2, <4>3 DEF Summarised, Curve, InOrder
    <3> QED
      BY <3>1, <3>2
  <2> QED
    BY <1>3, <2>1, <2>2, <2>3, <2>4, <2>5, <2>6, <2>7, <2>8, <2>9, <2>10, <2>11, <2>12, <2>13, <2>14, <2>15, <2>16, <2>17 DEF Training
<1>4. CASE Reporting
  <2>1. CASE EvaluateDirectional
    <3>1. /\ summary'.rows = summary.rows /\ summary'.probes = summary.probes
          /\ summary'.stopped = summary.stopped /\ Selected(summary.rows) # NoRound
      BY <2>1 DEF EvaluateDirectional, Types, Summaries, Summarised
    <3> QED
      BY <3>1 DEF Summarised, InOrder
  <2>2. CASE MissingInput
    BY <2>2, <1>0 DEF MissingInput, vars, files, trained
  <2>3. CASE WriteCertificate
    BY <2>3, <1>0 DEF WriteCertificate, vars, files, trained
  <2>4. CASE WriteReport
    BY <2>4, <1>0 DEF WriteReport, vars, files, trained
  <2>5. CASE WritePage
    BY <2>5, <1>0 DEF WritePage, vars, files, trained
  <2> QED
    BY <1>4, <2>1, <2>2, <2>3, <2>4, <2>5 DEF Reporting
<1>5. CASE ProbeIncorrect
  BY <1>5, <1>0 DEF ProbeIncorrect, vars, files, trained
<1>6. CASE OutOfMemory
  BY <1>6, <1>0 DEF OutOfMemory, vars, files, trained
<1>7. CASE Crash
  BY <1>7, <1>0 DEF Crash, vars, files, trained
<1>8. ASSUME NEW stage \in Stages, StartByHand(stage) PROVE Summarised'
  BY <1>8, <1>0 DEF StartByHand, vars, files, trained
<1>9. CASE UNCHANGED vars
  BY <1>9, <1>0 DEF vars, files, trained
<1> QED
  BY <1>1, <1>2, <1>3, <1>4, <1>5, <1>6, <1>7, <1>8, <1>9 DEF Next, Work, Fault

\* No check of a load or of the directional evaluation can fail.
LEMMA NeverRefusedStep == IInv /\ [Next]_vars => NeverRefused'
<1> SUFFICES ASSUME IInv, [Next]_vars PROVE NeverRefused'
  OBVIOUS
<1> ~refused
  BY DEF IInv, NeverRefused
<1> USE DEF At, Goto, NeverRefused
<1>1. CASE ScriptStarts
  BY <1>1 DEF ScriptStarts, vars
<1>2. CASE ProbeMicrobatch
  BY <1>2 DEF ProbeMicrobatch, vars
<1>3. CASE Training
  <2>1. CASE Train
    BY <2>1 DEF Train, vars
  <2>2. CASE TrainRefuses
    BY <2>2 DEF TrainRefuses, vars
  <2>3. CASE Initialise
    BY <2>3 DEF Initialise, vars
  <2>4. CASE Initialised
    BY <2>4 DEF Initialised, vars
  <2>5. CASE Load
    <3>1. Loadable
      BY <2>5, LoadSucceeds, ConstantsAssumption DEF Load
    <3> QED
      BY <2>5, <3>1 DEF Load, Restore, operator
  <2>6. CASE RestoreResumed
    <3>1. Loadable
      BY <2>6, LoadSucceeds, ConstantsAssumption DEF RestoreResumed
    <3> QED
      BY <2>6, <3>1 DEF RestoreResumed, Restore, operator
  <2>7. CASE Reload
    <3>1. Loadable
      BY <2>7, LoadSucceeds, ConstantsAssumption DEF Reload
    <3> QED
      BY <2>7, <3>1 DEF Reload, Restore, operator
  <2>8. CASE Base
    BY <2>8 DEF Base, vars
  <2>9. CASE Resume
    BY <2>9 DEF Resume, vars
  <2>10. CASE TrainRound
    BY <2>10 DEF TrainRound, vars
  <2>11. CASE SaveModel
    BY <2>11 DEF SaveModel, vars
  <2>12. CASE SaveOptimizer
    BY <2>12 DEF SaveOptimizer, vars
  <2>13. CASE SaveMarker
    BY <2>13 DEF SaveMarker, vars
  <2>14. CASE SaveState
    BY <2>14 DEF SaveState, vars
  <2>15. CASE Evaluate
    BY <2>15 DEF Evaluate, vars
  <2>16. CASE AppendRow
    BY <2>16 DEF AppendRow, vars
  <2>17. CASE Finish
    BY <2>17 DEF Finish, vars
  <2> QED
    BY <1>3, <2>1, <2>2, <2>3, <2>4, <2>5, <2>6, <2>7, <2>8, <2>9, <2>10, <2>11, <2>12, <2>13, <2>14, <2>15, <2>16, <2>17 DEF Training
<1>4. CASE Reporting
  <2>1. CASE EvaluateDirectional
    <3>1. Types /\ Chain /\ Scored /\ Summarised
      BY DEF IInv
    <3>2. Selected(summary.rows) # NoRound /\ summary.rows \in Seq(Row)
      BY <2>1, <3>1 DEF EvaluateDirectional, Summarised, Types, Summaries
    <3>3. PICK k \in 1..Len(summary.rows) : Selected(summary.rows) = summary.rows[k].round
      BY <3>2, SelectedIsRow
    <3>4. Selected(summary.rows) \in CompleteRounds
      BY <3>1, <3>3 DEF Scored, Backed
    <3>5. marker[Selected(summary.rows)].model = model[Selected(summary.rows)]
      BY <3>1, <3>4, MarkerNames
    <3>6. summary'.selected = Selected(summary.rows)
      BY <2>1, <3>1 DEF EvaluateDirectional, Types, Summaries
    <3> QED
      BY <2>1, <3>5, <3>6 DEF EvaluateDirectional
  <2>2. CASE MissingInput
    BY <2>2 DEF MissingInput, vars
  <2>3. CASE WriteCertificate
    BY <2>3 DEF WriteCertificate, vars
  <2>4. CASE WriteReport
    BY <2>4 DEF WriteReport, vars
  <2>5. CASE WritePage
    BY <2>5 DEF WritePage, vars
  <2> QED
    BY <1>4, <2>1, <2>2, <2>3, <2>4, <2>5 DEF Reporting
<1>5. CASE ProbeIncorrect
  BY <1>5 DEF ProbeIncorrect, vars
<1>6. CASE OutOfMemory
  BY <1>6 DEF OutOfMemory, vars
<1>7. CASE Crash
  BY <1>7 DEF Crash, vars
<1>8. ASSUME NEW stage \in Stages, StartByHand(stage) PROVE NeverRefused'
  BY <1>8 DEF StartByHand, vars
<1>9. CASE UNCHANGED vars
  BY <1>9 DEF vars
<1> QED
  BY <1>1, <1>2, <1>3, <1>4, <1>5, <1>6, <1>7, <1>8, <1>9 DEF Next, Work, Fault

\* Every step, or none, keeps the inductive invariant.
LEMMA NextIInv == IInv /\ [Next]_vars => IInv'
  BY TypesStep, ChainStep, PlaceStep, SavedCurveStep, HeldCurveStep, ScoredStep, SummarisedStep,
     NeverRefusedStep DEF IInv

-------------------------------------------------------------------------------
(* Theorems *)

\* The inductive invariant holds in every behaviour.
THEOREM Invariant == Spec => []IInv
  BY InitIInv, NextIInv, PTL DEF Spec

\* Types, for any number of rounds, faults and training processes.
THEOREM TypesCorrect == Spec => []TypeOK
<1>1. IInv => TypeOK
  BY TypesAreTypeOK DEF IInv
<1> QED
  BY Invariant, <1>1, PTL

\* However often training dies between two of its files, the complete checkpoints
\* are one chain, each trained from the one before it.
THEOREM LineageAlways == Spec => []Lineage
<1>1. IInv => Lineage
  BY DEF IInv, Chain
<1> QED
  BY Invariant, <1>1, PTL

\* Every row of the saved curve and of the summary is the score of the checkpoint
\* on disk that its hash names.
THEOREM RowsOnOwnCheckpointAlways == Spec => []RowsOnOwnCheckpoint
<1>1. ASSUME IInv PROVE RowsOnOwnCheckpoint
  <2>1. saved.rows \in Seq(Row) /\ summary.rows \in Seq(Row)
    BY <1>1 DEF IInv, Types, State, Summaries
  <2>2. ASSUME NEW row \in RowsOf(saved.rows) \union RowsOf(summary.rows)
        PROVE  row.checkpoint = row.scored /\ row.scored = model[row.round].by
    <3>1. \/ \E k \in 1..Len(saved.rows) : row = saved.rows[k]
          \/ \E k \in 1..Len(summary.rows) : row = summary.rows[k]
      BY <2>1 DEF RowsOf
    <3> QED
      BY <1>1, <3>1 DEF IInv, Scored, Backed
  <2> QED
    BY <2>2 DEF RowsOnOwnCheckpoint
<1> QED
  BY Invariant, <1>1, PTL

\* Rows that are rounds 0, 1, ... in order.
LEMMA InOrderUpTo ==
  ASSUME NEW rows \in Seq(Row), InOrder(rows)
  PROVE  UpTo(RoundsOf(rows), Len(rows) - 1)
<1>1. \A k \in 1..Len(rows) : rows[k] \in Row
  OBVIOUS
<1>2. \A k \in 1..Len(rows) : rows[k].round \in Rounds
  BY <1>1 DEF Row
<1>3. Len(rows) \in Nat /\ RoundsOf(rows) = [k \in 1..Len(rows) |-> rows[k].round]
  BY DEF RoundsOf
<1>4. RoundsOf(rows) \in Seq(Rounds) /\ Len(RoundsOf(rows)) = Len(rows)
  BY <1>2, <1>3
<1>5. \A k \in DOMAIN RoundsOf(rows) : RoundsOf(rows)[k] = k - 1
  BY <1>3 DEF InOrder
<1> QED
  BY <1>3, <1>4, <1>5 DEF UpTo

\* No crash leaves a gap or a double in the controller curve or the probe curve.
THEOREM CurvesCompleteAlways == Spec => []CurvesComplete
<1>1. ASSUME IInv PROVE CurvesComplete
  <2>1. /\ saved.rows \in Seq(Row) /\ summary.rows \in Seq(Row)
        /\ saved.probes \in Seq(Rounds) /\ saved.norms \in Seq(Rounds)
        /\ summary.probes \in Seq(Rounds) /\ summary.stopped \in Int
    BY <1>1, ConstantsAssumption DEF IInv, Types, State, Summaries, Rounds, NoRound
  <2>2. Curve(saved, saved.done)
    BY <1>1 DEF IInv, SavedCurve
  <2> DEFINE probes == saved.probes
             norms == saved.norms
             last == summary.probes
  <2>d. /\ DOMAIN probes = 1..Len(probes) /\ DOMAIN norms = 1..Len(norms)
        /\ DOMAIN last = 1..Len(last)
    BY <2>1
  <2>3. UpTo(RoundsOf(saved.rows), Len(saved.rows) - 1)
    BY <2>1, <2>2, InOrderUpTo DEF Curve
  <2>4. UpTo(saved.probes, saved.done)
    BY <2>d, <2>2 DEF Curve, UpTo
  <2>5. \A j, k \in DOMAIN saved.norms : j < k => saved.norms[j] < saved.norms[k]
    BY <2>d, <2>2 DEF Curve
  <2>6. Len(summary.rows) = summary.stopped + 1 /\ InOrder(summary.rows)
    BY <1>1 DEF IInv, Summarised
  <2>7. UpTo(RoundsOf(summary.rows), Len(summary.rows) - 1)
    BY <2>1, <2>6, InOrderUpTo
  <2>8. Len(summary.rows) - 1 = summary.stopped
    BY <2>1, <2>6
  <2>9. UpTo(summary.probes, summary.stopped)
    BY <1>1, <2>d DEF IInv, Summarised, UpTo
  <2> QED
    BY <2>3, <2>4, <2>5, <2>7, <2>8, <2>9 DEF CurvesComplete
<1> QED
  BY Invariant, <1>1, PTL

\* No consistency check of a load or of the directional evaluation ever fails.
THEOREM NeverRefusedAlways == Spec => []NeverRefused
<1>1. IInv => NeverRefused
  BY DEF IInv
<1> QED
  BY Invariant, <1>1, PTL

-------------------------------------------------------------------------------
(* What the script certifies *)

\* The stage of the script that a place belongs to.
StageOf(place) ==
    IF place \in {"report", "page"} THEN "summarize"
    ELSE IF place \in Stages THEN place ELSE "train"

\* A stage by hand runs before the script or after it, so the stage that runs inside
\* it is its step, and what a later step reads is what the earlier ones of the same
\* repetition of the script have written.
Orderly ==
    /\ byHand => step \in {"probe-microbatch", "over"}
    /\ ~byHand /\ pc # "idle" => step = StageOf(pc)
    /\ step \in {"evaluate-directional", "summarize", "done"} => summary.rows = saved.rows
    /\ step \in {"summarize", "done"} =>
          /\ summary.selected = Selected(saved.rows)
          /\ evaluation = [round |-> summary.selected, by |-> model[summary.selected].by]
    /\ (~byHand /\ pc \in {"report", "page"}) \/ step = "done" => certificate = Document
    /\ (~byHand /\ pc = "page") \/ step = "done" => report = Document
    /\ step = "done" => page = Document

\* The script's own repetitions keep their files together.
LEMMA OrderlyStep == IInv /\ Orderly /\ [Next]_vars => Orderly'
<1> SUFFICES ASSUME IInv, Orderly, [Next]_vars PROVE Orderly'
  OBVIOUS
<1> Types /\ Scored /\ Summarised
  BY DEF IInv
<1>0. ASSUME step' \in {"train", "probe-microbatch", "over"},
             byHand' => step' \in {"probe-microbatch", "over"},
             ~byHand' /\ pc' # "idle" => step' = StageOf(pc')
      PROVE  Orderly'
  BY <1>0 DEF Orderly, StageOf
<1>h. ASSUME byHand, step' = step, byHand' = byHand \/ (~byHand' /\ pc' = "idle") PROVE Orderly'
  <2>1. step \in {"probe-microbatch", "over"} /\ (~byHand' => pc' = "idle")
    BY <1>h DEF Orderly
  <2> QED
    BY <1>h, <1>0, <2>1
<1>f. ASSUME Fail PROVE Orderly'
  BY <1>f, <1>h, <1>0 DEF Fail, Exit
<1>t. ASSUME pc # "idle", StageOf(pc) = "train", UNCHANGED <<step, byHand>>,
             pc' # "idle", StageOf(pc') = "train"
      PROVE  Orderly'
  BY <1>t, <1>h, <1>0 DEF Orderly
<1> USE DEF At, Goto
<1>1. CASE ScriptStarts
  <2>1. CASE byHand
    BY <1>1, <2>1, <1>h DEF ScriptStarts, operator
  <2>2. CASE ~byHand
    BY <1>1, <2>2 DEF ScriptStarts, Orderly, StageOf, Stages, Document, files, trained, checkpoints, documents, operator
  <2> QED
    BY <2>1, <2>2
<1>2. CASE ProbeMicrobatch
  <2>1. CASE byHand
    BY <1>2, <2>1, <1>h DEF ProbeMicrobatch, Exit, Fail
  <2>2. CASE ~byHand
    BY <1>2, <2>2, <1>0 DEF ProbeMicrobatch, Exit, Fail
  <2> QED
    BY <2>1, <2>2
<1>3. CASE Training
  <2>1. CASE Train
    BY <2>1, <1>t DEF Train, operator, Places, Stages, StageOf
  <2>2. CASE TrainRefuses
    BY <2>2, <1>f DEF TrainRefuses
  <2>3. CASE Initialise
    BY <2>3, <1>t DEF Initialise, operator, Places, Stages, StageOf
  <2>4. CASE Initialised
    BY <2>4, <1>t DEF Initialised, operator, Places, Stages, StageOf
  <2>5. CASE Load
    <3>1. CASE Loadable
      BY <2>5, <3>1, <1>t DEF Load, Restore, operator, Places, Stages, StageOf
    <3>2. CASE ~Loadable
      BY <2>5, <3>2, <1>f DEF Load, Refuse
    <3> QED
      BY <3>1, <3>2
  <2>6. CASE RestoreResumed
    <3>1. CASE Loadable
      BY <2>6, <3>1, <1>t DEF RestoreResumed, Restore, operator, Places, Stages, StageOf
    <3>2. CASE ~Loadable
      BY <2>6, <3>2, <1>f DEF RestoreResumed, Refuse
    <3> QED
      BY <3>1, <3>2
  <2>7. CASE Reload
    <3>1. CASE Loadable
      BY <2>7, <3>1, <1>t DEF Reload, Restore, operator, Places, Stages, StageOf
    <3>2. CASE ~Loadable
      BY <2>7, <3>2, <1>f DEF Reload, Refuse
    <3> QED
      BY <3>1, <3>2
  <2>8. CASE Base
    BY <2>8, <1>t DEF Base, operator, Places, Stages, StageOf
  <2>9. CASE Resume
    BY <2>9, <1>t DEF Resume, operator, Places, Stages, StageOf
  <2>10. CASE TrainRound
    BY <2>10, <1>t DEF TrainRound, operator, Places, Stages, StageOf
  <2>11. CASE SaveModel
    BY <2>11, <1>t DEF SaveModel, operator, Places, Stages, StageOf, AfterSave
  <2>12. CASE SaveOptimizer
    BY <2>12, <1>t DEF SaveOptimizer, operator, Places, Stages, StageOf
  <2>13. CASE SaveMarker
    BY <2>13, <1>t DEF SaveMarker, operator, Places, Stages, StageOf, AfterSave
  <2>14. CASE SaveState
    BY <2>14, <1>t DEF SaveState, operator, Places, Stages, StageOf
  <2>15. CASE Evaluate
    BY <2>15, <1>t DEF Evaluate, operator, Places, Stages, StageOf
  <2>16. CASE AppendRow
    <3>1. pc' \in {"loaded", "restore", "reload"}
      BY <2>16 DEF AppendRow, Types
    <3> QED
      BY <2>16, <3>1, <1>t DEF AppendRow, operator, Places, Stages, StageOf
  <2>17. CASE Finish
    <3>1. CASE Selected(state.rows) = NoRound
      BY <2>17, <3>1, <1>f DEF Finish
    <3>2. CASE Selected(state.rows) # NoRound
      <4>1. summary'.rows = saved'.rows
        BY <2>17, <3>2 DEF Finish
      <4>2. Exit("evaluate-directional")
        BY <2>17, <3>2 DEF Finish
      <4>3. CASE byHand
        BY <4>2, <4>3, <1>h DEF Exit
      <4>4. CASE ~byHand
        BY <4>1, <4>2, <4>4 DEF Exit, Orderly
      <4> QED
        BY <4>3, <4>4
    <3> QED
      BY <3>1, <3>2
  <2> QED
    BY <1>3, <2>1, <2>2, <2>3, <2>4, <2>5, <2>6, <2>7, <2>8, <2>9, <2>10, <2>11, <2>12, <2>13, <2>14, <2>15, <2>16, <2>17 DEF Training
<1>4. CASE Reporting
  <2>1. CASE EvaluateDirectional
    <3>1. CASE ~Exit("summarize")
      BY <2>1, <3>1, <1>f DEF EvaluateDirectional
    <3>2. CASE Exit("summarize") /\ ~Fail
      <4>1. /\ summary'.selected = Selected(summary.rows) /\ summary'.rows = summary.rows
            /\ UNCHANGED <<model, saved>>
        BY <2>1 DEF EvaluateDirectional, Types, Summaries, checkpoints
      <4>2. /\ marker[summary'.selected].model = model[summary'.selected]
            /\ evaluation' = [round |-> summary'.selected, by |-> marker[summary'.selected].model.by]
        BY <2>1, <3>2 DEF EvaluateDirectional
      <4>3. CASE byHand
        BY <3>2, <4>3, <1>h DEF Exit
      <4>4. CASE ~byHand
        <5>1. summary.rows = saved.rows
          BY <2>1, <4>4 DEF EvaluateDirectional, Orderly, StageOf, Stages
        <5> QED
          BY <3>2, <4>1, <4>2, <4>4, <5>1 DEF Exit, Orderly
      <4> QED
        BY <4>3, <4>4
    <3> QED
      BY <2>1, <3>1, <3>2, <1>f DEF EvaluateDirectional
  <2>2. CASE MissingInput
    BY <2>2, <1>f DEF MissingInput
  <2>3. CASE WriteCertificate
    <3>1. CASE byHand
      BY <2>3, <3>1, <1>h DEF WriteCertificate, operator
    <3>2. CASE ~byHand
      BY <2>3, <3>2 DEF WriteCertificate, Orderly, StageOf, Stages, Document, trained, checkpoints, operator
    <3> QED
      BY <3>1, <3>2
  <2>4. CASE WriteReport
    <3>1. CASE byHand
      BY <2>4, <3>1, <1>h DEF WriteReport, operator
    <3>2. CASE ~byHand
      BY <2>4, <3>2 DEF WriteReport, Orderly, StageOf, Stages, Document, trained, checkpoints, operator
    <3> QED
      BY <3>1, <3>2
  <2>5. CASE WritePage
    <3>1. CASE byHand
      BY <2>5, <3>1, <1>h DEF WritePage, Exit
    <3>2. CASE ~byHand
      BY <2>5, <3>2 DEF WritePage, Exit, Orderly, StageOf, Stages, Document, trained, checkpoints
    <3> QED
      BY <3>1, <3>2
  <2> QED
    BY <1>4, <2>1, <2>2, <2>3, <2>4, <2>5 DEF Reporting
<1>5. CASE ProbeIncorrect
  BY <1>5, <1>f DEF ProbeIncorrect
<1>6. CASE OutOfMemory
  BY <1>6, <1>f DEF OutOfMemory
<1>7. CASE Crash
  BY <1>7, <1>f DEF Crash
<1>8. ASSUME NEW stage \in Stages, StartByHand(stage) PROVE Orderly'
  BY <1>8, <1>0 DEF StartByHand, Types
<1>9. CASE UNCHANGED vars
  BY <1>9 DEF vars, files, trained, checkpoints, documents, process, operator, Orderly, Document
<1> QED
  BY <1>1, <1>2, <1>3, <1>4, <1>5, <1>6, <1>7, <1>8, <1>9 DEF Next, Work, Fault

\* Certificate, report and page of a script that got through name the round that
\* the curve selects and the checkpoint this round has on disk.
THEOREM ScriptCertifiesSelectedAlways == Spec => []ScriptCertifiesSelected
<1>1. Init => Orderly
  BY DEF Init, Orderly
<1>2. Orderly => ScriptCertifiesSelected
  <2> SUFFICES ASSUME Orderly, step = "done"
               PROVE  /\ certificate = report /\ report = page
                      /\ page.selected = Selected(saved.rows)
                      /\ page.round = page.selected /\ page.by = model[page.selected].by
    BY DEF ScriptCertifiesSelected
  <2>1. certificate = Document /\ report = Document /\ page = Document
    BY DEF Orderly
  <2>2. /\ summary.selected = Selected(saved.rows)
        /\ evaluation = [round |-> summary.selected, by |-> model[summary.selected].by]
    BY DEF Orderly
  <2>3. page.selected = summary.selected /\ page.round = evaluation.round /\ page.by = evaluation.by
    BY <2>1 DEF Document
  <2> QED
    BY <2>1, <2>2, <2>3
<1> QED
  BY Invariant, OrderlyStep, <1>1, <1>2, PTL DEF Spec

-------------------------------------------------------------------------------
(* The stop rule *)

\* The rows in memory are those in the file while a checkpoint is saved.
RowsHeld == Saving \/ pc = "state" => state.rows = saved.rows

\* The saved rows change only when a row is appended.
LEMMA SavedRowsStep ==
  IInv /\ RowsHeld /\ [Next]_vars => RowsHeld' /\ (AppendRow \/ saved'.rows = saved.rows)
<1> SUFFICES ASSUME IInv, RowsHeld, [Next]_vars
             PROVE  RowsHeld' /\ (AppendRow \/ saved'.rows = saved.rows)
  OBVIOUS
<1> Types /\ Chain /\ Place /\ SavedCurve /\ HeldCurve
  BY DEF IInv
<1>0. ASSUME pc' \notin {"model", "optimizer", "marker", "state"}, saved' = saved
      PROVE  RowsHeld' /\ saved'.rows = saved.rows
  BY <1>0 DEF RowsHeld, Saving
<1>s. ASSUME state'.rows = state.rows, saved' = saved, Saving \/ pc = "state" \/ saved.rows = state.rows
      PROVE  RowsHeld' /\ saved'.rows = saved.rows
  BY <1>s DEF RowsHeld, Saving
<1>e. NoState.rows = <<>>
  BY DEF NoState
<1>r. ASSUME Loadable, Restore, pc' \notin {"model", "optimizer", "marker", "state"}
      PROVE  RowsHeld' /\ saved'.rows = saved.rows
  <2>1. CASE saved = NoState
    BY <1>r, <2>1, RestoreCurve, ConstantsAssumption, <1>e DEF Restore, Resumed, Read, Loadable, RowsHeld, Saving
  <2>2. CASE saved # NoState
    BY <1>r, <2>2, RestoreCurve, ConstantsAssumption, <1>e DEF RowsHeld, Saving
  <2> QED
    BY <2>1, <2>2
<1> USE DEF At, Goto
<1>1. CASE ScriptStarts
  BY <1>1, <1>0 DEF ScriptStarts, Stages, files, trained
<1>2. CASE ProbeMicrobatch
  BY <1>2, <1>0 DEF ProbeMicrobatch, Exit, Fail, trained
<1>3. CASE Training
  <2>1. CASE Train
    BY <2>1, <1>0 DEF Train, Exit, Fail, Stages, files, trained
  <2>2. CASE TrainRefuses
    BY <2>2, <1>0 DEF TrainRefuses, Exit, Fail, Stages, files, trained
  <2>3. CASE Initialise
    BY <2>3, <1>0 DEF Initialise, Exit, Fail, Stages, files, trained
  <2>4. CASE Initialised
    BY <2>4, <1>0 DEF Initialised, Exit, Fail, Stages, files, trained
  <2>5. CASE Load
    <3>1. CASE Loadable
      BY <2>5, <3>1, <1>r DEF Load
    <3>2. CASE ~Loadable
      BY <2>5, <3>2, <1>0 DEF Load, Refuse, Exit, Fail, files, trained
    <3> QED
      BY <3>1, <3>2
  <2>6. CASE RestoreResumed
    <3>1. CASE Loadable
      BY <2>6, <3>1, <1>r DEF RestoreResumed
    <3>2. CASE ~Loadable
      BY <2>6, <3>2, <1>0 DEF RestoreResumed, Refuse, Exit, Fail, files, trained
    <3> QED
      BY <3>1, <3>2
  <2>7. CASE Reload
    <3>1. CASE Loadable
      BY <2>7, <3>1, <1>r DEF Reload
    <3>2. CASE ~Loadable
      BY <2>7, <3>2, <1>0 DEF Reload, Refuse, Exit, Fail, files, trained
    <3> QED
      BY <3>1, <3>2
  <2>8. CASE Base
    <3>1. state'.rows = state.rows /\ saved' = saved
      BY <2>8 DEF Base, Types, State, files, trained
    <3>2. saved.rows = state.rows
      BY <2>8, <1>e DEF Base, HeldCurve, Fresh, Curve, Types, Rounds
    <3> QED
      BY <3>1, <3>2, <1>s
  <2>9. CASE Resume
    BY <2>9, <1>0 DEF Resume, Exit, Fail, Stages, files, trained
  <2>10. CASE TrainRound
    <3>1. state'.rows = state.rows /\ saved' = saved
      BY <2>10 DEF TrainRound, Types, State, files, trained
    <3>2. saved.rows = state.rows
      BY <2>10 DEF TrainRound, HeldCurve, Between
    <3> QED
      BY <3>1, <3>2, <1>s
  <2>11. CASE SaveModel
    BY <2>11, <1>s DEF SaveModel, process, Saving
  <2>12. CASE SaveOptimizer
    BY <2>12, <1>s DEF SaveOptimizer, process, Saving
  <2>13. CASE SaveMarker
    BY <2>13, <1>s DEF SaveMarker, process, Saving
  <2>14. CASE SaveState
    <3>1. saved'.rows = state.rows /\ pc' = "evaluate"
      BY <2>14 DEF SaveState, Types, State
    <3> QED
      BY <2>14, <3>1 DEF SaveState, RowsHeld, Saving
  <2>15. CASE Evaluate
    BY <2>15, <1>0 DEF Evaluate, Exit, Fail, Stages, files, trained
  <2>16. CASE AppendRow
    BY <2>16 DEF AppendRow, RowsHeld, Saving
  <2>17. CASE Finish
    <3>1. saved' = saved /\ pc' = "idle"
      BY <2>17 DEF Finish, Exit, Fail, HeldCurve, Between
    <3> QED
      BY <3>1, <1>0
  <2> QED
    BY <1>3, <2>1, <2>2, <2>3, <2>4, <2>5, <2>6, <2>7, <2>8, <2>9, <2>10, <2>11, <2>12, <2>13, <2>14, <2>15, <2>16, <2>17 DEF Training
<1>4. CASE Reporting
  <2>1. CASE EvaluateDirectional
    BY <2>1, <1>0 DEF EvaluateDirectional, Exit, Fail, files, trained
  <2>2. CASE MissingInput
    BY <2>2, <1>0 DEF MissingInput, Exit, Fail, files, trained
  <2>3. CASE WriteCertificate
    BY <2>3, <1>0 DEF WriteCertificate, Exit, Fail, files, trained
  <2>4. CASE WriteReport
    BY <2>4, <1>0 DEF WriteReport, Exit, Fail, files, trained
  <2>5. CASE WritePage
    BY <2>5, <1>0 DEF WritePage, Exit, Fail, files, trained
  <2> QED
    BY <1>4, <2>1, <2>2, <2>3, <2>4, <2>5 DEF Reporting
<1>5. CASE ProbeIncorrect
  BY <1>5, <1>0 DEF ProbeIncorrect, Exit, Fail, trained
<1>6. CASE OutOfMemory
  BY <1>6, <1>0 DEF OutOfMemory, Exit, Fail, trained
<1>7. CASE Crash
  BY <1>7, <1>0 DEF Crash, Exit, Fail, files, trained
<1>8. ASSUME NEW stage \in Stages, StartByHand(stage)
      PROVE  RowsHeld' /\ saved'.rows = saved.rows
  BY <1>8, <1>0 DEF StartByHand, Stages, files, trained
<1>9. CASE UNCHANGED vars
  BY <1>9 DEF vars, files, trained, process, RowsHeld, Saving
<1> QED
  BY <1>1, <1>2, <1>3, <1>4, <1>5, <1>6, <1>7, <1>8, <1>9 DEF Next, Work, Fault

\* The lengths at which a curve said stop.
StopsOf(rows) == {k \in 1..Len(rows) : Surface08Stops(SubSeq(rows, 1, k))}

\* The next row belongs to a checkpoint that is complete.
Lacking == IF Len(saved.rows) \in CompleteRounds THEN 1 ELSE 0

\* How many more processes than stops there are at least, from where training is.
Slack ==
    IF pc \in {"load", "initial", "loaded"} THEN 1 + Lacking
    ELSE IF Saving \/ pc \in {"state", "next", "restore"} THEN 1
    ELSE IF Scoring THEN (IF phase = "resume" THEN 2 ELSE 1)
    ELSE IF pc \in {"reload", "finish"} THEN 0
    ELSE Lacking

\* Every process appends at most one row on which the rule says stop and goes on
\* from it at most once.
Heeding == StopsHeeded /\ Cardinality(StopsOf(saved.rows)) + Slack <= launches

\* The stops of a curve are finitely many.
LEMMA StopsFinite ==
  ASSUME NEW rows \in Seq(Row)
  PROVE  IsFiniteSet(StopsOf(rows)) /\ Cardinality(StopsOf(rows)) \in Nat
<1>1. Len(rows) \in Nat /\ IsFiniteSet(1..Len(rows))
  BY FS_Interval
<1>2. StopsOf(rows) \subseteq 1..Len(rows)
  BY DEF StopsOf
<1> QED
  BY <1>1, <1>2, FS_Subset, FS_CardinalityType

\* A further row adds at most one stop, and all but it are followed by a row.
LEMMA StopsOfAppended ==
  ASSUME NEW rows \in Seq(Row), NEW row \in Row
  PROVE  /\ {k \in 1..(Len(Append(rows, row)) - 1) : Surface08Stops(SubSeq(Append(rows, row), 1, k))}
              = StopsOf(rows)
         /\ Cardinality(StopsOf(Append(rows, row))) <= Cardinality(StopsOf(rows)) + 1
<1> DEFINE longer == Append(rows, row)
<1>1. longer \in Seq(Row) /\ Len(longer) = Len(rows) + 1 /\ Len(rows) \in Nat
  OBVIOUS
<1>2. \A k \in 1..Len(rows) : longer[k] = rows[k]
  OBVIOUS
<1>3. ASSUME NEW k \in 1..Len(rows) PROVE SubSeq(longer, 1, k) = SubSeq(rows, 1, k)
  <2>1. \A i \in 1..k : longer[i] = rows[i]
    BY <1>1, <1>2
  <2> QED
    BY <1>1, <2>1
<1> HIDE DEF longer
<1>4. {k \in 1..(Len(longer) - 1) : Surface08Stops(SubSeq(longer, 1, k))} = StopsOf(rows)
  <2>1. 1..(Len(longer) - 1) = 1..Len(rows)
    BY <1>1
  <2> QED
    BY <2>1, <1>3 DEF StopsOf
<1>5. StopsOf(longer) \subseteq StopsOf(rows) \union {Len(longer)}
  <2>1. \A k \in 1..Len(longer) : k \in 1..Len(rows) \/ k = Len(longer)
    BY <1>1
  <2> QED
    BY <2>1, <1>3 DEF StopsOf
<1>6. /\ IsFiniteSet(StopsOf(rows) \union {Len(longer)})
      /\ Cardinality(StopsOf(rows) \union {Len(longer)}) <= Cardinality(StopsOf(rows)) + 1
      /\ Cardinality(StopsOf(rows)) \in Nat
  <2>1. IsFiniteSet(StopsOf(rows)) /\ Cardinality(StopsOf(rows)) \in Nat
    BY StopsFinite
  <2>2. /\ IsFiniteSet(StopsOf(rows) \union {Len(longer)})
        /\ Cardinality(StopsOf(rows) \union {Len(longer)})
              \in {Cardinality(StopsOf(rows)), Cardinality(StopsOf(rows)) + 1}
    BY <2>1, FS_AddElement
  <2> QED
    BY <2>1, <2>2
<1>7. Cardinality(StopsOf(longer)) <= Cardinality(StopsOf(rows) \union {Len(longer)})
  BY <1>5, <1>6, FS_Subset
<1>8. Cardinality(StopsOf(longer)) \in Nat /\ Cardinality(StopsOf(rows) \union {Len(longer)}) \in Nat
  BY <1>1, <1>6, StopsFinite, FS_CardinalityType
<1>9. Cardinality(StopsOf(longer)) <= Cardinality(StopsOf(rows)) + 1
  BY <1>6, <1>7, <1>8
<1> QED
  BY <1>4, <1>9 DEF longer

\* A curve that does not say stop has only stops that were overrun.
LEMMA NoStopAtEnd ==
  ASSUME NEW rows \in Seq(Row), ~Surface08Stops(rows)
  PROVE  {k \in 1..(Len(rows) - 1) : Surface08Stops(SubSeq(rows, 1, k))} = StopsOf(rows)
<1>1. Len(rows) \in Nat
  OBVIOUS
<1>2. SubSeq(rows, 1, Len(rows)) = rows
  BY SubSeqFull
<1>3. \A n \in Nat : \A k \in 1..n : k \in 1..(n - 1) \/ k = n
  OBVIOUS
<1>4. \A n \in Nat : \A k \in 1..(n - 1) : k \in 1..n
  OBVIOUS
<1>5. ASSUME NEW k \in StopsOf(rows) PROVE k \in 1..(Len(rows) - 1)
  BY <1>1, <1>2, <1>3 DEF StopsOf
<1>6. ASSUME NEW k \in 1..(Len(rows) - 1) PROVE k \in 1..Len(rows)
  BY <1>1, <1>4
<1> QED
  BY <1>5, <1>6, Zenon DEF StopsOf

\* The row of the base model alone never says stop.
LEMMA BaseDoesNotStop ==
  ASSUME NEW row \in Row, row.round = 0
  PROVE  StopsOf(<<row>>) = {}
<1>1. SubSeq(<<row>>, 1, 1) = <<row>> /\ RowsOf(<<row>>) = {row}
  <2>1. <<row>> \in Seq(Row) /\ Len(<<row>>) = 1 /\ DOMAIN <<row>> = {1} /\ <<row>>[1] = row
    OBVIOUS
  <2>2. SubSeq(<<row>>, 1, 1) = <<row>>
    BY <2>1, SubSeqFull
  <2>3. \A x : x \in RowsOf(<<row>>) <=> \E k \in {1} : x = <<row>>[k]
    BY <2>1 DEF RowsOf
  <2> QED
    BY <2>1, <2>2, <2>3
<1>2. ~Surface08Stops(<<row>>)
  BY <1>1 DEF Surface08Stops
<1>3. \A k \in 1..Len(<<row>>) : k = 1
  OBVIOUS
<1> QED
  BY <1>1, <1>2, <1>3 DEF StopsOf

\* A process that ends has a launch for each stop and for the row that lacks.
LEMMA SlackCoversLacking ==
  ASSUME Types, Place, HeldCurve PROVE Slack \in 0..2 /\ Lacking \in 0..1 /\ Lacking <= Slack
<1>1. Lacking \in 0..1
  BY DEF Lacking
<1>2. CASE pc \in {"reload", "finish"}
  <2>1. Len(saved.rows) = round + 1 /\ \A q \in CompleteRounds : q <= round
    BY <1>2 DEF HeldCurve, Between, Place, Known
  <2>2. Lacking = 0
    BY <2>1, ConstantsAssumption DEF Lacking, Types, Rounds
  <2> QED
    BY <1>2, <2>2 DEF Slack, Saving, Scoring
<1>3. CASE pc \notin {"reload", "finish"}
  BY <1>1, <1>3 DEF Slack
<1> QED
  BY <1>1, <1>2, <1>3

\* No process goes on past a stop that it finds itself.
LEMMA HeedingStep == IInv /\ RowsHeld /\ Heeding /\ [Next]_vars => Heeding'
<1> SUFFICES ASSUME IInv, RowsHeld, Heeding, [Next]_vars PROVE Heeding'
  OBVIOUS
<1> Types /\ Chain /\ Place /\ SavedCurve /\ HeldCurve
  BY DEF IInv
<1>h. IInv' /\ RowsHeld' /\ (AppendRow \/ saved'.rows = saved.rows)
  BY NextIInv, SavedRowsStep
<1>n. /\ Cardinality(StopsOf(saved.rows)) \in Nat /\ launches \in Nat /\ launches' \in Nat
      /\ Slack \in 0..2 /\ Lacking \in 0..1 /\ Lacking <= Slack
      /\ Slack' \in 0..2 /\ saved.rows \in Seq(Row)
  <2>1. saved.rows \in Seq(Row)
    BY DEF Types, State
  <2>2. Slack \in 0..2 /\ Lacking \in 0..1 /\ Lacking <= Slack
    BY SlackCoversLacking
  <2>3. Lacking' \in 0..1
    BY DEF Lacking
  <2>4. Slack' \in 0..2
    <3>1. Slack' \in {0, 1, 2, Lacking', 1 + Lacking'}
      BY DEF Slack
    <3>2. \A l \in {0, 1} : \A x \in {0, 1, 2, l, 1 + l} : x \in 0..2
      OBVIOUS
    <3>3. Lacking' \in {0, 1}
      BY DEF Lacking
    <3> QED
      BY <3>1, <3>2, <3>3
  <2> QED
    BY <2>1, <2>2, <2>4, StopsFinite, <1>h DEF IInv, Types
<1>c. /\ Cardinality(StopsOf(saved.rows)) + Slack <= launches
      /\ Cardinality(Overruns) <= (IF launches = 0 THEN 0 ELSE launches - 1)
      /\ Cardinality(Overruns) \in Nat
  <2>1. Overruns \subseteq StopsOf(saved.rows)
    BY <1>n DEF Overruns, StopsOf
  <2>2. IsFiniteSet(Overruns)
    BY <1>n, <2>1, StopsFinite, FS_Subset
  <2>3. Cardinality(Overruns) \in Nat
    BY <2>2, FS_CardinalityType
  <2> QED
    BY <2>3 DEF Heeding, StopsHeeded
<1>0. ASSUME saved'.rows = saved.rows,
             \/ launches' = launches /\ Slack' <= Slack
             \/ launches' = launches + 1 /\ Slack' <= Slack + 1
      PROVE  Heeding'
  <2>1. StopsOf(saved.rows)' = StopsOf(saved.rows) /\ Overruns' = Overruns
    BY <1>0 DEF StopsOf, Overruns
  <2>2. Cardinality(StopsOf(saved.rows)) + Slack' <= launches'
    BY <1>0, <1>n, <1>c
  <2>3. Cardinality(Overruns) <= (IF launches' = 0 THEN 0 ELSE launches' - 1)
    BY <1>0, <1>n, <1>c
  <2> QED
    BY <2>1, <2>2, <2>3 DEF Heeding, StopsHeeded
<1>l. UNCHANGED checkpoints /\ saved'.rows = saved.rows => Lacking' = Lacking
  BY DEF Lacking, CompleteRounds, Complete, checkpoints
\* A step that leaves training and keeps the files.
<1>q. ASSUME UNCHANGED checkpoints, saved'.rows = saved.rows, launches' = launches,
             pc' \in Stages \union {"idle", "report", "page"}
      PROVE  Heeding'
  <2>1. Slack' = Lacking'
    BY <1>q DEF Slack, Stages, Saving, Scoring
  <2> QED
    BY <1>0, <1>l, <1>n, <1>q, <2>1
<1> USE DEF At, Goto
<1>1. CASE ScriptStarts
  BY <1>1, <1>q DEF ScriptStarts, Exit, Fail, files, trained, checkpoints, operator
<1>2. CASE ProbeMicrobatch
  BY <1>2, <1>q DEF ProbeMicrobatch, Exit, Fail, files, trained, checkpoints, operator
<1>3. CASE Training
  <2>1. CASE Train
    <3>1. Slack = Lacking /\ Slack' = 1 + Lacking'
      BY <2>1 DEF Train, Slack, Saving, Scoring, Stages
    <3>2. UNCHANGED checkpoints /\ saved'.rows = saved.rows /\ launches' = launches + 1
      BY <2>1 DEF Train, files, trained
    <3>s. launches' = launches + 1 /\ Slack' <= Slack + 1
      BY <3>1, <3>2, <1>l, <1>n
    <3> QED
      BY <3>s, <3>1, <3>2, <1>0
  <2>2. CASE TrainRefuses
    BY <2>2, <1>q DEF TrainRefuses, Exit, Fail, files, trained
  <2>3. CASE Initialise
    <3>1. Slack = 1 + Lacking /\ Slack' = 1 + Lacking'
      BY <2>3 DEF Initialise, Slack, Saving, Scoring, Stages
    <3>2. UNCHANGED checkpoints /\ saved'.rows = saved.rows /\ launches' = launches
      BY <2>3 DEF Initialise, operator
    <3>s. Slack' <= Slack
      BY <3>1, <3>2, <1>l, <1>n
    <3> QED
      BY <3>s, <3>1, <3>2, <1>0
  <2>4. CASE Initialised
    <3>1. Slack = 1 + Lacking /\ Slack' = 1 + Lacking'
      BY <2>4 DEF Initialised, Slack, Saving, Scoring, Stages
    <3>2. UNCHANGED checkpoints /\ saved'.rows = saved.rows /\ launches' = launches
      BY <2>4 DEF Initialised, operator
    <3>s. Slack' <= Slack
      BY <3>1, <3>2, <1>l, <1>n
    <3> QED
      BY <3>s, <3>1, <3>2, <1>0
  <2>5. CASE Load
    <3>1. CASE Loadable
      <4>1. UNCHANGED checkpoints /\ saved'.rows = saved.rows /\ launches' = launches /\ Restore
        BY <2>5, <3>1, <1>h DEF Load, AppendRow, Restore, operator
      <4>2. Slack = 1 + Lacking /\ Slack' = 1 + Lacking'
        BY <2>5, <3>1 DEF Load, Slack, Saving, Scoring, Stages
      <4>s. Slack' <= Slack
        BY <4>1, <4>2, <1>l, <1>n
      <4> QED
        BY <4>s, <4>1, <4>2, <1>0
    <3>2. CASE ~Loadable
      BY <2>5, <3>2, <1>q DEF Load, Refuse, Exit, Fail, files, trained
    <3> QED
      BY <3>1, <3>2
  <2>6. CASE RestoreResumed
    <3>1. CASE Loadable
      <4>1. UNCHANGED checkpoints /\ saved'.rows = saved.rows /\ launches' = launches /\ Restore
        BY <2>6, <3>1, <1>h DEF RestoreResumed, AppendRow, Restore, operator
      <4>2. Slack = 1 /\ Slack' = 1
        BY <2>6, <3>1 DEF RestoreResumed, Slack, Saving, Scoring, Stages
      <4> QED
        BY <4>1, <4>2, <1>0
    <3>2. CASE ~Loadable
      BY <2>6, <3>2, <1>q DEF RestoreResumed, Refuse, Exit, Fail, files, trained
    <3> QED
      BY <3>1, <3>2
  <2>7. CASE Reload
    <3>1. CASE Loadable
      <4>1. UNCHANGED checkpoints /\ saved'.rows = saved.rows /\ launches' = launches /\ Restore
        BY <2>7, <3>1, <1>h DEF Reload, AppendRow, Restore, operator
      <4>2. CASE pc' = "finish"
        <5>1. Slack = 0 /\ Slack' = 0
          BY <2>7, <4>2 DEF Reload, Slack, Saving, Scoring, Stages
        <5> QED
          BY <4>1, <5>1, <1>0
      <4>3. CASE pc' = "next"
        <5>1. saved = state /\ saved # NoState
          <6>1. Len(saved.rows) = round + 1 /\ saved = state /\ round \in Nat
            BY <2>7, ConstantsAssumption DEF Reload, HeldCurve, Between, Types, Rounds
          <6> QED
            BY <6>1 DEF NoState
        <5>2. state'.rows = saved.rows
          BY <4>1, <3>1, <5>1, RestoreCurve, ConstantsAssumption
        <5>3. ~Surface08Stops(state.rows)
          BY <2>7, <3>1, <4>3 DEF Reload
        <5>4. Overruns = StopsOf(saved.rows)
          BY <1>n, <5>1, <5>3, NoStopAtEnd DEF Overruns
        <5>5. launches > 0 /\ Slack' = 1
          BY <2>7, <4>3 DEF Reload, Place, Known, Between, Slack, Saving, Scoring, Stages
        <5>6. Cardinality(StopsOf(saved.rows)) + 1 <= launches'
          BY <1>n, <1>c, <4>1, <5>4, <5>5
        <5>7. StopsOf(saved.rows)' = StopsOf(saved.rows) /\ Overruns' = Overruns
          BY <4>1 DEF StopsOf, Overruns
        <5> QED
          BY <4>1, <5>5, <5>6, <5>7, <1>c DEF Heeding, StopsHeeded
      <4> QED
        BY <2>7, <3>1, <4>2, <4>3 DEF Reload
    <3>2. CASE ~Loadable
      BY <2>7, <3>2, <1>q DEF Reload, Refuse, Exit, Fail, files, trained
    <3> QED
      BY <3>1, <3>2
  <2>8. CASE Base
    <3>1. Slack = 1 + Lacking /\ Slack' = 1
      BY <2>8 DEF Base, Slack, Saving, Scoring, Stages
    <3>2. saved'.rows = saved.rows /\ launches' = launches
      BY <2>8 DEF Base, files, trained, operator
    <3>s. Slack' <= Slack
      BY <3>1, <3>2, <1>n
    <3> QED
      BY <3>s, <3>1, <3>2, <1>0
  <2>9. CASE Resume
    <3>1. saved'.rows = saved.rows /\ launches' = launches /\ Slack = 1 + Lacking
      BY <2>9 DEF Resume, files, trained, operator, Slack, Saving, Scoring, Stages
    <3>2. CASE pc' = "next"
      <4>1. Slack' = 1
        BY <3>2 DEF Slack, Saving, Scoring, Stages
      <4>s. Slack' <= Slack
        BY <3>1, <4>1, <1>n
      <4> QED
        BY <4>s, <3>1, <4>1, <1>0
    <3>3. CASE pc' = "evaluate" /\ round \notin Evaluated
      <4>1. /\ state.done = round /\ Curve(state, round) /\ Len(state.rows) \in {round, round + 1}
            /\ saved.rows = state.rows /\ round \in CompleteRounds
        BY <2>9 DEF Resume, HeldCurve, Place, Fresh, NoState
      <4>2. round \in Nat /\ state.rows \in Seq(Row)
        BY ConstantsAssumption DEF Types, State, Rounds
      <4>3. Len(state.rows) # round + 1
        <5> SUFFICES ASSUME Len(state.rows) = round + 1 PROVE FALSE
          OBVIOUS
        <5>1. round + 1 \in DOMAIN state.rows /\ state.rows[round + 1].round = round
          BY <4>1, <4>2 DEF Curve, InOrder
        <5>2. state.rows[round + 1] \in RowsOf(state.rows)
          BY <5>1 DEF RowsOf
        <5>3. round \in Evaluated
          BY <5>1, <5>2 DEF Evaluated
        <5> QED
          BY <3>3, <5>3
      <4>4. Lacking = 1
        BY <4>1, <4>3 DEF Lacking
      <4>s. Slack' <= Slack
        BY <3>1, <4>4, <1>n
      <4> QED
        BY <4>s, <3>1, <4>4, <1>0
    <3> QED
      BY <2>9, <3>2, <3>3 DEF Resume
  <2>10. CASE TrainRound
    <3>1. saved'.rows = saved.rows /\ launches' = launches
      BY <2>10, <1>h DEF TrainRound, AppendRow, files, trained, operator
    <3>2. Slack = 1 /\ Slack' = 1
      BY <2>10 DEF TrainRound, Slack, Saving, Scoring, Stages
    <3> QED
      BY <3>1, <3>2, <1>0
  <2>11. CASE SaveModel
    <3>1. saved'.rows = saved.rows /\ launches' = launches
      BY <2>11, <1>h DEF SaveModel, AppendRow, files, trained, operator
    <3>2. Slack = 1 /\ Slack' = 1
      BY <2>11 DEF SaveModel, Slack, Saving, Scoring, Stages, AfterSave, Place, process
    <3> QED
      BY <3>1, <3>2, <1>0
  <2>12. CASE SaveOptimizer
    <3>1. saved'.rows = saved.rows /\ launches' = launches
      BY <2>12, <1>h DEF SaveOptimizer, AppendRow, files, trained, operator
    <3>2. Slack = 1 /\ Slack' = 1
      BY <2>12 DEF SaveOptimizer, Slack, Saving, Scoring, Stages
    <3> QED
      BY <3>1, <3>2, <1>0
  <2>13. CASE SaveMarker
    <3>1. saved'.rows = saved.rows /\ launches' = launches
      BY <2>13, <1>h DEF SaveMarker, AppendRow, files, trained, operator
    <3>2. Slack = 1 /\ Slack' = 1
      BY <2>13 DEF SaveMarker, Slack, Saving, Scoring, Stages, AfterSave, Place, process
    <3> QED
      BY <3>1, <3>2, <1>0
  <2>14. CASE SaveState
    <3>1. saved'.rows = saved.rows /\ launches' = launches
      BY <2>14, <1>h DEF SaveState, AppendRow, files, trained, operator
    <3>2. Slack = 1 /\ Slack' = 1
      BY <2>14 DEF SaveState, Slack, Saving, Scoring, Stages, Place
    <3> QED
      BY <3>1, <3>2, <1>0
  <2>15. CASE Evaluate
    <3>1. saved'.rows = saved.rows /\ launches' = launches
      BY <2>15 DEF Evaluate, operator
    <3>2. Slack' = Slack
      BY <2>15 DEF Evaluate, process, Slack, Saving, Scoring, Stages
    <3>s. Slack' <= Slack
      BY <3>1, <3>2, <1>n
    <3> QED
      BY <3>s, <3>1, <3>2, <1>0
  <2>16. CASE AppendRow
    <3>1. /\ saved'.rows = Append(state.rows, NewRow) /\ launches' = launches /\ phase' = phase
          /\ UNCHANGED checkpoints /\ round' = round
      BY <2>16 DEF AppendRow, Types, State, operator
    <3>2. NewRow \in Row /\ state.rows \in Seq(Row) /\ NewRow.round = round
      BY DEF NewRow, Row, Types, State, Models, Markers, Predictions, Weights
    <3>3. saved.rows = state.rows /\ Len(state.rows) = round
      <4>1. Len(state.rows) = round /\ (saved = state \/ (saved = NoState /\ round = 0))
        BY <2>16 DEF AppendRow, HeldCurve, Scoring
      <4>2. round = 0 => state.rows = <<>>
        BY <4>1, <3>2
      <4> QED
        BY <4>1, <4>2 DEF NoState
    <3>4. /\ Overruns' = StopsOf(saved.rows)
          /\ Cardinality(StopsOf(saved.rows)') <= Cardinality(StopsOf(saved.rows)) + 1
      BY <3>1, <3>2, <3>3, StopsOfAppended DEF Overruns
    <3>5. Cardinality(StopsOf(saved.rows)') \in Nat
      <4>1. saved'.rows \in Seq(Row)
        BY <3>1, <3>2
      <4> QED
        BY <4>1, StopsFinite
    <3>6. /\ Slack = (IF phase = "resume" THEN 2 ELSE 1) /\ launches > 0
          /\ pc' = (CASE phase = "base" -> "loaded" [] phase = "resume" -> "restore" [] phase = "loop" -> "reload")
      BY <2>16 DEF AppendRow, Place, Known, Slack, Saving, Scoring, Stages
    <3>7. StopsHeeded'
      BY <3>1, <3>4, <3>6, <1>n, <1>c DEF StopsHeeded
    <3>8. CASE phase = "base"
      <4>1. round = 0 /\ state.rows = <<>>
        BY <2>16, <3>2, <3>3, <3>8 DEF AppendRow, Place, Scoring
      <4>2. saved'.rows = <<NewRow>> /\ Len(saved'.rows) = 1
        BY <3>1, <4>1
      <4>3. Cardinality(StopsOf(saved.rows)') = 0
        BY <3>2, <4>1, <4>2, BaseDoesNotStop, FS_EmptySet
      <4>4. Lacking' = 0
        <5>1. CompleteRounds' = CompleteRounds /\ \A r \in CompleteRounds : r <= 0
          BY <2>16, <3>1, <4>1 DEF AppendRow, Place, Known, Scoring, checkpoints, CompleteRounds, Complete
        <5> QED
          BY <4>2, <5>1 DEF Lacking
      <4>5. Slack' = 1
        BY <3>6, <3>8, <4>4 DEF Slack, Saving, Scoring, Stages
      <4> QED
        BY <3>1, <3>6, <3>7, <4>3, <4>5, <1>n DEF Heeding
    <3>9. CASE phase = "resume"
      <4>1. Slack' = 1
        BY <3>6, <3>9 DEF Slack, Saving, Scoring, Stages
      <4> QED
        BY <3>1, <3>4, <3>5, <3>6, <3>7, <3>9, <4>1, <1>n, <1>c DEF Heeding
    <3>10. CASE phase = "loop"
      <4>1. Slack' = 0
        BY <3>6, <3>10 DEF Slack, Saving, Scoring, Stages
      <4> QED
        BY <3>1, <3>4, <3>5, <3>6, <3>7, <3>10, <4>1, <1>n, <1>c DEF Heeding
    <3> QED
      BY <3>8, <3>9, <3>10 DEF Types
  <2>17. CASE Finish
    BY <2>17, <1>h, <1>q DEF Finish, AppendRow, Exit, Fail
  <2> QED
    BY <1>3, <2>1, <2>2, <2>3, <2>4, <2>5, <2>6, <2>7, <2>8, <2>9, <2>10, <2>11, <2>12, <2>13, <2>14, <2>15, <2>16, <2>17 DEF Training
<1>4. CASE Reporting
  <2>1. CASE EvaluateDirectional
    BY <2>1, <1>q DEF EvaluateDirectional, Exit, Fail, files, trained, checkpoints, operator
  <2>2. CASE MissingInput
    BY <2>2, <1>q DEF MissingInput, Exit, Fail, files, trained, checkpoints, operator
  <2>3. CASE WriteCertificate
    BY <2>3, <1>q DEF WriteCertificate, Exit, Fail, files, trained, checkpoints, operator
  <2>4. CASE WriteReport
    BY <2>4, <1>q DEF WriteReport, Exit, Fail, files, trained, checkpoints, operator
  <2>5. CASE WritePage
    BY <2>5, <1>q DEF WritePage, Exit, Fail, files, trained, checkpoints, operator
  <2> QED
    BY <1>4, <2>1, <2>2, <2>3, <2>4, <2>5 DEF Reporting
<1>5. CASE ProbeIncorrect
  BY <1>5, <1>q DEF ProbeIncorrect, Exit, Fail, files, trained, checkpoints, operator
<1>6. CASE OutOfMemory
  BY <1>6, <1>q DEF OutOfMemory, Exit, Fail, files, trained, checkpoints, operator
<1>7. CASE Crash
  BY <1>7, <1>q DEF Crash, Exit, Fail, files, trained, checkpoints, operator
<1>8. ASSUME NEW stage \in Stages, StartByHand(stage) PROVE Heeding'
  BY <1>8, <1>q DEF StartByHand, files, trained
<1>9. CASE UNCHANGED vars
  <2>1. saved'.rows = saved.rows /\ launches' = launches /\ Slack' = Slack
    BY <1>9, <1>l DEF vars, files, trained, process, operator, Slack, Saving, Scoring
  <2>s. Slack' <= Slack
    BY <2>1, <1>n
  <2> QED
    BY <2>s, <2>1, <1>0
<1> QED
  BY <1>1, <1>2, <1>3, <1>4, <1>5, <1>6, <1>7, <1>8, <1>9 DEF Next, Work, Fault

\* A training process heeds the stop rule: training is carried on past a stop only
\* by a further process, once per process.
THEOREM StopsHeededAlways == Spec => []StopsHeeded
<1>1. Init => RowsHeld /\ Heeding
  <2> SUFFICES ASSUME Init PROVE RowsHeld /\ Heeding
    OBVIOUS
  <2>1. StopsOf(saved.rows) = {} /\ Overruns = {} /\ launches = 0 /\ pc = "idle"
    BY DEF Init, NoState, StopsOf, Overruns
  <2>2. RowsHeld
    BY <2>1 DEF RowsHeld, Saving
  <2>3. CompleteRounds = {}
    BY DEF Init, CompleteRounds, Complete, NoModel
  <2>4. Slack = 0
    BY <2>1, <2>3 DEF Slack, Lacking, Saving, Scoring
  <2> QED
    BY <2>1, <2>2, <2>4, FS_EmptySet DEF Heeding, StopsHeeded
<1>2. Heeding => StopsHeeded
  BY DEF Heeding
<1>3. IInv /\ RowsHeld /\ Heeding /\ [Next]_vars => RowsHeld' /\ Heeding'
  BY SavedRowsStep, HeedingStep
<1> QED
  BY Invariant, <1>1, <1>2, <1>3, PTL DEF Spec

-------------------------------------------------------------------------------
(* The loop that no process leaves *)

\* The complete checkpoints in their order, as the instance of the loop sees them.
ChainOf == [k \in {r + 1 : r \in CompleteRounds} |-> model[k - 1]]

\* What the loop needs to know beside IInv: whose name a launch is, where a score
\* comes from, how the summary was selected, and what the base model is trained from.
Reproducible ==
    /\ launches \in 0..MaxLaunches
    /\ \A r \in Rounds : preds[r].by # 0 => preds[r].score \in IF r = 0 THEN {BaseScore} ELSE Scores
    /\ summary # NoSummary => summary.selected = Selected(summary.rows)
    /\ Saving /\ round = 0 => weights.from = 0

\* The complete rounds are the first ones, as none is without the one before it.
LEMMA CompletePrefix ==
  ASSUME ConstantsAssumption, Chain
  PROVE  \E n \in 0..(MaxRounds + 1) : CompleteRounds = 0..(n - 1)
<1>1. MaxRounds \in Nat /\ CompleteRounds \in SUBSET (0..MaxRounds)
  BY ConstantsAssumption DEF CompleteRounds, Rounds
<1>2. CASE CompleteRounds = {}
  <2>1. CompleteRounds = 0..(0 - 1) /\ 0 \in 0..(MaxRounds + 1)
    BY <1>1, <1>2
  <2> QED
    BY <2>1
<1>3. CASE CompleteRounds # {}
  <2>1. PICK m \in CompleteRounds : \A q \in CompleteRounds : q <= m
    BY <1>1, <1>3, Largest
  <2>2. m \in 0..MaxRounds
    BY <1>1
  <2> DEFINE Gaps == {q \in 0..m : q \notin CompleteRounds}
  <2>3. Gaps = {}
    <3> SUFFICES ASSUME Gaps # {} PROVE FALSE
      OBVIOUS
    <3>1. Gaps \in SUBSET (0..m) /\ m \in Nat
      BY <2>2
    <3> HIDE DEF Gaps
    <3>2. PICK g \in Gaps : \A q \in Gaps : q <= g
      BY <3>1, Largest
    <3>3. g \in 0..m /\ g \notin CompleteRounds
      BY <3>2 DEF Gaps
    <3>4. g + 1 \in 0..m /\ g + 1 \notin Gaps
      <4>1. g # m
        BY <2>1, <3>3
      <4> QED
        BY <2>2, <3>2, <3>3, <4>1
    <3>5. g + 1 \in CompleteRounds /\ g + 1 > 0 /\ (g + 1) - 1 = g
      BY <3>3, <3>4 DEF Gaps
    <3> QED
      BY <3>3, <3>5 DEF Chain, Lineage
  <2>4. CompleteRounds = 0..m
    <3>1. \A q \in 0..m : q \in CompleteRounds
      BY <2>3
    <3>2. \A q \in CompleteRounds : q \in 0..m
      BY <1>1, <2>1, <2>2
    <3> QED
      BY <3>1, <3>2
  <2>5. m + 1 \in 0..(MaxRounds + 1) /\ (m + 1) - 1 = m
    BY <1>1, <2>2
  <2> QED
    BY <2>4, <2>5
<1> QED
  BY <1>2, <1>3

\* Those rounds make a chain of that length.
LEMMA ChainIsSequence ==
  ASSUME Types, NEW n \in Nat, n <= MaxRounds + 1, ConstantsAssumption, CompleteRounds = 0..(n - 1)
  PROVE  /\ ChainOf = [k \in 1..n |-> model[k - 1]] /\ ChainOf \in Seq(Weights)
         /\ Len(ChainOf) = n /\ \A k \in 1..n : ChainOf[k] = model[k - 1]
<1>1. {r + 1 : r \in CompleteRounds} = 1..n
  <2>1. \A k \in 1..n : k - 1 \in 0..(n - 1) /\ k = (k - 1) + 1
    OBVIOUS
  <2>2. \A r \in 0..(n - 1) : r + 1 \in 1..n
    OBVIOUS
  <2> QED
    BY <2>1, <2>2
<1>2. \A k \in 1..n : model[k - 1] \in Weights
  <2>1. \A k \in 1..n : k - 1 \in Rounds
    BY ConstantsAssumption DEF Rounds
  <2> QED
    BY <2>1 DEF Types, Models
<1>3. ChainOf = [k \in 1..n |-> model[k - 1]]
  BY <1>1 DEF ChainOf
<1>4. ChainOf \in Seq(Weights)
  BY <1>2, <1>3, IsASeq
<1> QED
  BY <1>3, <1>4, LenProperties

\* A step that leaves the checkpoints of the complete rounds, the saved rows, the
\* summary and the evaluation alone is no step of the loop.
LEMMA LoopStutters ==
  ASSUME CompleteRounds' = CompleteRounds, \A r \in CompleteRounds : model'[r] = model[r],
         CompleteRounds \subseteq Nat, saved'.rows = saved.rows,
         summary'.selected = summary.selected, summary'.rows = summary.rows, evaluation' = evaluation
  PROVE  UNCHANGED Loop!vars
<1>1. ChainOf' = ChainOf
  <2>1. \A k \in {r + 1 : r \in CompleteRounds} : model'[k - 1] = model[k - 1]
    OBVIOUS
  <2> QED
    BY <2>1 DEF ChainOf
<1> QED
  BY <1>1 DEF Loop!vars, ChainOf

\* The marker of a round completes it: a round of the loop is trained.
LEMMA MarkerTrains ==
  ASSUME ConstantsAssumption, IInv, RowsHeld, Reproducible, SaveMarker
  PROVE  Loop!TrainRound
<1>1. Types /\ Chain /\ Place /\ HeldCurve /\ pc = "marker" /\ Saving
  BY DEF IInv, SaveMarker, At, Saving
<1>2. /\ CompleteRounds' = CompleteRounds \union {round} /\ round \in Rounds \ CompleteRounds
      /\ UNCHANGED <<model, saved, summary>>
  BY <1>1, MarkerFrame
<1>3. evaluation' = evaluation
  BY DEF SaveMarker
<1>4. /\ model[round] = weights /\ weights.by = launches /\ launches > 0
      /\ round > 0 => round - 1 \in CompleteRounds /\ weights.from = model[round - 1].by
      /\ \A q \in CompleteRounds : q <= round
  BY <1>1 DEF Place, Continues, Known
<1>5. round \in Nat /\ round <= MaxRounds
  BY <1>2, ConstantsAssumption DEF Rounds
<1>6. CompleteRounds = 0..(round - 1)
  <2>1. PICK n \in 0..(MaxRounds + 1) : CompleteRounds = 0..(n - 1)
    BY <1>1, CompletePrefix
  <2>2. n = round
    <3>1. n \in Nat
      BY <2>1, ConstantsAssumption
    <3>2. round \notin 0..(n - 1)
      BY <1>2, <2>1
    <3>3. round > 0 => round - 1 \in 0..(n - 1)
      BY <1>4, <2>1
    <3>4. n <= round
      BY <1>5, <3>1, <3>2
    <3>5. round <= n
      BY <1>5, <3>1, <3>3
    <3> QED
      BY <1>5, <3>1, <3>4, <3>5
  <2> QED
    BY <2>1, <2>2
<1>7. CompleteRounds' = 0..round
  BY <1>2, <1>5, <1>6
<1>8. /\ ChainOf = [k \in 1..round |-> model[k - 1]] /\ ChainOf \in Seq(Weights)
      /\ Len(ChainOf) = round /\ \A k \in 1..round : ChainOf[k] = model[k - 1]
  BY <1>1, <1>5, <1>6, ChainIsSequence
<1>9. ChainOf' = [k \in 1..(round + 1) |-> model[k - 1]]
  <2>1. {r + 1 : r \in 0..round} = 1..(round + 1)
    <3>1. \A k \in 1..(round + 1) : k - 1 \in 0..round /\ k = (k - 1) + 1
      BY <1>5
    <3>2. \A r \in 0..round : r + 1 \in 1..(round + 1)
      BY <1>5
    <3> QED
      BY <3>1, <3>2
  <2>2. ChainOf' = [k \in {r + 1 : r \in 0..round} |-> model[k - 1]]
    BY <1>2, <1>7 DEF ChainOf
  <2> QED
    BY <2>1, <2>2
<1>10. weights = [by |-> launches, from |-> IF ChainOf = <<>> THEN 0 ELSE ChainOf[Len(ChainOf)].by]
  <2>1. weights = [by |-> weights.by, from |-> weights.from]
    BY <1>1 DEF Types, Weights
  <2>2. CASE round = 0
    <3>1. ChainOf = <<>>
      BY <1>8, <2>2, EmptySeq
    <3> QED
      BY <1>1, <1>4, <2>1, <2>2, <3>1 DEF Reproducible
  <2>3. CASE round # 0
    <3>1. ChainOf # <<>> /\ round \in 1..round /\ round > 0
      BY <1>5, <1>8, <2>3
    <3>2. ChainOf[Len(ChainOf)] = model[round - 1]
      BY <1>8, <3>1
    <3> QED
      BY <1>4, <2>1, <3>1, <3>2
  <2> QED
    BY <2>2, <2>3
<1>11. ChainOf' = Append(ChainOf, weights)
  <2>1. \A k \in 1..(round + 1) : k = round + 1 \/ k \in 1..round
    BY <1>5
  <2>2. weights \in Weights
    BY <1>1 DEF Types
  <2>3. /\ Append(ChainOf, weights) \in Seq(Weights) /\ Len(Append(ChainOf, weights)) = round + 1
        /\ \A k \in 1..round : Append(ChainOf, weights)[k] = model[k - 1]
        /\ Append(ChainOf, weights)[round + 1] = weights
    BY <1>5, <1>8, <2>2, AppendProperties
  <2>4. Append(ChainOf, weights) = [k \in 1..(round + 1) |-> Append(ChainOf, weights)[k]]
    BY <2>3, LenProperties
  <2>5. (round + 1) - 1 = round
    BY <1>5
  <2>6. \A k \in 1..(round + 1) : Append(ChainOf, weights)[k] = model[k - 1]
    BY <1>4, <2>1, <2>3, <2>5
  <2> QED
    BY <1>9, <2>4, <2>6
<1>12. Len(saved.rows) = Len(ChainOf) /\ Len(ChainOf) <= MaxRounds
  BY <1>1, <1>5, <1>8 DEF HeldCurve
<1>13. launches \in 1..MaxLaunches
  BY <1>1, <1>4 DEF Reproducible, Types
<1>14. UNCHANGED <<saved.rows, [selected |-> summary.selected, rows |-> summary.rows], evaluation>>
  BY <1>2, <1>3
<1> QED
  BY <1>10, <1>11, <1>12, <1>13, <1>14 DEF Loop!TrainRound, ChainOf

\* The row of the latest checkpoint: a round of the loop is scored.
LEMMA RowScores ==
  ASSUME ConstantsAssumption, IInv, Reproducible, AppendRow
  PROVE  Loop!ScoreRound
<1>1. /\ Types /\ Chain /\ Place /\ HeldCurve /\ Scored /\ pc = "row" /\ Scoring /\ Known
      /\ UNCHANGED <<checkpoints, summary, evaluation>>
      /\ saved'.rows = Append(state.rows, NewRow)
  BY DEF IInv, AppendRow, At, Scoring, Known, Types, State
<1>2. /\ round \in CompleteRounds /\ \A q \in CompleteRounds : q <= round
      /\ preds[round].by # 0 /\ preds[round].by = model[round].by
  BY <1>1 DEF Place, Scored, Types
<1>3. round \in Nat /\ round <= MaxRounds /\ round \in Rounds
  BY <1>1, ConstantsAssumption DEF Types, Rounds
<1>4. CompleteRounds = 0..((round + 1) - 1)
  <2>1. PICK n \in 0..(MaxRounds + 1) : CompleteRounds = 0..(n - 1)
    BY <1>1, CompletePrefix
  <2>2. n \in Nat
    BY <2>1, ConstantsAssumption
  <2>3. round <= n - 1
    BY <1>2, <2>1
  <2>4. n - 1 <= round
    <3>1. n - 1 \in 0..(n - 1)
      BY <1>3, <2>2, <2>3
    <3> QED
      BY <1>2, <2>1, <3>1
  <2>5. n - 1 = (round + 1) - 1
    BY <1>3, <2>2, <2>3, <2>4
  <2> QED
    BY <2>1, <2>5
<1>5. Len(ChainOf) = round + 1 /\ ChainOf[Len(ChainOf)] = model[round]
  <2>1. round + 1 \in Nat /\ round + 1 <= MaxRounds + 1 /\ (round + 1) - 1 = round /\ round + 1 \in 1..(round + 1)
    BY <1>3
  <2> QED
    BY <1>1, <1>4, <2>1, ChainIsSequence
<1>6. saved.rows = state.rows /\ Len(saved.rows) = round
  <2>1. Len(state.rows) = round /\ (saved = state \/ (saved = NoState /\ round = 0))
    BY <1>1 DEF HeldCurve
  <2>2. state.rows \in Seq(Row)
    BY <1>1 DEF Types, State
  <2>3. round = 0 => state.rows = <<>>
    BY <2>1, <2>2
  <2> QED
    BY <2>1, <2>3 DEF NoState
<1>7. marker[round].model = model[round]
  BY <1>1, <1>2, MarkerNames
<1>8. NewRow = [round |-> Len(saved.rows), checkpoint |-> ChainOf[Len(ChainOf)].by,
                scored |-> ChainOf[Len(ChainOf)].by, score |-> preds[round].score]
  BY <1>2, <1>5, <1>6, <1>7 DEF NewRow
<1>9. preds[round].score \in (IF saved.rows = <<>> THEN {BaseScore} ELSE Scores)
  <2>1. saved.rows \in Seq(Row)
    BY <1>1 DEF Types, State
  <2>2. saved.rows = <<>> <=> round = 0
    BY <1>6, <2>1, EmptySeq
  <2> QED
    BY <1>2, <1>3, <2>2 DEF Reproducible
<1>10. ChainOf' = ChainOf
  BY <1>1 DEF ChainOf, CompleteRounds, Complete, checkpoints
<1>11. saved.rows' = Append(saved.rows, NewRow)
  BY <1>1, <1>6
<1>12. Len(ChainOf) = Len(saved.rows) + 1
  BY <1>5, <1>6
<1>13. UNCHANGED <<ChainOf, [selected |-> summary.selected, rows |-> summary.rows], evaluation>>
  BY <1>1, <1>10
<1> QED
  BY <1>8, <1>9, <1>11, <1>12, <1>13 DEF Loop!ScoreRound, ChainOf

\* The end of training: the summary is published.
LEMMA FinishPublishes ==
  ASSUME ConstantsAssumption, IInv, Finish, Selected(state.rows) # NoRound
  PROVE  Loop!Publish
<1>1. /\ Types /\ Chain /\ Place /\ HeldCurve /\ Between /\ Known
      /\ UNCHANGED <<checkpoints, evaluation>> /\ saved' = state
      /\ summary' = [stopped |-> round, selected |-> Selected(state.rows),
                     probes |-> state.probes, rows |-> state.rows, norms |-> state.norms]
  BY DEF IInv, Finish, At, Between, Known
<1>2. round \in CompleteRounds /\ \A q \in CompleteRounds : q <= round
  BY <1>1 DEF Place
<1>3. round \in Nat /\ round <= MaxRounds
  BY <1>1, ConstantsAssumption DEF Types, Rounds
<1>4. PICK n \in 0..(MaxRounds + 1) : CompleteRounds = 0..(n - 1)
  BY <1>1, CompletePrefix
<1>5. n = round + 1
  <2>1. n \in Nat
    BY <1>4, ConstantsAssumption
  <2>2. round <= n - 1
    BY <1>2, <1>4
  <2>3. n - 1 <= round
    <3>1. n - 1 \in 0..(n - 1)
      BY <1>3, <2>1, <2>2
    <3> QED
      BY <1>2, <1>4, <3>1
  <2> QED
    BY <1>3, <2>1, <2>2, <2>3
<1>6. Len(ChainOf) = round + 1
  <2>1. n \in Nat /\ n <= MaxRounds + 1
    BY <1>3, <1>5
  <2> QED
    BY <1>1, <1>4, <1>5, <2>1, ChainIsSequence
<1>7. saved = state /\ Len(saved.rows) = round + 1
  BY <1>1 DEF HeldCurve
<1>8. ChainOf' = ChainOf
  BY <1>1 DEF ChainOf, CompleteRounds, Complete, checkpoints
<1> QED
  BY <1>1, <1>6, <1>7, <1>8 DEF Loop!Publish, ChainOf

\* The directional evaluation takes the checkpoint of the selected round.
LEMMA DirectionalEvaluates ==
  ASSUME ConstantsAssumption, IInv, Reproducible, EvaluateDirectional
  PROVE  Loop!Evaluate
<1>1. Types /\ Chain /\ Scored /\ Summarised
  BY DEF IInv
<1>2. /\ summary # NoSummary /\ UNCHANGED <<checkpoints, saved>>
      /\ summary' = [summary EXCEPT !.selected = Selected(summary.rows)]
  BY DEF EvaluateDirectional
<1>3. /\ summary.selected = Selected(summary.rows) /\ summary'.selected = summary.selected
      /\ summary'.rows = summary.rows
  BY <1>1, <1>2 DEF Reproducible, Types, Summaries
<1>4. Selected(summary.rows) # NoRound /\ summary.rows \in Seq(Row)
  BY <1>1, <1>2 DEF Summarised, Types, Summaries
<1>5. PICK k \in 1..Len(summary.rows) : Selected(summary.rows) = summary.rows[k].round
  BY <1>4, SelectedIsRow
<1>6. summary.selected \in CompleteRounds
  BY <1>1, <1>3, <1>5 DEF Scored, Backed
<1>7. marker[summary.selected].model = model[summary.selected]
  BY <1>1, <1>6, MarkerNames
<1>8. evaluation' = [round |-> summary.selected, by |-> model[summary.selected].by]
  BY <1>3, <1>7 DEF EvaluateDirectional
<1>9. ChainOf[summary.selected + 1] = model[summary.selected]
  <2>1. summary.selected \in Nat
    BY <1>6, ConstantsAssumption DEF CompleteRounds, Rounds
  <2>2. summary.selected + 1 \in {r + 1 : r \in CompleteRounds} /\ (summary.selected + 1) - 1 = summary.selected
    BY <1>6, <2>1
  <2> QED
    BY <2>2 DEF ChainOf
<1>10. ChainOf' = ChainOf
  BY <1>2 DEF ChainOf, CompleteRounds, Complete, checkpoints
<1> QED
  BY <1>2, <1>3, <1>4, <1>8, <1>9, <1>10 DEF Loop!Evaluate, ChainOf

\* Every step keeps what the loop needs to know.
LEMMA ReproducibleStep == IInv /\ Reproducible /\ [Next]_vars => Reproducible'
<1> SUFFICES ASSUME IInv, Reproducible, [Next]_vars PROVE Reproducible'
  OBVIOUS
<1> Types /\ Place /\ HeldCurve /\ Summarised
  BY DEF IInv
\* A step that keeps launches, predictions and summary, and the weights being saved.
<1>0. ASSUME launches' = launches, preds' = preds, summary' = summary,
             pc' \in {"model", "optimizer", "marker"} => round' # 0 \/ weights'.from = 0
      PROVE  Reproducible'
  BY <1>0 DEF Reproducible, Saving
<1> USE DEF At, Goto
<1>1. CASE ScriptStarts
  BY <1>1, <1>0 DEF ScriptStarts, Stages, files, trained, operator
<1>2. CASE ProbeMicrobatch
  BY <1>2, <1>0 DEF ProbeMicrobatch, Exit, Fail, trained
<1>3. CASE Training
  <2>1. CASE Train
    <3>1. launches' = launches + 1 /\ launches < MaxLaunches /\ pc' = "load" /\ UNCHANGED <<preds, summary>>
      BY <2>1 DEF Train, files, trained
    <3>2. launches' \in 0..MaxLaunches
      BY <3>1, ConstantsAssumption DEF Types
    <3> QED
      BY <3>1, <3>2 DEF Reproducible, Saving
  <2>2. CASE TrainRefuses
    BY <2>2, <1>0 DEF TrainRefuses, Exit, Fail, Stages, files, trained, operator
  <2>3. CASE Initialise
    BY <2>3, <1>0 DEF Initialise, Exit, Fail, Stages, files, trained, operator
  <2>4. CASE Initialised
    BY <2>4, <1>0 DEF Initialised, Exit, Fail, Stages, files, trained, operator
  <2>5. CASE Load
    <3>1. CASE Loadable
      <4>1. UNCHANGED <<launches, preds, summary>> /\ pc' \in {"loaded", "next", "finish"}
        BY <2>5, <3>1 DEF Load, Restore, operator
      <4> QED
        BY <4>1, <1>0
    <3>2. CASE ~Loadable
      BY <2>5, <3>2, <1>0 DEF Load, Refuse, Exit, Fail, files, trained
    <3> QED
      BY <3>1, <3>2
  <2>6. CASE RestoreResumed
    <3>1. CASE Loadable
      <4>1. UNCHANGED <<launches, preds, summary>> /\ pc' \in {"loaded", "next", "finish"}
        BY <2>6, <3>1 DEF RestoreResumed, Restore, operator
      <4> QED
        BY <4>1, <1>0
    <3>2. CASE ~Loadable
      BY <2>6, <3>2, <1>0 DEF RestoreResumed, Refuse, Exit, Fail, files, trained
    <3> QED
      BY <3>1, <3>2
  <2>7. CASE Reload
    <3>1. CASE Loadable
      <4>1. UNCHANGED <<launches, preds, summary>> /\ pc' \in {"loaded", "next", "finish"}
        BY <2>7, <3>1 DEF Reload, Restore, operator
      <4> QED
        BY <4>1, <1>0
    <3>2. CASE ~Loadable
      BY <2>7, <3>2, <1>0 DEF Reload, Refuse, Exit, Fail, files, trained
    <3> QED
      BY <3>1, <3>2
  <2>8. CASE Base
    <3>1. /\ UNCHANGED <<launches, preds, summary, round, weights>> /\ state.probes = <<>>
          /\ pc = "loaded"
      BY <2>8 DEF Base, files, trained, operator
    <3>2. Fresh
      BY <3>1, ConstantsAssumption DEF HeldCurve, Curve, Types, Rounds
    <3>3. weights'.from = 0
      BY <3>1, <3>2 DEF Fresh
    <3> QED
      BY <3>1, <3>3, <1>0
  <2>9. CASE Resume
    BY <2>9, <1>0 DEF Resume, Exit, Fail, Stages, files, trained, operator
  <2>10. CASE TrainRound
    <3>1. UNCHANGED <<launches, preds, summary>> /\ round' = round + 1
      BY <2>10 DEF TrainRound, files, trained, operator
    <3>2. round' # 0
      BY <3>1, ConstantsAssumption DEF Types, Rounds
    <3> QED
      BY <3>1, <3>2, <1>0
  <2>11. CASE SaveModel
    BY <2>11, <1>0 DEF SaveModel, process, operator, Reproducible, Saving, AfterSave
  <2>12. CASE SaveOptimizer
    BY <2>12, <1>0 DEF SaveOptimizer, process, operator, Reproducible, Saving, AfterSave
  <2>13. CASE SaveMarker
    BY <2>13, <1>0 DEF SaveMarker, process, operator, Reproducible, Saving, AfterSave
  <2>14. CASE SaveState
    BY <2>14, <1>0 DEF SaveState, process, operator, Reproducible, Saving, AfterSave
  <2>15. CASE Evaluate
    <3>1. /\ UNCHANGED <<launches, summary>> /\ pc' = "row"
          /\ \/ preds' = preds
             \/ \E score \in (IF round = 0 THEN {BaseScore} ELSE Scores) :
                   preds' = [preds EXCEPT ![round] = [by |-> model[round].by, score |-> score]]
      BY <2>15 DEF Evaluate, operator
    <3>2. CASE preds' = preds
      BY <3>1, <3>2, <1>0
    <3>3. ASSUME NEW score \in (IF round = 0 THEN {BaseScore} ELSE Scores),
                 preds' = [preds EXCEPT ![round] = [by |-> model[round].by, score |-> score]]
          PROVE  Reproducible'
      <4>1. \A r \in Rounds : preds'[r] = IF r = round THEN [by |-> model[round].by, score |-> score]
                                          ELSE preds[r]
        BY <3>3 DEF Types, Predictions
      <4>2. ASSUME NEW r \in Rounds, preds'[r].by # 0
            PROVE  preds'[r].score \in IF r = 0 THEN {BaseScore} ELSE Scores
        BY <4>1, <4>2, <3>3 DEF Reproducible
      <4> QED
        BY <3>1, <4>2 DEF Reproducible, Saving
    <3> QED
      BY <3>1, <3>2, <3>3
  <2>16. CASE AppendRow
    <3>1. pc' \in {"loaded", "restore", "reload"}
      BY <2>16 DEF AppendRow, Types
    <3> QED
      BY <2>16, <3>1, <1>0 DEF AppendRow, operator
  <2>17. CASE Finish
    <3>1. /\ UNCHANGED <<launches, preds>> /\ pc' = "idle"
          /\ \/ summary' = summary
             \/ summary' = [stopped |-> round, selected |-> Selected(state.rows),
                            probes |-> state.probes, rows |-> state.rows, norms |-> state.norms]
      BY <2>17 DEF Finish, Exit, Fail
    <3> QED
      BY <3>1 DEF Reproducible, Saving
  <2> QED
    BY <1>3, <2>1, <2>2, <2>3, <2>4, <2>5, <2>6, <2>7, <2>8, <2>9, <2>10, <2>11, <2>12, <2>13, <2>14, <2>15, <2>16, <2>17 DEF Training
<1>4. CASE Reporting
  <2>1. CASE EvaluateDirectional
    <3>1. /\ UNCHANGED <<launches, preds>> /\ pc' = "idle" /\ summary # NoSummary
          /\ summary' = [summary EXCEPT !.selected = Selected(summary.rows)]
      BY <2>1 DEF EvaluateDirectional, Exit, Fail
    <3>2. summary'.selected = Selected(summary'.rows)
      BY <3>1 DEF Types, Summaries
    <3> QED
      BY <3>1, <3>2 DEF Reproducible, Saving
  <2>2. CASE MissingInput
    BY <2>2, <1>0 DEF MissingInput, Exit, Fail, files, trained
  <2>3. CASE WriteCertificate
    BY <2>3, <1>0 DEF WriteCertificate, trained, operator
  <2>4. CASE WriteReport
    BY <2>4, <1>0 DEF WriteReport, trained, operator
  <2>5. CASE WritePage
    BY <2>5, <1>0 DEF WritePage, Exit, trained
  <2> QED
    BY <1>4, <2>1, <2>2, <2>3, <2>4, <2>5 DEF Reporting
<1>5. CASE ProbeIncorrect
  BY <1>5, <1>0 DEF ProbeIncorrect, Exit, Fail, trained
<1>6. CASE OutOfMemory
  BY <1>6, <1>0 DEF OutOfMemory, Exit, Fail, trained
<1>7. CASE Crash
  BY <1>7, <1>0 DEF Crash, Exit, Fail, files, trained
<1>8. ASSUME NEW stage \in Stages, StartByHand(stage) PROVE Reproducible'
  BY <1>8, <1>0 DEF StartByHand, Stages, files, trained
<1>9. CASE UNCHANGED vars
  BY <1>9 DEF vars, files, trained, process, operator, Reproducible, Saving
<1> QED
  BY <1>1, <1>2, <1>3, <1>4, <1>5, <1>6, <1>7, <1>8, <1>9 DEF Next, Work, Fault

\* Every step is a step of the loop, or none.
LEMMA LoopStep ==
  IInv /\ RowsHeld /\ Reproducible /\ [Next]_vars => [Loop!Next]_(Loop!vars)
<1> SUFFICES ASSUME IInv, RowsHeld, Reproducible, [Next]_vars PROVE [Loop!Next]_(Loop!vars)
  OBVIOUS
<1> Types /\ Chain /\ Place /\ HeldCurve
  BY DEF IInv
<1>n. CompleteRounds \subseteq Nat
  BY ConstantsAssumption DEF CompleteRounds, Rounds
<1>h. ~AppendRow => saved'.rows = saved.rows
  BY SavedRowsStep
<1>0. ASSUME UNCHANGED <<checkpoints, summary, evaluation>>, ~AppendRow PROVE UNCHANGED Loop!vars
  <2>1. CompleteRounds' = CompleteRounds
    BY <1>0 DEF CompleteRounds, Complete, checkpoints
  <2> QED
    BY <1>0, <2>1, <1>n, <1>h, LoopStutters DEF checkpoints
<1> USE DEF At, Goto
<1>1. CASE ScriptStarts
  BY <1>1, <1>0 DEF ScriptStarts, AppendRow, Stages, files, trained
<1>2. CASE ProbeMicrobatch
  BY <1>2, <1>0 DEF ProbeMicrobatch, AppendRow, trained
<1>3. CASE Training
  <2>1. CASE Train
    BY <2>1, <1>0 DEF Train, AppendRow, files, trained
  <2>2. CASE TrainRefuses
    BY <2>2, <1>0 DEF TrainRefuses, AppendRow, files, trained
  <2>3. CASE Initialise
    BY <2>3, <1>0 DEF Initialise, AppendRow, files, trained
  <2>4. CASE Initialised
    BY <2>4, <1>0 DEF Initialised, AppendRow, files, trained
  <2>5. CASE Load
    <3>1. CASE Loadable
      BY <2>5, <3>1, <1>0 DEF Load, Restore, AppendRow
    <3>2. CASE ~Loadable
      BY <2>5, <3>2, <1>0 DEF Load, AppendRow, Refuse, files, trained
    <3> QED
      BY <3>1, <3>2
  <2>6. CASE RestoreResumed
    <3>1. CASE Loadable
      BY <2>6, <3>1, <1>0 DEF RestoreResumed, Restore, AppendRow
    <3>2. CASE ~Loadable
      BY <2>6, <3>2, <1>0 DEF RestoreResumed, AppendRow, Refuse, files, trained
    <3> QED
      BY <3>1, <3>2
  <2>7. CASE Reload
    <3>1. CASE Loadable
      BY <2>7, <3>1, <1>0 DEF Reload, Restore, AppendRow
    <3>2. CASE ~Loadable
      BY <2>7, <3>2, <1>0 DEF Reload, AppendRow, Refuse, files, trained
    <3> QED
      BY <3>1, <3>2
  <2>8. CASE Base
    BY <2>8, <1>0 DEF Base, AppendRow, files, trained
  <2>9. CASE Resume
    BY <2>9, <1>0 DEF Resume, AppendRow, files, trained
  <2>10. CASE TrainRound
    BY <2>10, <1>0 DEF TrainRound, AppendRow, files, trained
  <2>11. CASE SaveModel
    <3>1. CompleteRounds' = CompleteRounds /\ round \notin CompleteRounds
      BY <2>11, SaveFrame
    <3>2. \A r \in CompleteRounds : model'[r] = model[r]
      BY <2>11, <3>1, SaveFrame DEF CompleteRounds
    <3>3. UNCHANGED <<summary, evaluation>> /\ ~AppendRow
      BY <2>11 DEF SaveModel, AppendRow
    <3> QED
      BY <3>1, <3>2, <3>3, <1>n, <1>h, LoopStutters
  <2>12. CASE SaveOptimizer
    <3>1. CompleteRounds' = CompleteRounds /\ round \notin CompleteRounds
      BY <2>12, SaveFrame
    <3>2. \A r \in CompleteRounds : model'[r] = model[r]
      BY <2>12, <3>1, SaveFrame DEF CompleteRounds
    <3>3. UNCHANGED <<summary, evaluation>> /\ ~AppendRow
      BY <2>12 DEF SaveOptimizer, AppendRow
    <3> QED
      BY <3>1, <3>2, <3>3, <1>n, <1>h, LoopStutters
  <2>13. CASE SaveMarker
    BY <2>13, MarkerTrains, ConstantsAssumption DEF Loop!Next
  <2>14. CASE SaveState
    BY <2>14, <1>0 DEF SaveState, AppendRow, files, trained
  <2>15. CASE Evaluate
    BY <2>15, <1>0 DEF Evaluate, AppendRow, files, trained
  <2>16. CASE AppendRow
    BY <2>16, RowScores, ConstantsAssumption DEF Loop!Next
  <2>17. CASE Finish
    <3>1. CASE Selected(state.rows) = NoRound
      BY <2>17, <3>1, <1>0 DEF Finish, AppendRow
    <3>2. CASE Selected(state.rows) # NoRound
      BY <2>17, <3>2, FinishPublishes, ConstantsAssumption DEF Loop!Next
    <3> QED
      BY <3>1, <3>2
  <2> QED
    BY <1>3, <2>1, <2>2, <2>3, <2>4, <2>5, <2>6, <2>7, <2>8, <2>9, <2>10, <2>11, <2>12, <2>13, <2>14, <2>15, <2>16, <2>17 DEF Training
<1>4. CASE Reporting
  <2>1. CASE EvaluateDirectional
    BY <2>1, DirectionalEvaluates, ConstantsAssumption DEF Loop!Next
  <2>2. CASE MissingInput
    BY <2>2, <1>0 DEF MissingInput, AppendRow, files, trained
  <2>3. CASE WriteCertificate
    BY <2>3, <1>0 DEF WriteCertificate, AppendRow, trained
  <2>4. CASE WriteReport
    BY <2>4, <1>0 DEF WriteReport, AppendRow, trained
  <2>5. CASE WritePage
    BY <2>5, <1>0 DEF WritePage, AppendRow, trained
  <2> QED
    BY <1>4, <2>1, <2>2, <2>3, <2>4, <2>5 DEF Reporting
<1>5. CASE ProbeIncorrect
  BY <1>5, <1>0 DEF ProbeIncorrect, AppendRow, trained
<1>6. CASE OutOfMemory
  BY <1>6, <1>0 DEF OutOfMemory, AppendRow, trained
<1>7. CASE Crash
  <2>1. UNCHANGED <<checkpoints, summary, evaluation>> /\ faults' = faults + 1 /\ faults \in Nat
    BY <1>7 DEF Crash, files, trained, Types
  <2> QED
    BY <2>1, <1>0 DEF AppendRow, operator
<1>8. ASSUME NEW stage \in Stages, StartByHand(stage) PROVE UNCHANGED Loop!vars
  BY <1>8, <1>0 DEF StartByHand, AppendRow, Stages, files, trained
<1>9. CASE UNCHANGED vars
  <2>1. UNCHANGED <<checkpoints, summary, evaluation, saved, pc>>
    BY <1>9 DEF vars, files, trained
  <2>2. CASE AppendRow
    BY <2>2, RowScores, ConstantsAssumption DEF Loop!Next
  <2>3. CASE ~AppendRow
    BY <2>1, <2>3, <1>0
  <2> QED
    BY <2>2, <2>3
<1> QED
  BY <1>1, <1>2, <1>3, <1>4, <1>5, <1>6, <1>7, <1>8, <1>9 DEF Next, Work, Fault

\* The first state is the loop's.
LEMMA LoopStart == Init => Reproducible /\ Loop!Init
<1> SUFFICES ASSUME Init PROVE Reproducible /\ Loop!Init
  OBVIOUS
<1>1. CompleteRounds = {}
  BY DEF Init, CompleteRounds, Complete, NoModel
<1>2. [k \in {r + 1 : r \in CompleteRounds} |-> model[k - 1]] = <<>>
  <2>1. {r + 1 : r \in CompleteRounds} = 1..0
    BY <1>1
  <2>2. [k \in 1..0 |-> model[k - 1]] = <<>>
    OBVIOUS
  <2> QED
    BY <2>1, <2>2
<1>3. saved.rows = <<>> /\ summary.selected = NoRound /\ summary.rows = <<>>
  BY DEF Init, NoState, NoSummary
<1>4. Loop!Init
  BY <1>2, <1>3 DEF Init, Loop!Init, NoEvaluation
<1>5. Reproducible
  BY ConstantsAssumption DEF Init, Reproducible, NoPreds, Saving
<1> QED
  BY <1>4, <1>5

\* However often a process dies or a stage is started by hand, the checkpoints, the
\* saved curve, the summary and the directional evaluation are those of a loop that
\* no process ever left: this says more than Lineage, as it also says that no
\* checkpoint and no row is ever changed, whoever comes later.
THEOREM ImplementsLoopAlways == Spec => ImplementsLoop
<1>1. Init => RowsHeld
  BY DEF Init, RowsHeld, Saving
<1>2. IInv /\ RowsHeld /\ Reproducible /\ [Next]_vars => RowsHeld' /\ Reproducible'
  BY SavedRowsStep, ReproducibleStep
<1> QED
  BY Invariant, LoopStart, LoopStep, <1>1, <1>2, PTL DEF Spec, ImplementsLoop, Loop!Spec

-------------------------------------------------------------------------------
(* What the selected round is worth *)

\* A curve that has rows has a raw best one, which precedes all of them.
LEMMA BestPrecedes ==
  ASSUME NEW rows \in Seq(Row), RowsOf(rows) # {}
  PROVE  Best(rows) \in RowsOf(rows) /\ \A b \in RowsOf(rows) : Precedes(Best(rows), b)
<1> DEFINE R == RowsOf(rows)
<1>1. \A a \in R : a.score.wer \in Nat /\ a.score.cer \in Nat /\ a.round \in Nat
  <2>1. R \subseteq Row
    BY DEF RowsOf
  <2> QED
    BY <2>1 DEF Row, Score, Rounds
<1> HIDE DEF R
<1>2. PICK a1 \in R : \A b \in R : a1.score.wer <= b.score.wer
  <2> DEFINE W == {a.score.wer : a \in R}
  <2>1. W \in SUBSET Nat /\ W # {}
    BY <1>1 DEF R
  <2>2. PICK w \in W : \A v \in W : w <= v
    BY <2>1, Smallest
  <2> QED
    BY <2>2
<1> DEFINE R1 == {a \in R : a.score.wer = a1.score.wer}
<1>3. PICK a2 \in R1 : \A b \in R1 : a2.score.cer <= b.score.cer
  <2> DEFINE W == {a.score.cer : a \in R1}
  <2>1. W \in SUBSET Nat /\ W # {}
    BY <1>1
  <2>2. PICK w \in W : \A v \in W : w <= v
    BY <2>1, Smallest
  <2> QED
    BY <2>2
<1> DEFINE R2 == {a \in R1 : a.score.cer = a2.score.cer}
<1>4. PICK a3 \in R2 : \A b \in R2 : a3.round <= b.round
  <2> DEFINE W == {a.round : a \in R2}
  <2>1. W \in SUBSET Nat /\ W # {}
    BY <1>1
  <2>2. PICK w \in W : \A v \in W : w <= v
    BY <2>1, Smallest
  <2> QED
    BY <2>2
<1>5. ASSUME NEW b \in R PROVE Precedes(a3, b)
  <2>1. a3 \in R /\ a3.score.wer = a1.score.wer /\ a3.score.cer = a2.score.cer
    OBVIOUS
  <2>2. a3.score.wer <= b.score.wer
    BY <1>2, <2>1
  <2>3. b.score.wer = a3.score.wer => a3.score.cer <= b.score.cer
    BY <1>3, <2>1
  <2>4. b.score.wer = a3.score.wer /\ b.score.cer = a3.score.cer => a3.round <= b.round
    BY <1>4, <2>1
  <2> QED
    BY <1>1, <2>1, <2>2, <2>3, <2>4 DEF Precedes
<1>6. \E a \in R : \A b \in R : Precedes(a, b)
  BY <1>5
<1> QED
  BY <1>6 DEF Best, R

\* A round is selected unless the raw best row has more empty hypotheses than the
\* base model: only then can int(None) raise at the end of stage_train.
THEOREM SelectedUnlessBestIsEmpty ==
  ASSUME NEW rows \in Seq(Row), RowsOf(rows) # {},
         Best(rows).score.empty <= EmptyOfBase(rows)
  PROVE  Selected(rows) # NoRound
<1>1. Best(rows) \in RowsOf(rows) /\ RowsOf(rows) \subseteq Row
  BY BestPrecedes DEF RowsOf
<1>2. Best(rows).score.wer \in Nat /\ Best(rows).score.cer \in Nat
  BY <1>1 DEF Row, Score
<1>3. Best(rows) \in Eligible(rows)
  BY <1>1, <1>2 DEF Eligible
<1> DEFINE T == {a.round : a \in Eligible(rows)}
<1>4. T \in SUBSET Nat /\ T # {}
  <2>1. \A a \in Eligible(rows) : a.round \in Nat
    BY <1>1 DEF Eligible, Row, Rounds
  <2> QED
    BY <1>3, <2>1
<1>5. PICK t \in T : \A u \in T : t <= u
  BY <1>4, Smallest
<1>6. \E a \in Eligible(rows) : \A b \in Eligible(rows) : a.round <= b.round
  BY <1>5
<1>7. \E a \in Eligible(rows) : Selected(rows) = a.round
  BY <1>3, <1>6 DEF Selected
<1>8. Selected(rows) \in Nat
  BY <1>1, <1>7 DEF Eligible, Row, Rounds
<1> QED
  BY <1>8 DEF NoRound

\* A row that select_earliest_within_tolerance may return: within half a point of
\* the WER of every row, within the tolerance of the CER of the raw best row, and
\* with no more empty hypotheses than the base model; and no earlier row is such.
WithinTolerance(rows, row) ==
    /\ \A other \in RowsOf(rows) : row.score.wer <= other.score.wer + 500
    /\ row.score.cer <= Best(rows).score.cer + 250
    /\ row.score.empty <= EmptyOfBase(rows)

\* The selected round is the earliest row within tolerance.
LEMMA SelectedIsEarliest ==
  ASSUME NEW rows \in Seq(Row), Selected(rows) # NoRound
  PROVE  \E row \in RowsOf(rows) :
            /\ row.round = Selected(rows) /\ WithinTolerance(rows, row)
            /\ \A other \in RowsOf(rows) :
                  WithinTolerance(rows, other) => row.round <= other.round
<1>1. Eligible(rows) # {} /\ Eligible(rows) \subseteq RowsOf(rows) /\ RowsOf(rows) \subseteq Row
  BY DEF Selected, Eligible, RowsOf
<1>2. /\ Best(rows) \in RowsOf(rows)
      /\ \A b \in RowsOf(rows) : Best(rows).score.wer <= b.score.wer
  <2>1. Best(rows) \in RowsOf(rows) /\ \A b \in RowsOf(rows) : Precedes(Best(rows), b)
    BY <1>1, BestPrecedes
  <2>2. \A b \in RowsOf(rows) : b.score.wer \in Nat
    BY <1>1 DEF Row, Score
  <2> QED
    BY <2>1, <2>2 DEF Precedes
<1>3. \A b \in RowsOf(rows) : b.score.wer \in Nat /\ b.round \in Nat
  BY <1>1 DEF Row, Score, Rounds
<1>4. ASSUME NEW row \in RowsOf(rows) PROVE WithinTolerance(rows, row) <=> row \in Eligible(rows)
  <2>1. ASSUME row \in Eligible(rows), NEW other \in RowsOf(rows)
        PROVE  row.score.wer <= other.score.wer + 500
    <3>1. row.score.wer <= Best(rows).score.wer + 500
      BY <2>1 DEF Eligible
    <3> QED
      BY <1>2, <1>3, <3>1
  <2> QED
    BY <1>2, <2>1 DEF Eligible, WithinTolerance
<1> DEFINE T == {a.round : a \in Eligible(rows)}
<1>5. T \in SUBSET Nat /\ T # {}
  BY <1>1, <1>3
<1>6. PICK t \in T : \A u \in T : t <= u
  BY <1>5, Smallest
<1>7. \E a \in Eligible(rows) : \A b \in Eligible(rows) : a.round <= b.round
  BY <1>6
<1>8. PICK a \in Eligible(rows) : a.round = Selected(rows) /\ \A b \in Eligible(rows) : a.round <= b.round
  BY <1>1, <1>7 DEF Selected
<1>9. \A other \in RowsOf(rows) : WithinTolerance(rows, other) => a.round <= other.round
  BY <1>4, <1>8
<1> QED
  BY <1>1, <1>4, <1>8, <1>9

\* The first row of the saved curve is the score of the base model.
BaseFirst == \A k \in 1..Len(saved.rows) : k = 1 => saved.rows[k].score = BaseScore

\* A row is only appended, and the first one with the score of the base model.
LEMMA BaseFirstStep ==
  IInv /\ RowsHeld /\ Reproducible /\ BaseFirst /\ [Next]_vars => BaseFirst'
<1> SUFFICES ASSUME IInv, RowsHeld, Reproducible, BaseFirst, [Next]_vars PROVE BaseFirst'
  OBVIOUS
<1>1. CASE saved'.rows = saved.rows
  BY <1>1 DEF BaseFirst
<1>2. CASE AppendRow
  <2>1. PICK score \in (IF saved.rows = <<>> THEN {BaseScore} ELSE Scores) :
           saved'.rows = Append(saved.rows, [round |-> Len(saved.rows), checkpoint |-> ChainOf[Len(ChainOf)].by,
                                  scored |-> ChainOf[Len(ChainOf)].by, score |-> score])
    BY <1>2, RowScores, ConstantsAssumption DEF Loop!ScoreRound, ChainOf
  <2> DEFINE row == [round |-> Len(saved.rows), checkpoint |-> ChainOf[Len(ChainOf)].by,
                     scored |-> ChainOf[Len(ChainOf)].by, score |-> score]
  <2>2. saved'.rows = Append(saved.rows, row) /\ row.score = score
    BY <2>1
  <2> HIDE DEF row
  <2>3. saved.rows \in Seq(Row)
    BY DEF IInv, Types, State
  <2>4. CASE saved.rows = <<>>
    <3>1. saved'.rows = <<row>> /\ score = BaseScore
      BY <2>1, <2>2, <2>4
    <3> QED
      BY <2>2, <3>1 DEF BaseFirst
  <2>5. CASE saved.rows # <<>>
    <3>1. Len(saved.rows) >= 1
      BY <2>3, <2>5, EmptySeq
    <3>2. saved'.rows[1] = saved.rows[1]
      BY <2>2, <2>3, <3>1
    <3> QED
      BY <3>1, <3>2 DEF BaseFirst
  <2> QED
    BY <2>4, <2>5
<1> QED
  BY <1>1, <1>2, SavedRowsStep

\* What a script that got through has certified, in terms of the scores: a checkpoint
\* whose row is in the curve, no more than half a point of WER worse than any other
\* row, the base model's included, and with no more empty hypotheses than it; no
\* earlier round of the curve would have done.
CertifiedIsWithinTolerance ==
    step = "done" =>
        \E row \in RowsOf(saved.rows) :
            /\ page.round = row.round /\ page.by = row.scored
            /\ \A other \in RowsOf(saved.rows) : row.score.wer <= other.score.wer + 500
            /\ row.score.empty <= BaseScore.empty
            /\ \A other \in RowsOf(saved.rows) :
                  WithinTolerance(saved.rows, other) => row.round <= other.round

\* Behind training the script has a summary to select from.
Chosen == step \in {"evaluate-directional", "summarize", "done"} => summary # NoSummary

\* A summary is written before the script goes on, and none is ever taken away.
LEMMA ChosenStep == IInv /\ Orderly /\ Chosen /\ [Next]_vars => Chosen'
<1> SUFFICES ASSUME IInv, Orderly, Chosen, [Next]_vars PROVE Chosen'
  OBVIOUS
<1> Types /\ Summarised
  BY DEF IInv
<1>0. ASSUME summary' = summary, step' = step \/ step' \in {"train", "probe-microbatch"}
      PROVE  Chosen'
  BY <1>0 DEF Chosen
<1> USE DEF At, Goto
<1>1. CASE ScriptStarts
  BY <1>1, <1>0 DEF ScriptStarts, files, trained, operator
<1>2. CASE ProbeMicrobatch
  BY <1>2, <1>0 DEF ProbeMicrobatch, Exit, Fail, trained
<1>3. CASE Training
  <2>1. CASE Train
    BY <2>1, <1>0 DEF Train, Exit, Fail, files, trained, operator
  <2>2. CASE TrainRefuses
    BY <2>2, <1>0 DEF TrainRefuses, Exit, Fail, files, trained, operator
  <2>3. CASE Initialise
    BY <2>3, <1>0 DEF Initialise, Exit, Fail, files, trained, operator
  <2>4. CASE Initialised
    BY <2>4, <1>0 DEF Initialised, Exit, Fail, files, trained, operator
  <2>5. CASE Load
    <3>1. CASE Loadable
      BY <2>5, <3>1, <1>0 DEF Load, Restore, operator
    <3>2. CASE ~Loadable
      BY <2>5, <3>2, <1>0 DEF Load, Refuse, Exit, Fail, files, trained
    <3> QED
      BY <3>1, <3>2
  <2>6. CASE RestoreResumed
    <3>1. CASE Loadable
      BY <2>6, <3>1, <1>0 DEF RestoreResumed, Restore, operator
    <3>2. CASE ~Loadable
      BY <2>6, <3>2, <1>0 DEF RestoreResumed, Refuse, Exit, Fail, files, trained
    <3> QED
      BY <3>1, <3>2
  <2>7. CASE Reload
    <3>1. CASE Loadable
      BY <2>7, <3>1, <1>0 DEF Reload, Restore, operator
    <3>2. CASE ~Loadable
      BY <2>7, <3>2, <1>0 DEF Reload, Refuse, Exit, Fail, files, trained
    <3> QED
      BY <3>1, <3>2
  <2>8. CASE Base
    BY <2>8, <1>0 DEF Base, Exit, Fail, files, trained, operator
  <2>9. CASE Resume
    BY <2>9, <1>0 DEF Resume, Exit, Fail, files, trained, operator
  <2>10. CASE TrainRound
    BY <2>10, <1>0 DEF TrainRound, Exit, Fail, files, trained, operator
  <2>11. CASE SaveModel
    BY <2>11, <1>0 DEF SaveModel, Exit, Fail, files, trained, operator
  <2>12. CASE SaveOptimizer
    BY <2>12, <1>0 DEF SaveOptimizer, Exit, Fail, files, trained, operator
  <2>13. CASE SaveMarker
    BY <2>13, <1>0 DEF SaveMarker, Exit, Fail, files, trained, operator
  <2>14. CASE SaveState
    BY <2>14, <1>0 DEF SaveState, Exit, Fail, files, trained, operator
  <2>15. CASE Evaluate
    BY <2>15, <1>0 DEF Evaluate, Exit, Fail, files, trained, operator
  <2>16. CASE AppendRow
    BY <2>16, <1>0 DEF AppendRow, Exit, Fail, files, trained, operator
  <2>17. CASE Finish
    <3>1. CASE Selected(state.rows) = NoRound
      BY <2>17, <3>1, <1>0 DEF Finish, Exit, Fail
    <3>2. CASE Selected(state.rows) # NoRound
      <4>1. summary'.selected # NoRound
        BY <2>17, <3>2 DEF Finish
      <4> QED
        BY <4>1 DEF Chosen, NoSummary
    <3> QED
      BY <3>1, <3>2
  <2> QED
    BY <1>3, <2>1, <2>2, <2>3, <2>4, <2>5, <2>6, <2>7, <2>8, <2>9, <2>10, <2>11, <2>12, <2>13, <2>14, <2>15, <2>16, <2>17 DEF Training
<1>4. CASE Reporting
  <2>1. CASE EvaluateDirectional
    <3>1. summary'.selected = Selected(summary.rows) /\ Selected(summary.rows) # NoRound
      BY <2>1 DEF EvaluateDirectional, Types, Summaries, Summarised
    <3> QED
      BY <3>1 DEF Chosen, NoSummary
  <2>2. CASE MissingInput
    BY <2>2, <1>0 DEF MissingInput, Exit, Fail, files, trained
  <2>3. CASE WriteCertificate
    BY <2>3, <1>0 DEF WriteCertificate, trained, operator
  <2>4. CASE WriteReport
    BY <2>4, <1>0 DEF WriteReport, trained, operator
  <2>5. CASE WritePage
    <3>1. CASE byHand
      BY <2>5, <3>1, <1>0 DEF WritePage, Exit, trained
    <3>2. CASE ~byHand
      <4>1. step = "summarize"
        BY <2>5, <3>2 DEF WritePage, Orderly, StageOf
      <4> QED
        BY <2>5, <3>2, <4>1 DEF WritePage, Exit, trained, Chosen
    <3> QED
      BY <3>1, <3>2
  <2> QED
    BY <1>4, <2>1, <2>2, <2>3, <2>4, <2>5 DEF Reporting
<1>5. CASE ProbeIncorrect
  BY <1>5, <1>0 DEF ProbeIncorrect, Exit, Fail, trained
<1>6. CASE OutOfMemory
  BY <1>6, <1>0 DEF OutOfMemory, Exit, Fail, trained
<1>7. CASE Crash
  BY <1>7, <1>0 DEF Crash, Exit, Fail, files, trained
<1>8. ASSUME NEW stage \in Stages, StartByHand(stage) PROVE Chosen'
  BY <1>8 DEF StartByHand, Types, Chosen
<1>9. CASE UNCHANGED vars
  BY <1>9, <1>0 DEF vars, files, trained, process, operator
<1> QED
  BY <1>1, <1>2, <1>3, <1>4, <1>5, <1>6, <1>7, <1>8, <1>9 DEF Next, Work, Fault

\* The script certifies a checkpoint that the tolerances admit, and the earliest one,
\* for any scores and however often it died before.
THEOREM CertifiedIsWithinToleranceAlways == Spec => []CertifiedIsWithinTolerance
<1>1. Init => Orderly /\ Chosen /\ RowsHeld /\ BaseFirst
  BY DEF Init, Orderly, Chosen, RowsHeld, Saving, BaseFirst, NoState
<1>2. IInv /\ Orderly /\ Chosen /\ BaseFirst => CertifiedIsWithinTolerance
  <2> SUFFICES ASSUME IInv, Orderly, Chosen, BaseFirst, step = "done"
               PROVE  CertifiedIsWithinTolerance
    BY DEF CertifiedIsWithinTolerance
  <2>1. /\ summary.rows = saved.rows /\ page = Document /\ summary.selected = Selected(saved.rows)
        /\ evaluation = [round |-> summary.selected, by |-> model[summary.selected].by]
    BY DEF Orderly
  <2>2. Selected(saved.rows) # NoRound /\ saved.rows \in Seq(Row)
    BY <2>1 DEF Chosen, IInv, Summarised, Types, State
  <2>3. PICK row \in RowsOf(saved.rows) :
           /\ row.round = Selected(saved.rows) /\ WithinTolerance(saved.rows, row)
           /\ \A other \in RowsOf(saved.rows) :
                 WithinTolerance(saved.rows, other) => row.round <= other.round
    BY <2>2, SelectedIsEarliest
  <2>4. page.round = row.round /\ page.by = row.scored
    <3>1. page.round = summary.selected /\ page.by = model[summary.selected].by
      BY <2>1 DEF Document
    <3>2. PICK k \in 1..Len(saved.rows) : row = saved.rows[k]
      BY <2>2 DEF RowsOf
    <3>3. row.scored = model[row.round].by
      BY <3>2 DEF IInv, Scored, Backed
    <3> QED
      BY <2>1, <2>3, <3>1, <3>3
  <2>5. EmptyOfBase(saved.rows) = BaseScore.empty
    <3>1. InOrder(saved.rows)
      BY DEF IInv, SavedCurve, Curve
    <3>2. PICK k \in 1..Len(saved.rows) : row = saved.rows[k]
      BY <2>2 DEF RowsOf
    <3>3. 1 \in 1..Len(saved.rows) /\ Len(saved.rows) \in Nat
      BY <2>2, <3>2
    <3>4. saved.rows[1] \in RowsOf(saved.rows) /\ saved.rows[1].round = 0
      BY <2>2, <3>1, <3>3 DEF RowsOf, InOrder
    <3>5. ASSUME NEW a \in RowsOf(saved.rows), a.round = 0 PROVE a = saved.rows[1]
      <4>1. PICK j \in 1..Len(saved.rows) : a = saved.rows[j]
        BY <2>2 DEF RowsOf
      <4>2. a.round = j - 1
        BY <3>1, <4>1 DEF InOrder
      <4>3. j = 1
        BY <3>3, <3>5, <4>2
      <4> QED
        BY <4>1, <4>3
    <3>6. saved.rows[1].score = BaseScore
      BY <3>3 DEF BaseFirst
    <3> QED
      BY <3>4, <3>5, <3>6 DEF EmptyOfBase
  <2> QED
    BY <2>3, <2>4, <2>5 DEF CertifiedIsWithinTolerance, WithinTolerance
<1>3. /\ IInv /\ Orderly /\ Chosen /\ RowsHeld /\ Reproducible /\ BaseFirst /\ [Next]_vars
      => Orderly' /\ Chosen' /\ RowsHeld' /\ Reproducible' /\ BaseFirst'
  BY OrderlyStep, ChosenStep, SavedRowsStep, ReproducibleStep, BaseFirstStep
<1> QED
  BY Invariant, LoopStart, <1>1, <1>2, <1>3, PTL DEF Spec

-------------------------------------------------------------------------------
(* The script ends *)

\* The steps that are left of the stage that runs.  A round of the loop has eight; a base
\* model that is not scored yet, or a resumed round without its row, comes first.
RoundsLeft == 8 * (MaxRounds - round)
StageMost == 14 + 8 * MaxRounds
StageLeft ==
    CASE pc = "idle" -> 0
      [] pc \in {"probe-microbatch", "evaluate-directional", "page"} -> 1
      [] pc = "report" -> 2 [] pc = "summarize" -> 3
      [] pc = "train" -> 14 + 8 * MaxRounds
      [] pc = "load" -> 13 + 8 * MaxRounds
      [] pc = "initial" -> 12 + 8 * MaxRounds
      [] pc = "loaded" -> IF state.probes = <<>> THEN 11 + RoundsLeft ELSE 5 + RoundsLeft
      [] pc = "model" -> IF phase = "base" THEN 10 + RoundsLeft ELSE 8 + RoundsLeft
      [] pc = "optimizer" -> IF phase = "base" THEN 9 + RoundsLeft ELSE 7 + RoundsLeft
      [] pc = "marker" -> IF phase = "base" THEN 8 + RoundsLeft ELSE 6 + RoundsLeft
      [] pc = "state" -> 5 + RoundsLeft
      [] pc = "evaluate" -> IF phase = "base" THEN 7 + RoundsLeft ELSE 4 + RoundsLeft
      [] pc = "row" -> IF phase = "base" THEN 6 + RoundsLeft ELSE 3 + RoundsLeft
      [] pc \in {"restore", "reload"} -> 2 + RoundsLeft
      [] OTHER -> 1 + RoundsLeft

\* Those of the stages the script starts after the one it is at, and of the whole script.
StagesAhead ==
    CASE step = "probe-microbatch" -> 3 * (StageMost + 1)
      [] step = "train" -> 2 * (StageMost + 1)
      [] step = "evaluate-directional" -> StageMost + 1
      [] OTHER -> 0
AtStage == IF pc = "idle" THEN StageMost + 1 ELSE StageLeft
ScriptLeft == IF step \in {"done", "over"} THEN 0 ELSE StagesAhead + AtStage

\* A stage of the script finds what the stages before it have left.
InScript ==
    /\ byHand => step \in {"probe-microbatch", "over"}
    /\ ~byHand /\ pc # "idle" => step = StageOf(pc)
    /\ step = "train" => micro.status = "PASSED"
    /\ step \in {"evaluate-directional", "summarize"} => summary # NoSummary
    /\ step = "summarize" => evaluation # NoEvaluation

\* The stages that raise without a fault: no size fits, or no round is eligible.
GivesUp ==
    \/ pc = "probe-microbatch" /\ micro'.status = "BLOCKED_SURFACE08_OOM"
    \/ pc \in {"next", "finish"} /\ pc' = "idle" /\ Selected(saved'.rows) = NoRound

StageInRange == MaxRounds \in Nat /\ StageLeft \in 0 .. StageMost /\ (pc # "idle" => StageLeft >= 1)

\* There are as many as the bound says, and one at least for a stage that runs.
LEMMA LeftTypes == Types => StageInRange
<1> SUFFICES ASSUME Types PROVE StageInRange
  OBVIOUS
<1> ConstantsAssumption
  BY ConstantsAssumption
<1>1. MaxRounds \in Nat /\ round \in 0 .. MaxRounds
  BY DEF Types, Rounds, ConstantsAssumption
<1>2. RoundsLeft \in 0 .. 8 * MaxRounds
  BY <1>1 DEF RoundsLeft
<1>3. pc \in Places
  BY DEF Types
<1>4. CASE pc \in {"idle", "probe-microbatch", "evaluate-directional", "page", "report", "summarize",
                   "train", "load", "initial"}
  <2>1. CASE pc = "idle"
    BY <1>1, <2>1 DEF StageLeft, StageMost, StageInRange
  <2>2. CASE pc \in {"train", "load", "initial"}
    <3>1. StageLeft = 14 + 8 * MaxRounds \/ StageLeft = 13 + 8 * MaxRounds \/ StageLeft = 12 + 8 * MaxRounds
      BY <2>2 DEF StageLeft
    <3> QED
      BY <1>1, <3>1 DEF StageMost, StageInRange
  <2>3. CASE pc \in {"probe-microbatch", "evaluate-directional", "page", "report", "summarize"}
    <3>1. StageLeft \in 1 .. 3
      BY <2>3 DEF StageLeft
    <3> QED
      BY <1>1, <3>1 DEF StageMost, StageInRange
  <2> QED
    BY <1>4, <2>1, <2>2, <2>3
<1>5. CASE pc \in {"loaded", "model", "optimizer", "marker", "state", "evaluate", "row", "restore", "reload",
                   "next", "finish"}
  <2>1. \E k \in 1 .. 11 : StageLeft = k + RoundsLeft
    <3>1. CASE pc = "loaded"
      BY <3>1 DEF StageLeft
    <3>2. CASE pc \in {"model", "optimizer", "marker"}
      BY <3>2 DEF StageLeft
    <3>3. CASE pc \in {"state", "evaluate", "row"}
      BY <3>3 DEF StageLeft
    <3>4. CASE pc \in {"restore", "reload", "next", "finish"}
      BY <3>4 DEF StageLeft
    <3> QED
      BY <1>5, <3>1, <3>2, <3>3, <3>4
  <2> QED
    BY <1>1, <1>2, <1>5, <2>1 DEF StageMost, StageInRange
<1> QED
  BY <1>3, <1>4, <1>5 DEF Places, Stages

\* A stage comes nearer to its end with every step, one that fails included.
LEMMA StageCounts ==
  ASSUME IInv, Types', Next, pc # "idle"
  PROVE  StageLeft' < StageLeft
<1> ConstantsAssumption /\ Types /\ Place
  BY ConstantsAssumption DEF IInv
<1>1. /\ MaxRounds \in Nat /\ StageLeft >= 1 /\ StageLeft \in Nat
      /\ round \in 0 .. MaxRounds /\ round' \in 0 .. MaxRounds
  BY LeftTypes DEF Types, Rounds, StageInRange, StageMost
<1> USE DEF At, Goto
<1>i. ASSUME pc' = "idle" PROVE StageLeft' < StageLeft
  <2>1. StageLeft' = 0
    BY <1>i DEF StageLeft
  <2> QED
    BY <1>1, <2>1
<1>2. CASE \/ ProbeMicrobatch \/ TrainRefuses \/ Finish \/ EvaluateDirectional \/ MissingInput \/ WritePage
           \/ Fault \/ Refuse
  <2>1. pc' = "idle"
    BY <1>2 DEF ProbeMicrobatch, TrainRefuses, Finish, EvaluateDirectional, MissingInput, WritePage, Fault,
       ProbeIncorrect, OutOfMemory, Crash, Refuse, Fail, Exit
  <2> QED
    BY <1>i, <2>1
<1>3. CASE Load
  <2>1. CASE Loadable
    <3>1. pc = "load" /\ pc' = "loaded"
      BY <1>3, <2>1 DEF Load
    <3>2. StageLeft = 13 + 8 * MaxRounds
      BY <3>1 DEF StageLeft
    <3>3. PICK q \in 0 .. MaxRounds : round' = q
      BY <1>1
    <3>4. StageLeft' = 11 + RoundsLeft' \/ StageLeft' = 5 + RoundsLeft'
      BY <3>1 DEF StageLeft
    <3>5. RoundsLeft' = 8 * (MaxRounds - q)
      BY <3>3 DEF RoundsLeft
    <3> QED
      BY <1>1, <3>2, <3>4, <3>5
  <2>2. CASE ~Loadable
    BY <1>3, <1>2, <2>2 DEF Load
  <2> QED
    BY <2>1, <2>2
<1>4. CASE RestoreResumed
  <2>1. CASE Loadable
    <3>1. pc = "restore" /\ pc' = "next" /\ round' = round
      BY <1>4, <2>1 DEF RestoreResumed, Restore, Loadable
    <3>2. StageLeft = 2 + RoundsLeft /\ StageLeft' = 1 + RoundsLeft'
      BY <3>1 DEF StageLeft
    <3> QED
      BY <1>1, <3>1, <3>2 DEF RoundsLeft
  <2>2. CASE ~Loadable
    BY <1>4, <1>2, <2>2 DEF RestoreResumed
  <2> QED
    BY <2>1, <2>2
<1>5. CASE Reload
  <2>1. CASE Loadable
    <3>1. pc = "reload" /\ pc' \in {"next", "finish"} /\ round' = round
      BY <1>5, <2>1 DEF Reload, Restore, Loadable
    <3>2. StageLeft = 2 + RoundsLeft /\ StageLeft' = 1 + RoundsLeft'
      BY <3>1 DEF StageLeft
    <3> QED
      BY <1>1, <3>1, <3>2 DEF RoundsLeft
  <2>2. CASE ~Loadable
    BY <1>5, <1>2, <2>2 DEF Reload
  <2> QED
    BY <2>1, <2>2
<1>6. CASE Train
  <2>1. pc = "train" /\ pc' = "load"
    BY <1>6 DEF Train
  <2> QED
    BY <1>1, <2>1 DEF StageLeft, RoundsLeft
<1>7. CASE Initialise
  <2>1. pc = "load" /\ pc' = "initial"
    BY <1>7 DEF Initialise
  <2> QED
    BY <1>1, <2>1 DEF StageLeft, RoundsLeft
<1>8. CASE Initialised
  <2>1. pc = "initial" /\ pc' = "loaded" /\ round' = 0
    BY <1>8 DEF Initialised
  <2> QED
    BY <1>1, <2>1 DEF StageLeft, RoundsLeft
<1>9. CASE Base
  <2>1. pc = "loaded" /\ state.probes = <<>> /\ pc' = "model" /\ phase' = "base" /\ round' = round
    BY <1>9 DEF Base
  <2> QED
    BY <1>1, <2>1 DEF StageLeft, RoundsLeft
<1>10. CASE Resume
  <2>1. /\ pc = "loaded" /\ state.probes # <<>> /\ round' = round
        /\ pc' = "next" \/ (pc' = "evaluate" /\ phase' = "resume")
    BY <1>10 DEF Resume
  <2> QED
    BY <1>1, <2>1 DEF StageLeft, RoundsLeft
<1>11. CASE TrainRound
  <2>1. pc = "next" /\ pc' = "model" /\ phase' = "loop" /\ round' = round + 1
    BY <1>11 DEF TrainRound
  <2> QED
    BY <1>1, <2>1 DEF StageLeft, RoundsLeft
<1>12. CASE SaveModel
  <2>1. pc = "model" /\ pc' = "optimizer" /\ phase' = phase /\ round' = round
    BY <1>12 DEF SaveModel, process, Place, Saving, Continues, CompleteRounds, Types
  <2> QED
    BY <1>1, <2>1 DEF StageLeft, RoundsLeft
<1>13. CASE SaveOptimizer
  <2>1. pc = "optimizer" /\ pc' = "marker" /\ phase' = phase /\ round' = round
    BY <1>13 DEF SaveOptimizer, process
  <2> QED
    BY <1>1, <2>1 DEF StageLeft, RoundsLeft
<1>14. CASE SaveMarker
  <2>1. /\ pc = "marker" /\ phase' = phase /\ round' = round
        /\ pc' = IF phase = "base" THEN "evaluate" ELSE "state"
    BY <1>14 DEF SaveMarker, AfterSave, process
  <2> QED
    BY <1>1, <2>1 DEF StageLeft, RoundsLeft
<1>15. CASE SaveState
  <2>1. pc = "state" /\ pc' = "evaluate" /\ phase' = "loop" /\ round' = round
    BY <1>15 DEF SaveState, Place
  <2> QED
    BY <1>1, <2>1 DEF StageLeft, RoundsLeft
<1>16. CASE Evaluate
  <2>1. pc = "evaluate" /\ pc' = "row" /\ phase' = phase /\ round' = round
    BY <1>16 DEF Evaluate, process
  <2> QED
    BY <1>1, <2>1 DEF StageLeft, RoundsLeft
<1>17. CASE AppendRow
  <2>1. /\ pc = "row" /\ round' = round /\ phase \in {"base", "resume", "loop"}
        /\ pc' = CASE phase = "base" -> "loaded" [] phase = "resume" -> "restore" [] phase = "loop" -> "reload"
    BY <1>17 DEF AppendRow, Types
  <2>2. state'.probes # <<>>
    <3>1. Len(state.probes) = round + 1
      BY <2>1 DEF IInv, HeldCurve, Scoring, Curve
    <3>2. state'.probes = state.probes
      BY <1>17 DEF AppendRow, Types, State
    <3> QED
      BY <1>1, <3>1, <3>2
  <2> QED
    BY <1>1, <2>1, <2>2 DEF StageLeft, RoundsLeft
<1>18. CASE WriteCertificate
  <2>1. pc = "summarize" /\ pc' = "report"
    BY <1>18 DEF WriteCertificate
  <2> QED
    BY <1>1, <2>1 DEF StageLeft, RoundsLeft
<1>19. CASE WriteReport
  <2>1. pc = "report" /\ pc' = "page"
    BY <1>19 DEF WriteReport
  <2> QED
    BY <1>1, <2>1 DEF StageLeft, RoundsLeft
<1>20. ~ScriptStarts /\ \A stage \in Stages : ~StartByHand(stage)
  BY DEF ScriptStarts, StartByHand
<1> QED
  BY <1>2, <1>3, <1>4, <1>5, <1>6, <1>7, <1>8, <1>9, <1>10, <1>11, <1>12, <1>13, <1>14, <1>15, <1>16, <1>17, <1>18, <1>19, <1>20 DEF Next, Work, Training, Reporting

\* A stage that passes leaves what the next one needs, and one that fails lets the script
\* begin again.
LEMMA InScriptStep == IInv /\ InScript /\ [Next]_vars => InScript'
<1> SUFFICES ASSUME IInv, InScript, [Next]_vars PROVE InScript'
  OBVIOUS
<1> Types /\ Summarised
  BY DEF IInv
<1>f. ASSUME Fail PROVE InScript'
  BY <1>f DEF Fail, Exit, InScript
<1>s. ASSUME UNCHANGED <<step, byHand, micro, summary, evaluation>>, pc # "idle",
             pc' # "idle" => StageOf(pc') = StageOf(pc)
      PROVE  InScript'
  BY <1>s DEF InScript
<1> USE DEF At, Goto, StageOf, Stages
<1>1. CASE ScriptStarts
  BY <1>1 DEF ScriptStarts, files, trained, operator, InScript
<1>2. CASE ProbeMicrobatch
  <2>1. PICK fits \in SUBSET (Sizes \ ooms) :
            IF fits = {}
            THEN micro' = [status |-> "BLOCKED_SURFACE08_OOM", size |-> 0] /\ Fail
            ELSE /\ micro' = [status |-> "PASSED",
                              size |-> CHOOSE s \in fits : \A t \in fits : t <= s]
                 /\ Exit("train")
    BY <1>2 DEF ProbeMicrobatch
  <2>2. CASE fits = {}
    BY <1>f, <2>1, <2>2
  <2>3. CASE fits # {}
    BY <2>1, <2>3 DEF Exit, InScript
  <2> QED
    BY <2>2, <2>3
<1>3. CASE Training
  <2>1. CASE Train
    BY <2>1, <1>s DEF Train, files, trained, operator
  <2>2. CASE TrainRefuses
    BY <2>2, <1>f DEF TrainRefuses
  <2>3. CASE Initialise
    BY <2>3, <1>s DEF Initialise, files, trained, operator
  <2>4. CASE Initialised
    BY <2>4, <1>s DEF Initialised, files, trained, operator
  <2>5. CASE Load
    <3>1. CASE Loadable
      BY <2>5, <3>1, <1>s DEF Load, Restore, operator
    <3>2. CASE ~Loadable
      BY <2>5, <3>2, <1>f DEF Load, Refuse
    <3> QED
      BY <3>1, <3>2
  <2>6. CASE RestoreResumed
    <3>1. CASE Loadable
      BY <2>6, <3>1, <1>s DEF RestoreResumed, Restore, operator
    <3>2. CASE ~Loadable
      BY <2>6, <3>2, <1>f DEF RestoreResumed, Refuse
    <3> QED
      BY <3>1, <3>2
  <2>7. CASE Reload
    <3>1. CASE Loadable
      BY <2>7, <3>1, <1>s DEF Reload, Restore, operator
    <3>2. CASE ~Loadable
      BY <2>7, <3>2, <1>f DEF Reload, Refuse
    <3> QED
      BY <3>1, <3>2
  <2>8. CASE Base
    BY <2>8, <1>s DEF Base, files, trained, operator
  <2>9. CASE Resume
    BY <2>9, <1>s DEF Resume, files, trained, operator
  <2>10. CASE TrainRound
    BY <2>10, <1>s DEF TrainRound, files, trained, operator
  <2>11. CASE SaveModel
    BY <2>11, <1>s DEF SaveModel, AfterSave, files, trained, operator
  <2>12. CASE SaveOptimizer
    BY <2>12, <1>s DEF SaveOptimizer, files, trained, operator
  <2>13. CASE SaveMarker
    BY <2>13, <1>s DEF SaveMarker, AfterSave, files, trained, operator
  <2>14. CASE SaveState
    BY <2>14, <1>s DEF SaveState, files, trained, operator
  <2>15. CASE Evaluate
    BY <2>15, <1>s DEF Evaluate, files, trained, operator
  <2>16. CASE AppendRow
    BY <2>16, <1>s DEF AppendRow, files, trained, operator, Types
  <2>17. CASE Finish
    <3>1. CASE Selected(state.rows) = NoRound
      BY <2>17, <3>1, <1>f DEF Finish
    <3>2. CASE Selected(state.rows) # NoRound
      <4>1. summary'.selected # NoRound /\ Exit("evaluate-directional")
        BY <2>17, <3>2 DEF Finish
      <4> QED
        BY <4>1 DEF Exit, InScript, NoSummary
    <3> QED
      BY <3>1, <3>2
  <2> QED
    BY <1>3, <2>1, <2>2, <2>3, <2>4, <2>5, <2>6, <2>7, <2>8, <2>9, <2>10, <2>11, <2>12, <2>13, <2>14, <2>15, <2>16, <2>17 DEF Training
<1>4. CASE Reporting
  <2>1. CASE EvaluateDirectional
    <3>1. summary'.selected = Selected(summary.rows) /\ Selected(summary.rows) # NoRound
      BY <2>1 DEF EvaluateDirectional, Types, Summaries, Summarised
    <3>2. CASE Fail
      BY <1>f, <3>2
    <3>3. CASE ~Fail
      <4>1. evaluation'.round # NoRound /\ Exit("summarize")
        BY <2>1, <3>1, <3>3 DEF EvaluateDirectional
      <4> QED
        BY <3>1, <4>1 DEF Exit, InScript, NoSummary, NoEvaluation
    <3> QED
      BY <3>2, <3>3
  <2>2. CASE MissingInput
    BY <2>2, <1>f DEF MissingInput
  <2>3. CASE WriteCertificate
    BY <2>3, <1>s DEF WriteCertificate, trained, operator
  <2>4. CASE WriteReport
    BY <2>4, <1>s DEF WriteReport, trained, operator
  <2>5. CASE WritePage
    BY <2>5 DEF WritePage, Exit, trained, InScript
  <2> QED
    BY <1>4, <2>1, <2>2, <2>3, <2>4, <2>5 DEF Reporting
<1>5. CASE Fault
  BY <1>5, <1>f DEF Fault, ProbeIncorrect, OutOfMemory, Crash
<1>6. ASSUME NEW stage \in Stages, StartByHand(stage) PROVE InScript'
  BY <1>6 DEF StartByHand, files, trained, InScript
<1>7. CASE UNCHANGED vars
  BY <1>7 DEF vars, files, trained, process, operator, InScript
<1> QED
  BY <1>1, <1>2, <1>3, <1>4, <1>5, <1>6, <1>7 DEF Next, Work

\* A stage of the script that passes hands over, and none fails without a fault but those
\* that give up.
LEMMA ScriptCounts ==
  ASSUME IInv, IInv', InScript, Next, ~Fault, ~byHand, ~byHand', ~GivesUp
  PROVE  ScriptLeft' < ScriptLeft
<1> ConstantsAssumption /\ Types /\ Types'
  BY ConstantsAssumption DEF IInv
<1>1. /\ MaxRounds \in Nat /\ StageLeft \in 0 .. StageMost /\ (pc # "idle" => StageLeft >= 1)
      /\ StageMost \in Nat
  BY LeftTypes DEF StageMost, StageInRange
<1>2. StageLeft' \in 0 .. StageMost
  <2>1. StageInRange'
    BY LeftTypes, PTL
  <2> QED
    BY <2>1 DEF StageMost, StageInRange
<1> USE DEF At, Goto, StageOf, Stages
\* Nothing that begins again.
<1>f. ~(pc # "idle" /\ Fail)
  <2> SUFFICES ASSUME pc # "idle", Fail PROVE FALSE
    OBVIOUS
  <2>1. step = StageOf(pc) /\ ~refused'
    BY DEF InScript, IInv, NeverRefused
  <2>2. pc' = "idle" /\ step' = "probe-microbatch"
    BY DEF Fail, Exit
  <2>3. ~ProbeMicrobatch
    <3> SUFFICES ASSUME ProbeMicrobatch PROVE FALSE
      OBVIOUS
    <3>1. micro'.status = "BLOCKED_SURFACE08_OOM" /\ pc = "probe-microbatch"
      BY <2>2 DEF ProbeMicrobatch, Exit
    <3> QED
      BY <3>1 DEF GivesUp
  <2>4. ~TrainRefuses
    BY <2>1 DEF TrainRefuses, InScript
  <2>5. ~Finish
    <3> SUFFICES ASSUME Finish PROVE FALSE
      OBVIOUS
    <3>1. Selected(state.rows) = NoRound /\ saved' = state /\ pc \in {"next", "finish"}
      BY <2>2 DEF Finish, Exit
    <3> QED
      BY <2>2, <3>1 DEF GivesUp
  <2>6. ~EvaluateDirectional
    BY <2>1, <2>2 DEF EvaluateDirectional, Exit
  <2>7. ~MissingInput
    BY <2>1 DEF MissingInput, InScript
  <2>8. ~WritePage
    BY <2>2 DEF WritePage, Exit
  <2>9. ~(Load \/ RestoreResumed \/ Reload)
    BY <2>1, <2>2 DEF Load, RestoreResumed, Reload, Refuse
  <2>10. ~(\/ Train \/ Initialise \/ Initialised \/ Base \/ Resume \/ TrainRound \/ SaveModel \/ SaveOptimizer
           \/ SaveMarker \/ SaveState \/ Evaluate \/ AppendRow \/ WriteCertificate \/ WriteReport)
    BY <2>2 DEF Train, Initialise, Initialised, Base, Resume, TrainRound, SaveModel, SaveOptimizer,
       SaveMarker, SaveState, Evaluate, AppendRow, WriteCertificate, WriteReport, AfterSave, Types
  <2>11. ~ScriptStarts /\ \A stage \in Stages : ~StartByHand(stage)
    BY DEF ScriptStarts, StartByHand
  <2> QED
    BY <2>3, <2>4, <2>5, <2>6, <2>7, <2>8, <2>9, <2>10, <2>11 DEF Next, Work, Training, Reporting
\* The script starts its next stage.
<1>3. CASE pc = "idle"
  <2>1. ScriptStarts \/ \E stage \in Stages : StartByHand(stage)
    BY <1>3 DEF Next, Work, ProbeMicrobatch, Training, Train, TrainRefuses, Initialise, Initialised, Load,
       RestoreResumed, Reload, Base, Resume, TrainRound, SaveModel, SaveOptimizer, SaveMarker, SaveState,
       Evaluate, AppendRow, Finish, Reporting, EvaluateDirectional, MissingInput, WriteCertificate, WriteReport,
       WritePage
  <2>2. ScriptStarts
    BY <2>1 DEF StartByHand
  <2>3. step \in Stages /\ step' = step /\ pc' = step
    BY <2>2 DEF ScriptStarts, operator
  <2>4. PICK a \in Nat : StagesAhead = a /\ StagesAhead' = a
    BY <1>1, <2>3 DEF StagesAhead, StageMost
  <2>5. ScriptLeft = a + (StageMost + 1)
    BY <1>3, <2>3, <2>4 DEF ScriptLeft, AtStage
  <2>6. ScriptLeft' = a + StageLeft'
    BY <2>3, <2>4 DEF ScriptLeft, AtStage
  <2>7. PICK left \in 0 .. StageMost : StageLeft' = left
    BY <1>2
  <2>8. left < StageMost + 1
    BY <1>1, <2>7
  <2> QED
    BY <1>1, <2>5, <2>6, <2>7, <2>8
\* A stage goes on.
<1>4. CASE pc # "idle" /\ pc' # "idle"
  <2>1. step' = step
    BY <1>4 DEF Next, Work, ScriptStarts, StartByHand, ProbeMicrobatch, Training, Train, TrainRefuses, Initialise,
       Initialised, Load, Restore, Refuse, RestoreResumed, Reload, Base, Resume, TrainRound, SaveModel, SaveOptimizer,
       SaveMarker, SaveState, Evaluate, AppendRow, Finish, Reporting, EvaluateDirectional, MissingInput,
       WriteCertificate, WriteReport, WritePage, Exit, Fail, operator
  <2>2. step = StageOf(pc)
    BY <1>4 DEF InScript
  <2>3. PICK a \in Nat : StagesAhead = a /\ StagesAhead' = a
    BY <1>1, <2>1 DEF StagesAhead, StageMost
  <2>4. ScriptLeft = a + StageLeft
    BY <1>4, <2>2, <2>3 DEF ScriptLeft, AtStage
  <2>5. ScriptLeft' = a + StageLeft'
    BY <1>4, <2>1, <2>2, <2>3 DEF ScriptLeft, AtStage
  <2>6. StageLeft' < StageLeft
    BY <1>4, StageCounts
  <2>7. PICK left \in 0 .. StageMost : StageLeft' = left
    BY <1>2
  <2>8. PICK most \in 0 .. StageMost : StageLeft = most
    BY <1>1
  <2>9. left < most
    BY <2>6, <2>7, <2>8
  <2> QED
    BY <1>1, <2>4, <2>5, <2>7, <2>8, <2>9
\* A stage passes.
<1>5. CASE pc # "idle" /\ pc' = "idle"
  <2>1. step = StageOf(pc) /\ StageLeft >= 1
    BY <1>1, <1>5 DEF InScript
  <2>2. \/ ProbeMicrobatch /\ Exit("train")
        \/ Finish /\ Exit("evaluate-directional")
        \/ EvaluateDirectional /\ Exit("summarize")
        \/ WritePage /\ Exit("done")
    <3>1. CASE ProbeMicrobatch
      BY <3>1, <1>f, <1>5 DEF ProbeMicrobatch
    <3>2. CASE Finish
      BY <3>2, <1>f, <1>5 DEF Finish
    <3>3. CASE EvaluateDirectional
      BY <3>3, <1>f, <1>5 DEF EvaluateDirectional
    <3>4. CASE WritePage
      BY <3>4 DEF WritePage
    <3>5. ~(TrainRefuses \/ MissingInput)
      BY <1>f, <1>5 DEF TrainRefuses, MissingInput
    <3>6. ~(Load \/ RestoreResumed \/ Reload)
      BY <1>f, <1>5 DEF Load, RestoreResumed, Reload, Refuse
    <3>7. ~(\/ Train \/ Initialise \/ Initialised \/ Base \/ Resume \/ TrainRound \/ SaveModel \/ SaveOptimizer
            \/ SaveMarker \/ SaveState \/ Evaluate \/ AppendRow \/ WriteCertificate \/ WriteReport)
      BY <1>5 DEF Train, Initialise, Initialised, Base, Resume, TrainRound, SaveModel, SaveOptimizer,
         SaveMarker, SaveState, Evaluate, AppendRow, WriteCertificate, WriteReport, AfterSave, Types
    <3>8. ~ScriptStarts /\ \A stage \in Stages : ~StartByHand(stage)
      BY <1>5 DEF ScriptStarts, StartByHand
    <3> QED
      BY <3>1, <3>2, <3>3, <3>4, <3>5, <3>6, <3>7, <3>8 DEF Next, Work, Training, Reporting
  <2>3. \/ step = "probe-microbatch" /\ step' = "train"
        \/ step = "train" /\ step' = "evaluate-directional"
        \/ step = "evaluate-directional" /\ step' = "summarize"
        \/ step = "summarize" /\ step' = "done"
    BY <2>1, <2>2 DEF ProbeMicrobatch, Finish, EvaluateDirectional, WritePage, Exit
  <2>4. ScriptLeft = StagesAhead + StageLeft /\ ScriptLeft' = StagesAhead /\ StagesAhead \in Nat
    <3>1. StagesAhead \in Nat
      BY <1>1 DEF StagesAhead
    <3>2. ScriptLeft = StagesAhead + StageLeft
      BY <1>5, <2>3 DEF ScriptLeft, AtStage
    <3>3. step' = "done" \/ ScriptLeft' = StagesAhead' + (StageMost + 1)
      BY <1>5, <2>3 DEF ScriptLeft, AtStage, StageMost
    <3>4. CASE step' = "done"
      BY <2>3, <3>1, <3>2, <3>4 DEF ScriptLeft, StagesAhead
    <3>5. CASE step' # "done"
      BY <1>1, <2>3, <3>1, <3>2, <3>3, <3>5 DEF StagesAhead
    <3> QED
      BY <3>4, <3>5
  <2> QED
    BY <1>1, <2>1, <2>4
<1> QED
  BY <1>3, <1>4, <1>5

\* The script ends: unless a stage dies or is started by hand, or gives up because no size
\* fits or no round is eligible, every step takes one of the at most 4 * (15 + 8 * MaxRounds)
\* that are left.  No stage refuses what an earlier one or a dead one has left, and none
\* begins another time for any other reason.
THEOREM ScriptIsBounded ==
  Spec => /\ [](ScriptLeft \in 0 .. 4 * (StageMost + 1))
          /\ [][Fault \/ byHand \/ byHand' \/ GivesUp \/ ScriptLeft' < ScriptLeft]_vars
<1>1. Init => InScript
  BY DEF Init, InScript
<1>2. IInv => ScriptLeft \in 0 .. 4 * (StageMost + 1)
  <2> SUFFICES ASSUME IInv PROVE ScriptLeft \in 0 .. 4 * (StageMost + 1)
    OBVIOUS
  <2>1. StageLeft \in 0 .. StageMost /\ StageMost \in Nat
    BY LeftTypes DEF IInv, StageMost, StageInRange
  <2>2. StagesAhead \in 0 .. 3 * (StageMost + 1)
    BY <2>1 DEF StagesAhead
  <2> QED
    BY <2>1, <2>2 DEF ScriptLeft, AtStage
<1>3. IInv /\ IInv' /\ InScript /\ [Next]_vars
        => [Fault \/ byHand \/ byHand' \/ GivesUp \/ ScriptLeft' < ScriptLeft]_vars
  BY ScriptCounts
<1> QED
  BY Invariant, InScriptStep, <1>1, <1>2, <1>3, PTL DEF Spec
================================================================================
