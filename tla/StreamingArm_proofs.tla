-------------------------- MODULE StreamingArm_proofs --------------------------
(***************************************************************************)
(* Proofs about StreamingArm for any number of calls and faults.           *)
(***************************************************************************)
EXTENDS StreamingArm, TLAPS

Waiting == pc \in {"read", "terminate", "kill"}
Scoring == pc \in {"parse", "predictions", "evaluation"}

\* Where a call is tells whether its child is there, and what it can rely upon.
InOrder ==
    /\ \A c \in Calls : (c > call \/ (c = call /\ pc \in {"monitor", "popen"})) => child[c] = "absent"
    /\ \A c \in abandoned : c <= call /\ (c = call => pc = "idle")
    /\ stuck \subseteq hung
    /\ pc \in {"finally", "join"} /\ ~error => Ended(call)
    /\ Scoring \/ pc = "summary" => Ended(call)
    /\ Scoring => code[call] = 0
    /\ pc \in {"terminate", "kill"} => error

\* No predictions without an output that some child has written.
Made ==
    /\ output.full => output.by \in Calls
    /\ pc = "predictions" => parsed \in Calls
    /\ pc = "evaluation" \/ (pc = "summary" /\ code[call] = 0) => predictions \in Calls

\* A child that may still write is the one that is waited for, or its stage was
\* killed; beside an undisturbed call there is none of the latter.
NoStrays ==
    /\ \A c \in Calls :
          Alive(c) /\ c \notin hung => c \in abandoned \/ (c = call /\ Waiting)
    /\ pc # "idle" /\ call \notin disturbed => \A c \in abandoned : ~Alive(c)

\* What an undisturbed call finds is its own, at every place on the way from the
\* child's file to the report.
Own ==
    /\ pc # "idle" /\ call \notin disturbed =>
          /\ child[call] \in {"writing", "written"} => output.by = call
          /\ child[call] = "written" => output.full
          /\ child[call] = "ended" /\ code[call] = 0 => output.by = call /\ output.full
          /\ pc = "predictions" => parsed = call
          /\ pc = "evaluation" \/ (pc = "summary" /\ code[call] = 0) => predictions = call
    /\ evaluation.call <= call
    /\ OwnPredictions

IInv == TypeOK /\ InOrder /\ Made /\ NoStrays /\ Own

\* Nothing has been evaluated at first.
LEMMA InitIInv == Init => IInv
<1> SUFFICES ASSUME Init PROVE IInv
  OBVIOUS
<1> USE ConstantsAssumption DEF Init, Calls, NoOutput, NoEvaluation
<1>1. TypeOK
  BY DEF TypeOK
<1>2. InOrder
  BY DEF InOrder, Ended, Scoring
<1>3. Made
  BY DEF Made
<1>4. NoStrays
  BY DEF NoStrays, Alive
<1>5. Own
  BY DEF Own, OwnPredictions
<1> QED
  BY <1>1, <1>2, <1>3, <1>4, <1>5 DEF IInv

\* Every step keeps the types; predictions are a child's by Made.
LEMMA TypeOKStep == IInv /\ [Next]_vars => TypeOK'
<1> SUFFICES ASSUME IInv, [Next]_vars PROVE TypeOK'
  OBVIOUS
<1> USE ConstantsAssumption DEF IInv, TypeOK, Made, At, Goto, Alive, Ended, Fault, Waiting, Scoring, Calls, NoEvaluation, NoOutput, OwnPredictions,
           vars, files, processes, history
<1>1. CASE StartCall
  <2>1. call + 1 \in Calls /\ disturbed' \subseteq Calls
    BY <1>1 DEF StartCall
  <2> QED
    BY <1>1, <2>1 DEF StartCall
<1>2. CASE Stage
  <2>1. CASE StartMonitor
    BY <2>1 DEF StartMonitor
  <2>2. CASE Popen
    BY <2>2 DEF Popen
  <2>3. CASE ReadToEnd
    BY <2>3 DEF ReadToEnd
  <2>4. CASE ChildGone
    BY <2>4 DEF ChildGone
  <2>5. CASE TerminateExpires
    BY <2>5 DEF TerminateExpires
  <2>6. CASE KillExpires
    BY <2>6 DEF KillExpires
  <2>7. CASE StopMonitor
    BY <2>7 DEF StopMonitor
  <2>8. CASE Join
    BY <2>8 DEF Join, Leave
  <2>9. CASE Parse
    BY <2>9 DEF Parse
  <2>10. CASE WritePredictions
    BY <2>10 DEF WritePredictions
  <2>11. CASE WriteSummary
    BY <2>11 DEF WriteSummary
  <2>12. CASE WriteEvaluation
    BY <2>12 DEF WriteEvaluation
  <2> QED
    BY <1>2, <2>1, <2>2, <2>3, <2>4, <2>5, <2>6, <2>7, <2>8, <2>9, <2>10, <2>11, <2>12 DEF Stage
<1>3. CASE PopenRaises
  BY <1>3 DEF PopenRaises
<1>4. CASE Interrupt
  BY <1>4 DEF Interrupt
<1>5. CASE Killed
  <2>1. call \in Calls /\ abandoned' \subseteq Calls
    BY <1>5 DEF Killed
  <2> QED
    BY <1>5, <2>1 DEF Killed
<1>6. CASE Query
  BY <1>6 DEF Query
<1>7. CASE QueryAnswered
  BY <1>7 DEF QueryAnswered
<1>8. CASE MonitorEnds
  BY <1>8 DEF MonitorEnds
<1>9. ASSUME NEW c \in Calls, Child(c) PROVE TypeOK'
  <2>1. CASE OpenOutput(c)
    BY <2>1 DEF OpenOutput, Moves
  <2>2. CASE WriteRows(c)
    BY <2>2 DEF WriteRows, Moves
  <2>3. CASE Exit(c)
    BY <2>3 DEF Exit, Moves
  <2>4. CASE DiesOfSignal(c)
    BY <2>4 DEF DiesOfSignal
  <2> QED
    BY <1>9, <2>1, <2>2, <2>3, <2>4 DEF Child
<1>10. ASSUME NEW c \in Calls, Misbehaves(c) PROVE TypeOK'
  <2>1. CASE ExitWithoutOutput(c)
    BY <2>1 DEF ExitWithoutOutput, Moves
  <2>2. CASE Fails(c)
    BY <2>2 DEF Fails, Moves
  <2>3. ASSUME NEW inDriver \in BOOLEAN, Hangs(c, inDriver) PROVE TypeOK'
    BY <2>3 DEF Hangs
  <2> QED
    BY <1>10, <2>1, <2>2, <2>3 DEF Misbehaves
<1>11. CASE UNCHANGED vars
  BY <1>11
<1> QED
  BY <1>1, <1>2, <1>3, <1>4, <1>5, <1>6, <1>7, <1>8, <1>9, <1>10, <1>11 DEF Next

\* A call goes on only with a child that has ended, and keeps to the order of the code.
LEMMA InOrderStep == IInv /\ [Next]_vars => InOrder'
<1> SUFFICES ASSUME IInv, [Next]_vars PROVE InOrder'
  OBVIOUS
<1> USE ConstantsAssumption DEF IInv, TypeOK, InOrder, At, Goto, Alive, Ended, Fault, Waiting, Scoring, Calls, NoEvaluation, NoOutput, OwnPredictions,
           vars, files, processes, history
<1>1. CASE StartCall
  BY <1>1 DEF StartCall
<1>2. CASE Stage
  <2>1. CASE StartMonitor
    BY <2>1 DEF StartMonitor
  <2>2. CASE Popen
    BY <2>2 DEF Popen
  <2>3. CASE ReadToEnd
    BY <2>3 DEF ReadToEnd
  <2>4. CASE ChildGone
    BY <2>4 DEF ChildGone
  <2>5. CASE TerminateExpires
    BY <2>5 DEF TerminateExpires
  <2>6. CASE KillExpires
    BY <2>6 DEF KillExpires
  <2>7. CASE StopMonitor
    BY <2>7 DEF StopMonitor
  <2>8. CASE Join
    BY <2>8 DEF Join, Leave
  <2>9. CASE Parse
    BY <2>9 DEF Parse
  <2>10. CASE WritePredictions
    BY <2>10 DEF WritePredictions
  <2>11. CASE WriteSummary
    BY <2>11 DEF WriteSummary
  <2>12. CASE WriteEvaluation
    BY <2>12 DEF WriteEvaluation
  <2> QED
    BY <1>2, <2>1, <2>2, <2>3, <2>4, <2>5, <2>6, <2>7, <2>8, <2>9, <2>10, <2>11, <2>12 DEF Stage
<1>3. CASE PopenRaises
  BY <1>3 DEF PopenRaises
<1>4. CASE Interrupt
  BY <1>4 DEF Interrupt
<1>5. CASE Killed
  BY <1>5 DEF Killed
<1>6. CASE Query
  BY <1>6 DEF Query
<1>7. CASE QueryAnswered
  BY <1>7 DEF QueryAnswered
<1>8. CASE MonitorEnds
  BY <1>8 DEF MonitorEnds
<1>9. ASSUME NEW c \in Calls, Child(c) PROVE InOrder'
  <2>1. CASE OpenOutput(c)
    BY <2>1 DEF OpenOutput, Moves
  <2>2. CASE WriteRows(c)
    BY <2>2 DEF WriteRows, Moves
  <2>3. CASE Exit(c)
    BY <2>3 DEF Exit, Moves
  <2>4. CASE DiesOfSignal(c)
    BY <2>4 DEF DiesOfSignal
  <2> QED
    BY <1>9, <2>1, <2>2, <2>3, <2>4 DEF Child
<1>10. ASSUME NEW c \in Calls, Misbehaves(c) PROVE InOrder'
  <2>1. CASE ExitWithoutOutput(c)
    BY <2>1 DEF ExitWithoutOutput, Moves
  <2>2. CASE Fails(c)
    BY <2>2 DEF Fails, Moves
  <2>3. ASSUME NEW inDriver \in BOOLEAN, Hangs(c, inDriver) PROVE InOrder'
    BY <2>3 DEF Hangs
  <2> QED
    BY <1>10, <2>1, <2>2, <2>3 DEF Misbehaves
<1>11. CASE UNCHANGED vars
  BY <1>11
<1> QED
  BY <1>1, <1>2, <1>3, <1>4, <1>5, <1>6, <1>7, <1>8, <1>9, <1>10, <1>11 DEF Next

\* Only a whole output is parsed, and only a child writes it.
LEMMA MadeStep == IInv /\ [Next]_vars => Made'
<1> SUFFICES ASSUME IInv, [Next]_vars PROVE Made'
  OBVIOUS
<1> USE ConstantsAssumption DEF IInv, TypeOK, InOrder, Made, At, Goto, Alive, Ended, Fault, Waiting, Scoring, Calls, NoEvaluation, NoOutput, OwnPredictions,
           vars, files, processes, history
<1>1. CASE StartCall
  BY <1>1 DEF StartCall
<1>2. CASE Stage
  <2>1. CASE StartMonitor
    BY <2>1 DEF StartMonitor
  <2>2. CASE Popen
    BY <2>2 DEF Popen
  <2>3. CASE ReadToEnd
    BY <2>3 DEF ReadToEnd
  <2>4. CASE ChildGone
    BY <2>4 DEF ChildGone
  <2>5. CASE TerminateExpires
    BY <2>5 DEF TerminateExpires
  <2>6. CASE KillExpires
    BY <2>6 DEF KillExpires
  <2>7. CASE StopMonitor
    BY <2>7 DEF StopMonitor
  <2>8. CASE Join
    BY <2>8 DEF Join, Leave
  <2>9. CASE Parse
    BY <2>9 DEF Parse
  <2>10. CASE WritePredictions
    BY <2>10 DEF WritePredictions
  <2>11. CASE WriteSummary
    BY <2>11 DEF WriteSummary
  <2>12. CASE WriteEvaluation
    BY <2>12 DEF WriteEvaluation
  <2> QED
    BY <1>2, <2>1, <2>2, <2>3, <2>4, <2>5, <2>6, <2>7, <2>8, <2>9, <2>10, <2>11, <2>12 DEF Stage
<1>3. CASE PopenRaises
  BY <1>3 DEF PopenRaises
<1>4. CASE Interrupt
  BY <1>4 DEF Interrupt
<1>5. CASE Killed
  BY <1>5 DEF Killed
<1>6. CASE Query
  BY <1>6 DEF Query
<1>7. CASE QueryAnswered
  BY <1>7 DEF QueryAnswered
<1>8. CASE MonitorEnds
  BY <1>8 DEF MonitorEnds
<1>9. ASSUME NEW c \in Calls, Child(c) PROVE Made'
  <2>1. CASE OpenOutput(c)
    BY <2>1 DEF OpenOutput, Moves
  <2>2. CASE WriteRows(c)
    BY <2>2 DEF WriteRows, Moves
  <2>3. CASE Exit(c)
    BY <2>3 DEF Exit, Moves
  <2>4. CASE DiesOfSignal(c)
    BY <2>4 DEF DiesOfSignal
  <2> QED
    BY <1>9, <2>1, <2>2, <2>3, <2>4 DEF Child
<1>10. ASSUME NEW c \in Calls, Misbehaves(c) PROVE Made'
  <2>1. CASE ExitWithoutOutput(c)
    BY <2>1 DEF ExitWithoutOutput, Moves
  <2>2. CASE Fails(c)
    BY <2>2 DEF Fails, Moves
  <2>3. ASSUME NEW inDriver \in BOOLEAN, Hangs(c, inDriver) PROVE Made'
    BY <2>3 DEF Hangs
  <2> QED
    BY <1>10, <2>1, <2>2, <2>3 DEF Misbehaves
<1>11. CASE UNCHANGED vars
  BY <1>11
<1> QED
  BY <1>1, <1>2, <1>3, <1>4, <1>5, <1>6, <1>7, <1>8, <1>9, <1>10, <1>11 DEF Next

\* A stage that raises leaves its child dead or unable to write; a stage that is
\* killed abandons it, which the next call is charged with.
LEMMA NoStraysStep == IInv /\ [Next]_vars => NoStrays'
<1> SUFFICES ASSUME IInv, [Next]_vars PROVE NoStrays'
  OBVIOUS
<1> USE ConstantsAssumption DEF IInv, TypeOK, InOrder, NoStrays, At, Goto, Alive, Ended, Fault, Waiting, Scoring, Calls, NoEvaluation, NoOutput, OwnPredictions,
           vars, files, processes, history
<1>1. CASE StartCall
  BY <1>1 DEF StartCall
<1>2. CASE Stage
  <2>1. CASE StartMonitor
    BY <2>1 DEF StartMonitor
  <2>2. CASE Popen
    BY <2>2 DEF Popen
  <2>3. CASE ReadToEnd
    BY <2>3 DEF ReadToEnd
  <2>4. CASE ChildGone
    BY <2>4 DEF ChildGone
  <2>5. CASE TerminateExpires
    BY <2>5 DEF TerminateExpires
  <2>6. CASE KillExpires
    BY <2>6 DEF KillExpires
  <2>7. CASE StopMonitor
    BY <2>7 DEF StopMonitor
  <2>8. CASE Join
    BY <2>8 DEF Join, Leave
  <2>9. CASE Parse
    BY <2>9 DEF Parse
  <2>10. CASE WritePredictions
    BY <2>10 DEF WritePredictions
  <2>11. CASE WriteSummary
    BY <2>11 DEF WriteSummary
  <2>12. CASE WriteEvaluation
    BY <2>12 DEF WriteEvaluation
  <2> QED
    BY <1>2, <2>1, <2>2, <2>3, <2>4, <2>5, <2>6, <2>7, <2>8, <2>9, <2>10, <2>11, <2>12 DEF Stage
<1>3. CASE PopenRaises
  BY <1>3 DEF PopenRaises
<1>4. CASE Interrupt
  BY <1>4 DEF Interrupt
<1>5. CASE Killed
  BY <1>5 DEF Killed
<1>6. CASE Query
  BY <1>6 DEF Query
<1>7. CASE QueryAnswered
  BY <1>7 DEF QueryAnswered
<1>8. CASE MonitorEnds
  BY <1>8 DEF MonitorEnds
<1>9. ASSUME NEW c \in Calls, Child(c) PROVE NoStrays'
  <2>1. CASE OpenOutput(c)
    BY <2>1 DEF OpenOutput, Moves
  <2>2. CASE WriteRows(c)
    BY <2>2 DEF WriteRows, Moves
  <2>3. CASE Exit(c)
    BY <2>3 DEF Exit, Moves
  <2>4. CASE DiesOfSignal(c)
    BY <2>4 DEF DiesOfSignal
  <2> QED
    BY <1>9, <2>1, <2>2, <2>3, <2>4 DEF Child
<1>10. ASSUME NEW c \in Calls, Misbehaves(c) PROVE NoStrays'
  <2>1. CASE ExitWithoutOutput(c)
    BY <2>1 DEF ExitWithoutOutput, Moves
  <2>2. CASE Fails(c)
    BY <2>2 DEF Fails, Moves
  <2>3. ASSUME NEW inDriver \in BOOLEAN, Hangs(c, inDriver) PROVE NoStrays'
    BY <2>3 DEF Hangs
  <2> QED
    BY <1>10, <2>1, <2>2, <2>3 DEF Misbehaves
<1>11. CASE UNCHANGED vars
  BY <1>11
<1> QED
  BY <1>1, <1>2, <1>3, <1>4, <1>5, <1>6, <1>7, <1>8, <1>9, <1>10, <1>11 DEF Next

\* Beside no stray child, every file on the way is written by the call itself.
LEMMA OwnStep == IInv /\ [Next]_vars => Own'
<1> SUFFICES ASSUME IInv, [Next]_vars PROVE Own'
  OBVIOUS
<1> USE ConstantsAssumption DEF IInv, TypeOK, InOrder, NoStrays, Own, At, Goto, Alive, Ended, Fault, Waiting, Scoring, Calls, NoEvaluation, NoOutput, OwnPredictions,
           vars, files, processes, history
<1>1. CASE StartCall
  BY <1>1 DEF StartCall
<1>2. CASE Stage
  <2>1. CASE StartMonitor
    BY <2>1 DEF StartMonitor
  <2>2. CASE Popen
    BY <2>2 DEF Popen
  <2>3. CASE ReadToEnd
    BY <2>3 DEF ReadToEnd
  <2>4. CASE ChildGone
    BY <2>4 DEF ChildGone
  <2>5. CASE TerminateExpires
    BY <2>5 DEF TerminateExpires
  <2>6. CASE KillExpires
    BY <2>6 DEF KillExpires
  <2>7. CASE StopMonitor
    BY <2>7 DEF StopMonitor
  <2>8. CASE Join
    BY <2>8 DEF Join, Leave
  <2>9. CASE Parse
    BY <2>9 DEF Parse
  <2>10. CASE WritePredictions
    BY <2>10 DEF WritePredictions
  <2>11. CASE WriteSummary
    BY <2>11 DEF WriteSummary
  <2>12. CASE WriteEvaluation
    BY <2>12 DEF WriteEvaluation
  <2> QED
    BY <1>2, <2>1, <2>2, <2>3, <2>4, <2>5, <2>6, <2>7, <2>8, <2>9, <2>10, <2>11, <2>12 DEF Stage
<1>3. CASE PopenRaises
  BY <1>3 DEF PopenRaises
<1>4. CASE Interrupt
  BY <1>4 DEF Interrupt
<1>5. CASE Killed
  BY <1>5 DEF Killed
<1>6. CASE Query
  BY <1>6 DEF Query
<1>7. CASE QueryAnswered
  BY <1>7 DEF QueryAnswered
<1>8. CASE MonitorEnds
  BY <1>8 DEF MonitorEnds
<1>9. ASSUME NEW c \in Calls, Child(c) PROVE Own'
  <2>1. CASE OpenOutput(c)
    BY <2>1 DEF OpenOutput, Moves
  <2>2. CASE WriteRows(c)
    BY <2>2 DEF WriteRows, Moves
  <2>3. CASE Exit(c)
    BY <2>3 DEF Exit, Moves
  <2>4. CASE DiesOfSignal(c)
    BY <2>4 DEF DiesOfSignal
  <2> QED
    BY <1>9, <2>1, <2>2, <2>3, <2>4 DEF Child
<1>10. ASSUME NEW c \in Calls, Misbehaves(c) PROVE Own'
  <2>1. CASE ExitWithoutOutput(c)
    BY <2>1 DEF ExitWithoutOutput, Moves
  <2>2. CASE Fails(c)
    BY <2>2 DEF Fails, Moves
  <2>3. ASSUME NEW inDriver \in BOOLEAN, Hangs(c, inDriver) PROVE Own'
    BY <2>3 DEF Hangs
  <2> QED
    BY <1>10, <2>1, <2>2, <2>3 DEF Misbehaves
<1>11. CASE UNCHANGED vars
  BY <1>11
<1> QED
  BY <1>1, <1>2, <1>3, <1>4, <1>5, <1>6, <1>7, <1>8, <1>9, <1>10, <1>11 DEF Next

\* Every step, or none, keeps the inductive invariant.
LEMMA NextIInv == IInv /\ [Next]_vars => IInv'
  BY TypeOKStep, InOrderStep, MadeStep, NoStraysStep, OwnStep DEF IInv

\* The inductive invariant holds in every behaviour.
THEOREM Invariant == Spec => []IInv
  BY InitIInv, NextIInv, PTL DEF Spec

\* Types, for any number of calls and faults.
THEOREM TypesCorrect == Spec => []TypeOK
<1>1. IInv => TypeOK
  BY DEF IInv
<1> QED
  BY Invariant, <1>1, PTL

\* What is reported for a checkpoint was computed from it, after any number of
\* failed, interrupted and killed calls, unless the call itself was disturbed.
THEOREM OwnPredictionsAlways == Spec => []OwnPredictions
<1>1. IInv => OwnPredictions
  BY DEF IInv, Own
<1> QED
  BY Invariant, <1>1, PTL


-----------------------------------------------------------------------------
(* Children and waits *)

\* No stage leaves a child behind that still runs, unless it was killed itself or the
\* child does not end of SIGKILL.
NoOrphans ==
    \A c \in Calls : Alive(c) => c \in abandoned \cup stuck \/ (c = call /\ Waiting)

\* Every step of the stage that leaves the wait leaves no child that runs.
LEMMA NoOrphansStep == IInv /\ NoOrphans /\ [Next]_vars => NoOrphans'
<1> SUFFICES ASSUME IInv, NoOrphans, [Next]_vars PROVE NoOrphans'
  OBVIOUS
<1> USE DEF NoOrphans, IInv, TypeOK, InOrder, At, Goto, Alive, Ended, Fault, Waiting, files, processes, history, vars
<1>1. CASE StartCall
  BY <1>1 DEF StartCall
<1>2. CASE StartMonitor
  BY <1>2 DEF StartMonitor
<1>3. CASE Popen
  BY <1>3 DEF Popen
<1>4. CASE ReadToEnd
  BY <1>4 DEF ReadToEnd
<1>5. CASE ChildGone
  BY <1>5 DEF ChildGone
<1>6. CASE TerminateExpires
  BY <1>6 DEF TerminateExpires
<1>7. CASE KillExpires
  BY <1>7 DEF KillExpires
<1>8. CASE StopMonitor
  BY <1>8 DEF StopMonitor
<1>9. CASE Join
  BY <1>9 DEF Join, Leave
<1>10. CASE Parse
  BY <1>10 DEF Parse
<1>11. CASE WritePredictions
  BY <1>11 DEF WritePredictions
<1>12. CASE WriteSummary
  BY <1>12 DEF WriteSummary
<1>13. CASE WriteEvaluation
  BY <1>13 DEF WriteEvaluation
<1>14. CASE PopenRaises
  BY <1>14 DEF PopenRaises
<1>15. CASE Interrupt
  BY <1>15 DEF Interrupt
<1>16. CASE Killed
  BY <1>16 DEF Killed
<1>17. CASE Query
  BY <1>17 DEF Query
<1>18. CASE QueryAnswered
  BY <1>18 DEF QueryAnswered
<1>19. CASE MonitorEnds
  BY <1>19 DEF MonitorEnds
<1>20. ASSUME NEW c \in Calls, Child(c) PROVE NoOrphans'
  BY <1>20 DEF Child, OpenOutput, WriteRows, Exit, DiesOfSignal, Moves
<1>21. ASSUME NEW c \in Calls, Misbehaves(c) PROVE NoOrphans'
  BY <1>21 DEF Misbehaves, ExitWithoutOutput, Fails, Hangs, Moves
<1>22. CASE UNCHANGED vars
  BY <1>22
<1> QED
  BY <1>1, <1>2, <1>3, <1>4, <1>5, <1>6, <1>7, <1>8, <1>9, <1>10, <1>11, <1>12, <1>13, <1>14, <1>15, <1>16, <1>17, <1>18, <1>19, <1>20, <1>21, <1>22 DEF Next, Stage

\* However a call ends, its child has ended before; only a stage that is killed, or a
\* child that is stuck in the driver, makes an exception (run_subprocess_with_monitor).
THEOREM NoOrphansAlways == Spec => []NoOrphans
<1>1. Init => NoOrphans
  BY DEF Init, NoOrphans, Alive
<1> QED
  BY Invariant, <1>1, NoOrphansStep, PTL DEF Spec

\* What the stage waits for: a child that is there, and a thread that is told to end.
Awaited ==
    /\ Waiting => child[call] # "absent"
    /\ pc = "join" => stopped

\* Every step keeps that.
LEMMA AwaitedStep == IInv /\ Awaited /\ [Next]_vars => Awaited'
<1> SUFFICES ASSUME IInv, Awaited, [Next]_vars PROVE Awaited'
  OBVIOUS
<1> USE DEF Awaited, IInv, TypeOK, InOrder, At, Goto, Alive, Ended, Fault, Waiting, files, processes, history, vars
<1>1. CASE StartCall
  BY <1>1 DEF StartCall
<1>2. CASE StartMonitor
  BY <1>2 DEF StartMonitor
<1>3. CASE Popen
  BY <1>3 DEF Popen
<1>4. CASE ReadToEnd
  BY <1>4 DEF ReadToEnd
<1>5. CASE ChildGone
  BY <1>5 DEF ChildGone
<1>6. CASE TerminateExpires
  BY <1>6 DEF TerminateExpires
<1>7. CASE KillExpires
  BY <1>7 DEF KillExpires
<1>8. CASE StopMonitor
  BY <1>8 DEF StopMonitor
<1>9. CASE Join
  BY <1>9 DEF Join, Leave
<1>10. CASE Parse
  BY <1>10 DEF Parse
<1>11. CASE WritePredictions
  BY <1>11 DEF WritePredictions
<1>12. CASE WriteSummary
  BY <1>12 DEF WriteSummary
<1>13. CASE WriteEvaluation
  BY <1>13 DEF WriteEvaluation
<1>14. CASE PopenRaises
  BY <1>14 DEF PopenRaises
<1>15. CASE Interrupt
  BY <1>15 DEF Interrupt
<1>16. CASE Killed
  BY <1>16 DEF Killed
<1>17. CASE Query
  BY <1>17 DEF Query
<1>18. CASE QueryAnswered
  BY <1>18 DEF QueryAnswered
<1>19. CASE MonitorEnds
  BY <1>19 DEF MonitorEnds
<1>20. ASSUME NEW c \in Calls, Child(c) PROVE Awaited'
  BY <1>20 DEF Child, OpenOutput, WriteRows, Exit, DiesOfSignal, Moves
<1>21. ASSUME NEW c \in Calls, Misbehaves(c) PROVE Awaited'
  BY <1>21 DEF Misbehaves, ExitWithoutOutput, Fails, Hangs, Moves
<1>22. CASE UNCHANGED vars
  BY <1>22
<1> QED
  BY <1>1, <1>2, <1>3, <1>4, <1>5, <1>6, <1>7, <1>8, <1>9, <1>10, <1>11, <1>12, <1>13, <1>14, <1>15, <1>16, <1>17, <1>18, <1>19, <1>20, <1>21, <1>22 DEF Next, Stage

\* The guards of the steps that a call waits for, of the stage, its child and its thread.
CallMayMove ==
    \/ pc \in {"monitor", "popen", "finally", "parse", "predictions", "summary", "evaluation"}
    \/ Waiting /\ Ended(call)
    \/ pc = "read" /\ Alive(call) /\ call \notin hung
    \/ pc = "terminate" /\ ~Ended(call)
    \/ pc = "kill" /\ Alive(call) /\ call \notin stuck
    \/ pc = "kill" /\ ~Ended(call) /\ call \in stuck
    \/ pc = "join" /\ (monitor \in {"off", "query"} \/ stopped)

\* A call never waits for what cannot come, but for a child that hangs with its pipe open
\* while its output is read: that wait has no timeout.  The join of the thread waits for
\* one that ends or is held up in its query, which the timeout of the join leaves behind.
THEOREM CallNeverStuck ==
    Spec => [](pc # "idle" => CallMayMove \/ (pc = "read" /\ call \in hung))
<1>1. IInv /\ Awaited => (pc # "idle" => CallMayMove \/ (pc = "read" /\ call \in hung))
  <2> SUFFICES ASSUME IInv, Awaited, pc # "idle", ~(pc = "read" /\ call \in hung) PROVE CallMayMove
    OBVIOUS
  <2>1. Waiting => Alive(call) \/ Ended(call)
    BY DEF IInv, TypeOK, Awaited, Waiting, Alive, Ended
  <2>2. pc \in {"monitor", "popen", "read", "terminate", "kill", "finally", "join",
                "parse", "predictions", "summary", "evaluation"}
    BY DEF IInv, TypeOK
  <2> QED
    BY <2>1, <2>2 DEF Awaited, Waiting, CallMayMove
<1>2. Init => Awaited
  BY DEF Init, Awaited, Waiting
<1> QED
  BY Invariant, <1>1, <1>2, AwaitedStep, PTL DEF Spec

\* The steps that are left of a call: those of the stage, of its thread and of its child.
StageLeft ==
    CASE pc = "monitor" -> 13 [] pc = "popen" -> 11 [] pc = "read" -> 10
      [] pc = "terminate" -> 9 [] pc = "kill" -> 8 [] pc = "finally" -> 7
      [] pc = "join" -> 6 [] pc = "parse" -> 5 [] pc = "predictions" -> 4
      [] pc = "summary" -> 3 [] pc = "evaluation" -> 2 [] OTHER -> 0
ThreadLeft == IF monitor = "off" THEN 0 ELSE 1
ChildStage ==
    IF call = 0 THEN 0
    ELSE CASE child[call] = "absent" -> 4 [] child[call] = "loading" -> 3
           [] child[call] = "writing" -> 2 [] child[call] = "written" -> 1 [] OTHER -> 0
ChildLeft == ChildStage + IF call \in hung THEN 0 ELSE 1
CallLeft == StageLeft + ThreadLeft + ChildLeft

\* What goes on beside the call, or begins another one.
Elsewhere ==
    \/ StartCall \/ Query \/ QueryAnswered
    \/ \E c \in Calls \ {call} : Child(c) \/ Misbehaves(c)

\* The counts and their bounds.
LEMMA LeftTypes ==
    ASSUME TypeOK
    PROVE  StageLeft \in 0 .. 13 /\ ThreadLeft \in 0 .. 1 /\ ChildLeft \in 0 .. 5
<1>1. call # 0 => call \in Calls
  BY DEF TypeOK
<1> QED
  BY <1>1 DEF TypeOK, StageLeft, ThreadLeft, ChildLeft, ChildStage

\* A step counts when the sum becomes smaller.
LEMMA Fewer ==
    ASSUME TypeOK, NEW s \in Nat, NEW t \in Nat, NEW k \in Nat,
           StageLeft' = s, ThreadLeft' = t, ChildLeft' = k,
           s + t + k < StageLeft + ThreadLeft + ChildLeft
    PROVE  CallLeft' < CallLeft
  BY DEF CallLeft

\* Every step of a call but the queries of its thread takes one of the steps that are left.
LEMMA StepCounts == ASSUME IInv, Next PROVE Elsewhere \/ CallLeft' < CallLeft
<1> USE DEF files, processes, history, At, Goto
<1>t. TypeOK
  BY DEF IInv
<1>k. StageLeft \in Nat /\ ThreadLeft \in {0, 1} /\ ChildLeft \in Nat
  BY <1>t, LeftTypes
<1>c. UNCHANGED <<call, child, hung>> => ChildLeft' = ChildLeft
  BY DEF ChildLeft, ChildStage
<1>m. monitor' \in {monitor, "off"} => \E t \in Nat : ThreadLeft' = t /\ t <= ThreadLeft
  BY DEF ThreadLeft
<1>1. CASE \/ ReadToEnd \/ ChildGone \/ TerminateExpires \/ KillExpires \/ StopMonitor \/ Join \/ Parse
           \/ WritePredictions \/ WriteSummary \/ WriteEvaluation \/ PopenRaises \/ Interrupt \/ Killed
  <2>1. UNCHANGED <<call, child, hung>> /\ monitor' \in {monitor, "off"}
    BY <1>1 DEF ReadToEnd, ChildGone, TerminateExpires, KillExpires, StopMonitor, Join, Leave, Parse,
       WritePredictions, WriteSummary, WriteEvaluation, PopenRaises, Interrupt, Killed
  <2>2. \/ pc = "read" /\ pc' \in {"finally", "terminate"}
        \/ pc = "terminate" /\ pc' \in {"finally", "kill"}
        \/ pc = "kill" /\ pc' = "finally"
        \/ pc = "finally" /\ pc' = "join"
        \/ pc = "join" /\ pc' \in {"idle", "parse", "summary"}
        \/ pc = "parse" /\ pc' \in {"idle", "predictions"}
        \/ pc = "predictions" /\ pc' = "summary"
        \/ pc = "summary" /\ pc' \in {"evaluation", "idle"}
        \/ pc = "popen" /\ pc' = "finally"
        \/ pc # "idle" /\ pc' = "idle"
    BY <1>1 DEF ReadToEnd, ChildGone, TerminateExpires, KillExpires, StopMonitor, Join, Leave, Parse,
       WritePredictions, WriteSummary, WriteEvaluation, PopenRaises, Interrupt, Killed
  <2>3. PICK s \in Nat : StageLeft' = s /\ s < StageLeft
    BY <1>t, <2>2 DEF TypeOK, StageLeft
  <2>4. PICK t \in Nat : ThreadLeft' = t /\ t <= ThreadLeft
    BY <1>m, <2>1
  <2> QED
    BY <1>t, <1>k, <1>c, <2>1, <2>3, <2>4, Fewer
<1>2. CASE StartMonitor
  <2>1. StageLeft = 13 /\ StageLeft' = 11 /\ ChildLeft' = ChildLeft /\ ThreadLeft' = 1
    BY <1>2, <1>c DEF StartMonitor, StageLeft, ThreadLeft
  <2> QED
    BY <1>t, <1>k, <2>1, Fewer
<1>3. CASE Popen
  <2>1. StageLeft = 11 /\ StageLeft' = 10 /\ ThreadLeft' = ThreadLeft
    BY <1>3 DEF Popen, StageLeft, ThreadLeft
  <2>2. child[call] = "absent" /\ child'[call] = "loading" /\ UNCHANGED <<call, hung>> /\ call # 0
    BY <1>3, ConstantsAssumption DEF Popen, IInv, InOrder, TypeOK, Calls
  <2>3. PICK k \in Nat : ChildLeft' = k /\ k <= ChildLeft
    BY <2>2 DEF ChildLeft, ChildStage
  <2> QED
    BY <1>t, <1>k, <2>1, <2>3, Fewer
<1>4. CASE MonitorEnds
  <2>1. StageLeft' = StageLeft /\ ChildLeft' = ChildLeft
    BY <1>4, <1>c DEF MonitorEnds, StageLeft
  <2>2. ThreadLeft = 1 /\ ThreadLeft' = 0
    BY <1>4 DEF MonitorEnds, ThreadLeft
  <2> QED
    BY <1>t, <1>k, <2>1, <2>2, Fewer
<1>5. ASSUME NEW c \in Calls, c = call, Child(c) \/ ExitWithoutOutput(c) \/ Fails(c)
      PROVE  CallLeft' < CallLeft
  <2>1. UNCHANGED <<pc, call, hung, monitor>> /\ call # 0
    BY <1>5, ConstantsAssumption DEF Child, OpenOutput, WriteRows, Exit, DiesOfSignal, ExitWithoutOutput, Fails, Moves, Calls
  <2>2. \/ child[call] = "loading" /\ child'[call] \in {"writing", "ended"}
        \/ child[call] = "writing" /\ child'[call] \in {"written", "ended"}
        \/ child[call] = "written" /\ child'[call] = "ended"
    BY <1>5, <1>t DEF Child, OpenOutput, WriteRows, Exit, DiesOfSignal, ExitWithoutOutput, Fails, Moves, Alive, TypeOK
  <2>3. PICK k \in Nat : ChildLeft' = k /\ k < ChildLeft
    BY <2>1, <2>2 DEF ChildLeft, ChildStage
  <2>4. StageLeft' = StageLeft /\ ThreadLeft' = ThreadLeft
    BY <2>1 DEF StageLeft, ThreadLeft
  <2> QED
    BY <1>t, <1>k, <2>3, <2>4, Fewer
<1>6. ASSUME NEW c \in Calls, c = call, NEW inDriver \in BOOLEAN, Hangs(c, inDriver)
      PROVE  CallLeft' < CallLeft
  <2>1. UNCHANGED <<pc, call, child, monitor>> /\ call # 0 /\ call \notin hung /\ call \in hung'
    BY <1>6, ConstantsAssumption DEF Hangs, Calls
  <2>2. PICK k \in Nat : ChildLeft' = k /\ k < ChildLeft
    <3>1. ChildStage' = ChildStage
      BY <2>1 DEF ChildStage
    <3>2. ChildStage \in Nat
      BY DEF ChildStage
    <3>3. ChildLeft = ChildStage + 1 /\ ChildLeft' = ChildStage' + 0
      BY <2>1 DEF ChildLeft
    <3> QED
      BY <3>1, <3>2, <3>3
  <2>3. StageLeft' = StageLeft /\ ThreadLeft' = ThreadLeft
    BY <2>1 DEF StageLeft, ThreadLeft
  <2> QED
    BY <1>t, <1>k, <2>2, <2>3, Fewer
<1> QED
  BY <1>1, <1>2, <1>3, <1>4, <1>5, <1>6 DEF Next, Stage, Misbehaves, Elsewhere

\* A call takes at most 19 steps besides those of its thread's queries and of the children
\* that killed stages have left: it starts one child, waits twice at most for that to end,
\* and tries nothing again.
THEOREM CallIsBounded ==
    Spec => /\ [](CallLeft \in 0 .. 19)
            /\ [][Elsewhere \/ CallLeft' < CallLeft]_vars
<1>1. IInv => CallLeft \in 0 .. 19
  <2> SUFFICES ASSUME IInv PROVE CallLeft \in 0 .. 19
    OBVIOUS
  <2>1. TypeOK
    BY DEF IInv
  <2> QED
    BY <2>1, LeftTypes DEF CallLeft
<1>2. IInv /\ [Next]_vars => [Elsewhere \/ CallLeft' < CallLeft]_vars
  BY StepCounts
<1> QED
  BY Invariant, <1>1, <1>2, PTL DEF Spec
================================================================================
