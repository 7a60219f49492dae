----------------------- MODULE PiperSupervisor_proofs -----------------------
(***************************************************************************)
(* Proofs about PiperSupervisor for every set of workers and items, and    *)
(* every limit and number of faults.                                       *)
(***************************************************************************)
EXTENDS PiperSupervisor, FiniteSetTheorems, TLAPS

\* Files, manifests and memory agree: a row, on disk or in memory, has a valid
\* final WAV, and an item that a process still renders has none.
FilesAgree ==
    /\ final \subseteq native /\ bad \subseteq final
    /\ \A w \in Worker : manifest[w] \subseteq ItemsOf(w) \cap (final \ bad)
    /\ \A i \in Item : /\ job[i] = "done" => i \in final \ bad
                       /\ job[i] = "convert" => i \in native
                       /\ job[i] \in {"queued", "piper", "convert"} => i \notin final

\* Where the supervisor is about to launch, no process is alive: nobody else
\* launches one, so what it has read still holds.
LaunchSafe ==
    /\ spc = "decide" /\ ~alive => ~AnyAlive
    /\ spc = "launch" => ~AnyAlive

IInv == TypeOK /\ FilesAgree /\ LaunchSafe /\ MergedComplete

LEMMA CountsAreNat ==
    /\ None \in Nat /\ Expected \in Nat
    /\ \A w \in Worker : WavsOf(w) \in Nat /\ IsFiniteSet(ItemsOf(w))
<1>1. Cardinality(Item) \in Nat
  BY ItemAssumption, FS_CardinalityType
<1>2. ASSUME NEW w \in Worker
      PROVE  WavsOf(w) \in Nat /\ IsFiniteSet(ItemsOf(w))
  <2>1. IsFiniteSet(ItemsOf(w))
    BY ItemAssumption, FS_Subset DEF ItemsOf
  <2>2. IsFiniteSet(final \cap ItemsOf(w)) /\ IsFiniteSet(part \cap ItemsOf(w))
    BY <2>1, FS_Intersection
  <2>3. QED
    BY <2>1, <2>2, FS_CardinalityType DEF WavsOf
<1>3. QED
  BY <1>1, <1>2 DEF None, Expected

LEMMA InitIInv == Init => IInv
<1> SUFFICES ASSUME Init PROVE IInv
  OBVIOUS
<1> USE DEF Init
<1>1. PICK p \in {"dead", "scan"} : wpc = [w \in Worker |-> p]
  OBVIOUS
<1>2. TypeOK
  <2>1. wpc \in [Worker -> {"dead", "scan", "render", "summary"}]
    BY <1>1
  <2>2. summary \in [Worker -> {"none", "PASSED", "FAILED"}] /\ manifest \in [Worker -> SUBSET Item]
    OBVIOUS
  <2>3. /\ total \in Nat /\ lastTotal \in Nat /\ stale \in 0 .. StaleLimit - 1
        /\ crashes \in 0 .. MaxCrashes /\ kills \in 0 .. MaxStaleKills /\ jobFaults \in 0 .. MaxJobFaults
    BY CountsAreNat, LimitAssumption
  <2>4. QED
    BY <2>1, <2>2, <2>3, LimitAssumption DEF TypeOK
<1>3. FilesAgree /\ LaunchSafe /\ MergedComplete
  BY DEF FilesAgree, LaunchSafe, MergedComplete
<1>4. QED
  BY <1>2, <1>3 DEF IInv

\* What the merge compares: manifests that count as many rows as there are
\* items list exactly the items.
LEMMA CountsFitIsComplete ==
    ASSUME IInv, CountsFit
    PROVE  AllRows = Item /\ \A w \in Worker : manifest[w] = ItemsOf(w)
<1>1. ASSUME NEW w \in Worker
      PROVE  manifest[w] = ItemsOf(w)
  <2>1. manifest[w] \in SUBSET ItemsOf(w) /\ IsFiniteSet(ItemsOf(w))
    BY CountsAreNat DEF IInv, FilesAgree
  <2>2. Cardinality(manifest[w]) = Cardinality(ItemsOf(w))
    BY DEF CountsFit
  <2>3. QED
    BY <2>1, <2>2, FS_Subset
<1>2. \A i \in Item : i \in ItemsOf(Owner[i]) /\ Owner[i] \in Worker
  BY ItemAssumption DEF ItemsOf
<1>3. QED
  BY <1>1, <1>2 DEF AllRows, ItemsOf

\* A step of a job, or a job's failure, keeps the inductive invariant.
LEMMA JobIInv ==
    ASSUME IInv, NEW i \in Item,
           Job(i) \/ PiperFails(i) \/ ConvertFails(i) \/ FinalRejected(i)
    PROVE  IInv'
<1> USE LimitAssumption, ItemAssumption
    DEF IInv, TypeOK, FilesAgree, books, supervisor, faults, files
<1>1. LaunchSafe' /\ UNCHANGED <<spc, merged, manifest>>
  BY DEF LaunchSafe, AnyAlive, Job, StartJob, NativeWritten, Converted,
         PiperFails, ConvertFails, FinalRejected
<1>2. CASE StartJob(i)
  <2> USE <1>2 DEF StartJob
  <2>1. TypeOK'
    OBVIOUS
  <2>2. FilesAgree'
    BY <1>1 DEF ItemsOf
  <2>3. MergedComplete'
    BY <1>1 DEF MergedComplete
  <2>4. QED
    BY <1>1, <2>1, <2>2, <2>3
<1>3. CASE NativeWritten(i)
  <2> USE <1>3 DEF NativeWritten
  <2>1. TypeOK'
    OBVIOUS
  <2>2. FilesAgree'
    BY <1>1 DEF ItemsOf
  <2>3. MergedComplete'
    BY <1>1 DEF MergedComplete
  <2>4. QED
    BY <1>1, <2>1, <2>2, <2>3
<1>4. CASE Converted(i)
  <2> USE <1>4 DEF Converted
  <2>1. TypeOK'
    OBVIOUS
  <2>2. FilesAgree'
    BY <1>1 DEF ItemsOf
  <2>3. MergedComplete'
    BY <1>1 DEF MergedComplete
  <2>4. QED
    BY <1>1, <2>1, <2>2, <2>3
<1>5. CASE PiperFails(i)
  <2> USE <1>5 DEF PiperFails
  <2>1. TypeOK'
    OBVIOUS
  <2>2. FilesAgree'
    BY <1>1 DEF ItemsOf
  <2>3. MergedComplete'
    BY <1>1 DEF MergedComplete
  <2>4. QED
    BY <1>1, <2>1, <2>2, <2>3
<1>6. CASE ConvertFails(i)
  <2> USE <1>6 DEF ConvertFails
  <2>1. TypeOK'
    OBVIOUS
  <2>2. FilesAgree'
    BY <1>1 DEF ItemsOf
  <2>3. MergedComplete'
    BY <1>1 DEF MergedComplete
  <2>4. QED
    BY <1>1, <2>1, <2>2, <2>3
<1>7. CASE FinalRejected(i)
  <2> USE <1>7 DEF FinalRejected
  <2>1. TypeOK'
    OBVIOUS
  <2>2. FilesAgree'
    BY <1>1 DEF ItemsOf
  <2>3. MergedComplete'
    BY <1>1 DEF MergedComplete
  <2>4. QED
    BY <1>1, <2>1, <2>2, <2>3
<1>8. QED
  BY <1>2, <1>3, <1>4, <1>5, <1>6, <1>7 DEF Job

\* A step of worker w, or its crash, keeps the inductive invariant.
LEMMA ProcessIInv ==
    ASSUME IInv, NEW w \in Worker, Process(w) \/ Crash(w)
    PROVE  IInv'
<1> USE LimitAssumption, ItemAssumption
    DEF IInv, TypeOK, FilesAgree, books, supervisor, faults, files
<1>1. LaunchSafe' /\ MergedComplete'
  BY DEF LaunchSafe, AnyAlive, MergedComplete, Process, ScanDies, Scan,
         WriteManifest, WriteSummary, Crash
<1>2. CASE ScanDies(w)
  <2> USE <1>2 DEF ScanDies
  <2>1. TypeOK'
    OBVIOUS
  <2>2. FilesAgree'
    BY DEF ItemsOf
  <2>3. QED
    BY <1>1, <2>1, <2>2
<1>3. CASE Scan(w)
  <2> USE <1>3 DEF Scan, Complete
  <2>1. TypeOK'
    OBVIOUS
  <2>2. FilesAgree'
    BY DEF ItemsOf
  <2>3. QED
    BY <1>1, <2>1, <2>2
<1>4. CASE WriteManifest(w)
  <2> USE <1>4 DEF WriteManifest, RowsOf
  <2>1. TypeOK'
    <3>1. RowsOf(w) \in SUBSET Item
      BY DEF ItemsOf
    <3>2. manifest' \in [Worker -> SUBSET Item]
      BY <3>1
    <3>3. QED
      BY <3>2
  <2>2. FilesAgree'
    BY DEF ItemsOf
  <2>3. QED
    BY <1>1, <2>1, <2>2
<1>5. CASE WriteSummary(w)
  <2> USE <1>5 DEF WriteSummary, Forget
  <2>1. TypeOK'
    OBVIOUS
  <2>2. FilesAgree'
    BY DEF ItemsOf
  <2>3. QED
    BY <1>1, <2>1, <2>2
<1>6. CASE Crash(w)
  <2> USE <1>6 DEF Crash, Forget
  <2>1. TypeOK'
    OBVIOUS
  <2>2. FilesAgree'
    BY DEF ItemsOf
  <2>3. QED
    BY <1>1, <2>1, <2>2
<1>7. QED
  BY <1>2, <1>3, <1>4, <1>5, <1>6 DEF Process

\* A step of the supervisor keeps the inductive invariant.
LEMMA SuperviseIInv ==
    ASSUME IInv, Supervise
    PROVE  IInv'
<1> USE LimitAssumption DEF IInv, TypeOK, books, supervisor, faults, files
<1>1. ASSUME NEW w \in Worker, Count(w) \/ CountExits(w)
      PROVE  IInv'
  <2>1. WavsOf(w) \in Nat
    BY CountsAreNat
  <2>2. QED
    BY <1>1, <2>1 DEF Count, CountExits, FilesAgree, LaunchSafe, AnyAlive, MergedComplete, ItemsOf
<1>2. CASE CheckAlive
  <2> USE <1>2 DEF CheckAlive
  <2>1. TypeOK'
    <3>1. alive' \in BOOLEAN
      BY DEF AnyAlive
    <3>2. QED
      BY <3>1
  <2>2. FilesAgree'
    BY DEF FilesAgree, ItemsOf
  <2>3. LaunchSafe' /\ MergedComplete'
    BY DEF LaunchSafe, AnyAlive, MergedComplete
  <2>4. QED
    BY <2>1, <2>2, <2>3
<1>3. CASE PiperComplete
  <2> USE <1>3 DEF PiperComplete
  <2>1. TypeOK'
    <3>1. alive' \in BOOLEAN
      BY DEF AnyAlive
    <3>2. QED
      BY <3>1
  <2>2. FilesAgree'
    BY DEF FilesAgree, ItemsOf
  <2>3. LaunchSafe' /\ MergedComplete'
    BY DEF LaunchSafe, AnyAlive, MergedComplete
  <2>4. QED
    BY <2>1, <2>2, <2>3
<1>4. CASE PiperRestart
  <2> USE <1>4 DEF PiperRestart, NextRound, Launched, Expected
  <2>1. TypeOK'
    <3>1. alive' \in BOOLEAN
      BY DEF AnyAlive
    <3>2. QED
      BY <3>1
  <2>2. FilesAgree'
    BY DEF FilesAgree, ItemsOf
  <2>3. LaunchSafe' /\ MergedComplete'
    BY DEF LaunchSafe, AnyAlive, MergedComplete
  <2>4. QED
    BY <2>1, <2>2, <2>3
<1>5. CASE StillStale
  <2> USE <1>5 DEF StillStale, NextRound
  <2>1. TypeOK'
    <3>1. alive' \in BOOLEAN
      BY DEF AnyAlive
    <3>2. QED
      BY <3>1
  <2>2. FilesAgree'
    BY DEF FilesAgree, ItemsOf
  <2>3. LaunchSafe' /\ MergedComplete'
    BY DEF LaunchSafe, AnyAlive, MergedComplete
  <2>4. QED
    BY <2>1, <2>2, <2>3
<1>6. CASE KillStage
  <2> USE <1>6 DEF KillStage
  <2>1. TypeOK'
    <3>1. alive' \in BOOLEAN
      OBVIOUS
    <3>2. kills' \in 0 .. MaxStaleKills
      BY DEF Waits
    <3>3. wpc' \in [Worker -> {"dead", "scan", "render", "summary"}]
      OBVIOUS
    <3>4. QED
      BY <3>1, <3>2, <3>3
  <2>2. FilesAgree'
    BY DEF FilesAgree, ItemsOf
  <2>3. LaunchSafe' /\ MergedComplete'
    BY DEF LaunchSafe, AnyAlive, MergedComplete
  <2>4. QED
    BY <2>1, <2>2, <2>3
<1>7. CASE Relaunch
  <2> USE <1>7 DEF Relaunch, NextRound, Launched
  <2>1. TypeOK'
    <3>1. alive' \in BOOLEAN
      BY DEF AnyAlive
    <3>2. QED
      BY <3>1
  <2>2. FilesAgree'
    BY DEF FilesAgree, ItemsOf
  <2>3. LaunchSafe' /\ MergedComplete'
    BY DEF LaunchSafe, AnyAlive, MergedComplete
  <2>4. QED
    BY <2>1, <2>2, <2>3
<1>8. CASE Progress
  <2> USE <1>8 DEF Progress, NextRound
  <2>1. TypeOK'
    <3>1. alive' \in BOOLEAN
      BY DEF AnyAlive
    <3>2. QED
      BY <3>1
  <2>2. FilesAgree'
    BY DEF FilesAgree, ItemsOf
  <2>3. LaunchSafe' /\ MergedComplete'
    BY DEF LaunchSafe, AnyAlive, MergedComplete
  <2>4. QED
    BY <2>1, <2>2, <2>3
<1>9. CASE Merge
  <2>1. merged' = Item /\ Item \subseteq final \ bad
    <3>1. AllRows = Item /\ AllRows \subseteq final \ bad
      BY <1>9, CountsFitIsComplete DEF Merge, AllRows, FilesAgree
    <3>2. QED
      BY <1>9, <3>1 DEF Merge
  <2>2. QED
    BY <1>9, <2>1 DEF Merge, FilesAgree, LaunchSafe, AnyAlive, MergedComplete, ItemsOf
<1>10. CASE MergeFails
  BY <1>10 DEF MergeFails, FilesAgree, LaunchSafe, AnyAlive, MergedComplete, ItemsOf
<1>11. QED
  BY <1>1, <1>2, <1>3, <1>4, <1>5, <1>6, <1>7, <1>8, <1>9, <1>10 DEF Supervise

LEMMA NextIInv == IInv /\ [Next]_vars => IInv'
<1> SUFFICES ASSUME IInv, [Next]_vars PROVE IInv'
  OBVIOUS
<1>1. ASSUME NEW i \in Item, Job(i) PROVE IInv'
  BY <1>1, JobIInv
<1>2. ASSUME NEW w \in Worker, Process(w) PROVE IInv'
  BY <1>2, ProcessIInv
<1>3. CASE Fault
  BY <1>3, JobIInv, ProcessIInv DEF Fault
<1>4. CASE Supervise
  BY <1>4, SuperviseIInv
<1>5. CASE Done \/ UNCHANGED vars
  BY <1>5 DEF Done, vars, files, books, supervisor, faults, IInv, TypeOK, FilesAgree,
              LaunchSafe, AnyAlive, MergedComplete, ItemsOf
<1>6. QED
  BY <1>1, <1>2, <1>3, <1>4, <1>5 DEF Next

LEMMA IInvAlways == Spec => []IInv
  BY InitIInv, NextIInv, PTL DEF Spec

-----------------------------------------------------------------------------
\* stage_merge_piper merges nothing incomplete and nothing invalid, whatever
\* crashed, failed or was killed before, for any number of workers and items.
THEOREM MergedCompleteAlways == Spec => [](TypeOK /\ MergedComplete)
<1>1. IInv => TypeOK /\ MergedComplete
  BY DEF IInv
<1>2. QED
  BY <1>1, IInvAlways, PTL

\* The supervisor never launches a worker whose process is alive.
THEOREM OneProcessEachAlways == Spec => OneProcessEach
<1>1. IInv /\ [Next]_vars =>
        [\A w \in Worker : wpc'[w] = "scan" => wpc[w] \in {"dead", "scan"}]_vars
  <2> SUFFICES ASSUME IInv, Next, NEW w \in Worker, wpc'[w] = "scan"
               PROVE  wpc[w] \in {"dead", "scan"}
    OBVIOUS
  <2> USE DEF IInv, TypeOK
  <2>1. CASE UNCHANGED wpc
    BY <2>1
  <2>2. ASSUME NEW v \in Worker, Process(v) \/ Crash(v) PROVE wpc[w] = "scan"
    BY <2>2 DEF Process, ScanDies, Scan, WriteManifest, WriteSummary, Crash
  <2>3. CASE PiperRestart \/ Relaunch
    BY <2>3 DEF PiperRestart, Relaunch, LaunchSafe, AnyAlive
  <2>4. CASE KillStage
    BY <2>4 DEF KillStage
  <2>5. UNCHANGED wpc \/ (\E v \in Worker : Process(v) \/ Crash(v))
          \/ PiperRestart \/ Relaunch \/ KillStage
    BY DEF Next, Fault, Supervise, Done, Job, StartJob, NativeWritten, Converted, PiperFails,
           ConvertFails, FinalRejected, Count, CountExits, CheckAlive, PiperComplete, StillStale,
           Progress, Merge, MergeFails, vars
  <2>6. QED
    BY <2>1, <2>2, <2>3, <2>4, <2>5
<1>2. QED
  BY <1>1, IInvAlways, PTL DEF Spec, OneProcessEach

\* Types, for every set of workers and items and any bounds.
THEOREM TypesCorrect == Spec => []TypeOK
<1>1. IInv => TypeOK
  BY DEF IInv
<1>2. QED
  BY <1>1, IInvAlways, PTL


-----------------------------------------------------------------------------
(* Kills alone never break the merge                                       *)

\* The jobs of a process are gone with it.
JobsOfLiving == \A i \in Item : job[i] # "off" => wpc[Owner[i]] \in {"render", "summary"}

\* Before the first launch.
NothingYet ==
    /\ part = {} /\ final = {} /\ ~AnyAlive /\ total = 0
    /\ spc \in {"count", "alive", "decide", "exited"}

\* A worker that is not running has all its rows in its manifest, unless the supervisor
\* has just killed it or has not launched it yet.
Whole(w) == manifest[w] = ItemsOf(w)
ManifestsWhole ==
    /\ \A w \in Worker :
          /\ wpc[w] = "summary" => Whole(w) /\ \A i \in ItemsOf(w) : job[i] = "done"
          /\ wpc[w] = "dead" => Whole(w) \/ spc = "launch" \/ NothingYet
          /\ spc = "merge" => Whole(w)
    /\ bad = {} /\ \A i \in Item : job[i] # "failed"

Undisturbed == crashes = 0 /\ jobFaults = 0

\* Without a crash and a failing item the supervisor neither ends in set -e nor refuses
\* to merge, however often it kills workers it finds stale.
NeverFails == DirsMade = Worker /\ Undisturbed => spc \notin {"failed", "exited"}

KInv ==
    /\ JobsOfLiving /\ DirsMade \subseteq dir
    /\ Undisturbed => ManifestsWhole /\ spc # "failed"
    /\ DirsMade = Worker => spc # "exited"

LEMMA InitKInv == Init => KInv
<1> SUFFICES ASSUME Init PROVE KInv
  OBVIOUS
<1>1. (\A w \in Worker : wpc[w] = "dead") \/ (\A w \in Worker : wpc[w] = "scan")
  BY DEF Init
<1>2. JobsOfLiving /\ DirsMade \subseteq dir /\ spc = "count"
  BY DEF Init, JobsOfLiving
<1>3. ManifestsWhole
  BY <1>1 DEF Init, ManifestsWhole, NothingYet, AnyAlive
<1> QED
  BY <1>2, <1>3 DEF KInv

\* A step of a job keeps all that, and a fault ends the case.
LEMMA JobKInv ==
    ASSUME IInv, KInv, NEW i \in Item,
           Job(i) \/ PiperFails(i) \/ ConvertFails(i) \/ FinalRejected(i)
    PROVE  KInv'
<1> USE DEF books, supervisor, faults, files
<1>1. /\ UNCHANGED <<wpc, spc, manifest, total, crashes>> /\ dir \subseteq dir'
      /\ \A k \in Item : k # i => job'[k] = job[k]
  BY DEF Job, StartJob, NativeWritten, Converted, PiperFails, ConvertFails, FinalRejected, IInv, TypeOK
<1>2. job[i] \in {"queued", "piper", "convert"} /\ Owner[i] \in Worker
  BY ItemAssumption DEF Job, StartJob, NativeWritten, Converted, PiperFails, ConvertFails, FinalRejected
<1>3. JobsOfLiving' /\ (DirsMade \subseteq dir)' /\ (DirsMade = Worker => spc # "exited")'
  BY <1>1, <1>2 DEF KInv, JobsOfLiving
<1>4. CASE Job(i)
  <2>1. UNCHANGED <<bad, jobFaults>> /\ job'[i] # "failed"
    BY <1>4 DEF Job, StartJob, NativeWritten, Converted, IInv, TypeOK
  <2>2. ASSUME Undisturbed, ManifestsWhole PROVE ManifestsWhole'
    <3>1. ~NothingYet
      BY <1>2 DEF KInv, JobsOfLiving, NothingYet, AnyAlive
    <3>2. wpc[Owner[i]] # "summary"
      BY <1>2, <2>2 DEF ManifestsWhole, ItemsOf
    <3> QED
      BY <1>1, <2>1, <2>2, <3>1, <3>2 DEF ManifestsWhole, Whole, ItemsOf
  <2> QED
    BY <1>1, <1>3, <2>1, <2>2 DEF KInv, Undisturbed
<1>5. CASE PiperFails(i) \/ ConvertFails(i) \/ FinalRejected(i)
  <2>1. jobFaults' = jobFaults + 1 /\ jobFaults \in Nat
    BY <1>5, LimitAssumption DEF PiperFails, ConvertFails, FinalRejected, IInv, TypeOK
  <2>2. ~Undisturbed'
    BY <2>1 DEF Undisturbed
  <2> QED
    BY <1>3, <2>2 DEF KInv
<1> QED
  BY <1>4, <1>5

\* A step of a worker: without a failure its manifest has all its rows.
LEMMA ProcessKInv ==
    ASSUME IInv, KInv, NEW w \in Worker, Process(w) \/ Crash(w)
    PROVE  KInv'
<1> USE DEF books, supervisor, faults, files
<1>1. /\ UNCHANGED <<spc, total, dir, bad, final, part, jobFaults>> /\ wpc[w] # "dead"
      /\ \A v \in Worker : v # w => wpc'[v] = wpc[v] /\ manifest'[v] = manifest[v]
      /\ \A i \in Item : Owner[i] # w => job'[i] = job[i]
  BY DEF Process, ScanDies, Scan, WriteManifest, WriteSummary, Crash, Forget, ItemsOf, IInv, TypeOK
<1>2. ~NothingYet
  BY <1>1 DEF NothingYet, AnyAlive
<1>3. (DirsMade \subseteq dir)' /\ (DirsMade = Worker => spc # "exited")'
  BY <1>1 DEF KInv
<1>4. CASE ScanDies(w)
  <2>1. bad # {} /\ UNCHANGED <<job, crashes, manifest>> /\ wpc[w] = "scan" /\ wpc' = [wpc EXCEPT ![w] = "dead"]
    BY <1>4 DEF ScanDies
  <2>2. ~Undisturbed
    BY <2>1 DEF KInv, ManifestsWhole
  <2>3. JobsOfLiving'
    BY <2>1 DEF KInv, JobsOfLiving, IInv, TypeOK
  <2> QED
    BY <1>1, <1>3, <2>1, <2>2, <2>3 DEF KInv, Undisturbed
<1>5. CASE Scan(w)
  <2>1. /\ UNCHANGED <<crashes, manifest>> /\ wpc'[w] = "render"
        /\ \A i \in Item : job'[i] = IF i \in ItemsOf(w) THEN IF Complete(i) THEN "done" ELSE "queued" ELSE job[i]
    BY <1>5 DEF Scan, IInv, TypeOK
  <2>2. JobsOfLiving'
    BY <1>1, <2>1, ItemAssumption DEF KInv, JobsOfLiving, ItemsOf
  <2>3. ManifestsWhole => ManifestsWhole'
    BY <1>1, <1>2, <2>1 DEF ManifestsWhole, Whole, ItemsOf
  <2> QED
    BY <1>1, <1>3, <2>1, <2>2, <2>3 DEF KInv, Undisturbed
<1>6. CASE WriteManifest(w)
  <2>1. /\ UNCHANGED <<crashes, job>> /\ wpc'[w] = "summary" /\ manifest'[w] = RowsOf(w)
        /\ \A i \in ItemsOf(w) : job[i] \in {"done", "failed"}
    BY <1>6 DEF WriteManifest, IInv, TypeOK
  <2>2. JobsOfLiving'
    BY <1>1, <2>1, ItemAssumption DEF KInv, JobsOfLiving
  <2>3. ASSUME ManifestsWhole PROVE ManifestsWhole'
    <3>1. \A i \in ItemsOf(w) : job[i] = "done"
      BY <2>1, <2>3 DEF ManifestsWhole, ItemsOf
    <3>2. RowsOf(w) = ItemsOf(w)
      BY <3>1 DEF RowsOf
    <3> QED
      BY <1>1, <1>2, <2>1, <2>3, <3>1, <3>2 DEF ManifestsWhole, Whole, ItemsOf
  <2> QED
    BY <1>1, <1>3, <2>1, <2>2, <2>3 DEF KInv, Undisturbed
<1>7. CASE WriteSummary(w)
  <2>1. /\ UNCHANGED <<crashes, manifest>> /\ wpc[w] = "summary" /\ wpc'[w] = "dead"
        /\ \A i \in Item : job'[i] = IF Owner[i] = w THEN "off" ELSE job[i]
    BY <1>7 DEF WriteSummary, Forget, IInv, TypeOK
  <2>2. JobsOfLiving'
    BY <1>1, <2>1, ItemAssumption DEF KInv, JobsOfLiving
  <2>3. ManifestsWhole => ManifestsWhole'
    BY <1>1, <1>2, <2>1 DEF ManifestsWhole, Whole, ItemsOf
  <2> QED
    BY <1>1, <1>3, <2>1, <2>2, <2>3 DEF KInv, Undisturbed
<1>8. CASE Crash(w)
  <2>1. /\ crashes' = crashes + 1 /\ crashes \in Nat /\ wpc'[w] = "dead"
        /\ \A i \in Item : job'[i] = IF Owner[i] = w THEN "off" ELSE job[i]
    BY <1>8, LimitAssumption DEF Crash, Forget, IInv, TypeOK
  <2>2. JobsOfLiving'
    BY <1>1, <2>1, ItemAssumption DEF KInv, JobsOfLiving
  <2>3. ~Undisturbed'
    BY <2>1 DEF Undisturbed
  <2> QED
    BY <1>3, <2>2, <2>3 DEF KInv
<1> QED
  BY <1>4, <1>5, <1>6, <1>7, <1>8 DEF Process

\* A step of the supervisor: what it merges is whole.
LEMMA SuperviseKInv ==
    ASSUME IInv, KInv, Supervise
    PROVE  KInv'
<1> USE DEF books, supervisor, faults, files
<1>1. /\ UNCHANGED <<dir, bad, final, part, manifest, crashes, jobFaults>>
      /\ DirsMade \subseteq dir
  BY DEF Supervise, Count, CountExits, CheckAlive, PiperComplete, PiperRestart, StillStale, KillStage, Relaunch,
         Progress, NextRound, Merge, MergeFails, KInv
<1>2. Undisturbed' = Undisturbed
  BY <1>1 DEF Undisturbed
<1>3. ASSUME NEW w \in Worker, Count(w) PROVE KInv'
  <2>1. /\ UNCHANGED <<wpc, job>> /\ spc = "count" /\ spc' \in {"count", "alive"} /\ total' = total + WavsOf(w)
    BY <1>3 DEF Count
  <2>2. NothingYet => NothingYet'
    <3>1. SUFFICES ASSUME NothingYet PROVE NothingYet'
      OBVIOUS
    <3>2. final \cap ItemsOf(w) = {} /\ part \cap ItemsOf(w) = {} /\ total = 0
      BY <3>1 DEF NothingYet
    <3>3. WavsOf(w) = 0
      BY <3>2, FS_EmptySet DEF WavsOf
    <3> QED
      BY <1>1, <2>1, <3>1, <3>2, <3>3 DEF NothingYet, AnyAlive
  <2>3. ManifestsWhole => ManifestsWhole'
    BY <1>1, <2>1, <2>2 DEF ManifestsWhole, Whole, ItemsOf
  <2> QED
    BY <1>1, <1>2, <2>1, <2>3 DEF KInv, JobsOfLiving
<1>4. ASSUME NEW w \in Worker, CountExits(w) PROVE KInv'
  <2>1. /\ UNCHANGED <<wpc, job, total>> /\ spc = "count" /\ spc' = "exited" /\ w \notin dir
    BY <1>4 DEF CountExits
  <2>2. NothingYet => NothingYet'
    BY <1>1, <2>1 DEF NothingYet, AnyAlive
  <2>3. ManifestsWhole => ManifestsWhole'
    BY <1>1, <2>1, <2>2 DEF ManifestsWhole, Whole, ItemsOf
  <2>4. DirsMade # Worker
    BY <1>1, <2>1
  <2> QED
    BY <1>1, <1>2, <2>1, <2>3, <2>4 DEF KInv, JobsOfLiving
<1>5. CASE CheckAlive \/ StillStale \/ Progress
  <2>1. /\ UNCHANGED <<wpc, job>> /\ spc \in {"alive", "decide"} /\ spc' \in {"count", "decide"} /\ total' \in {0, total}
    BY <1>5 DEF CheckAlive, StillStale, Progress, NextRound
  <2>2. NothingYet => NothingYet'
    BY <1>1, <2>1 DEF NothingYet, AnyAlive
  <2>3. ManifestsWhole => ManifestsWhole'
    BY <1>1, <2>1, <2>2 DEF ManifestsWhole, Whole, ItemsOf
  <2> QED
    BY <1>1, <1>2, <2>1, <2>3 DEF KInv, JobsOfLiving
<1>6. CASE PiperRestart \/ Relaunch
  <2>1. /\ UNCHANGED job /\ spc' = "count" /\ \A w \in Worker : wpc'[w] = "scan"
        /\ ~AnyAlive
    BY <1>6 DEF PiperRestart, Relaunch, NextRound, Launched, IInv, LaunchSafe
  <2>2. \A i \in Item : job[i] = "off"
    BY <2>1, ItemAssumption DEF KInv, JobsOfLiving, AnyAlive
  <2>3. ManifestsWhole => ManifestsWhole'
    BY <1>1, <2>1, <2>2 DEF ManifestsWhole, Whole, ItemsOf
  <2> QED
    BY <1>1, <1>2, <2>1, <2>2, <2>3 DEF KInv, JobsOfLiving
<1>7. CASE KillStage
  <2>1. /\ spc' = "launch" /\ \A w \in Worker : wpc'[w] = "dead"
        /\ \A i \in Item : job'[i] = "off"
    BY <1>7 DEF KillStage
  <2>2. ManifestsWhole => ManifestsWhole'
    BY <1>1, <2>1 DEF ManifestsWhole, Whole, ItemsOf
  <2> QED
    BY <1>1, <1>2, <2>1, <2>2 DEF KInv, JobsOfLiving
<1>8. CASE PiperComplete
  <2>1. /\ UNCHANGED <<wpc, job>> /\ spc = "decide" /\ spc' = "merge" /\ total >= Expected /\ ~AnyAlive
    BY <1>8 DEF PiperComplete, IInv, LaunchSafe
  <2>2. Expected # 0
    <3>1. Item # {}
      BY WorkerAssumption, ItemAssumption
    <3> QED
      BY <3>1, ItemAssumption, FS_EmptySet DEF Expected
  <2>3. ~NothingYet
    BY <2>1, <2>2, CountsAreNat DEF NothingYet
  <2>4. \A w \in Worker : wpc[w] = "dead"
    BY <2>1 DEF AnyAlive
  <2>5. ManifestsWhole => ManifestsWhole'
    BY <1>1, <2>1, <2>3, <2>4 DEF ManifestsWhole, Whole, ItemsOf
  <2> QED
    BY <1>1, <1>2, <2>1, <2>5 DEF KInv, JobsOfLiving
<1>9. CASE Merge
  <2>1. /\ UNCHANGED <<wpc, job>> /\ spc = "merge" /\ spc' = "merged"
    BY <1>9 DEF Merge
  <2>2. ManifestsWhole => ManifestsWhole'
    BY <1>1, <2>1 DEF ManifestsWhole, Whole, ItemsOf
  <2> QED
    BY <1>1, <1>2, <2>1, <2>2 DEF KInv, JobsOfLiving
<1>10. CASE MergeFails
  <2>1. /\ UNCHANGED <<wpc, job>> /\ spc = "merge" /\ spc' = "failed" /\ ~CountsFit
    BY <1>10 DEF MergeFails
  <2>2. ~ManifestsWhole
    BY <2>1 DEF ManifestsWhole, Whole, CountsFit
  <2>3. ~Undisturbed
    BY <2>2 DEF KInv
  <2> QED
    BY <1>1, <1>2, <2>1, <2>3 DEF KInv, JobsOfLiving
<1> QED
  BY <1>3, <1>4, <1>5, <1>6, <1>7, <1>8, <1>9, <1>10 DEF Supervise

\* The supervisor merges, if it ends, as long as no process crashes and no item fails:
\* neither set -e nor a count mismatch ends it, however often it kills workers it finds
\* stale, and although the part files that a kill leaves behind count as WAV files
\* (count_wavs, supervise_piper, stage_merge_piper).
THEOREM NeverFailsAlways == Spec => []NeverFails
<1>1. IInv /\ KInv /\ [Next]_vars => KInv'
  <2> SUFFICES ASSUME IInv, KInv, [Next]_vars PROVE KInv'
    OBVIOUS
  <2>1. ASSUME NEW i \in Item, Job(i) PROVE KInv'
    BY <2>1, JobKInv
  <2>2. ASSUME NEW w \in Worker, Process(w) PROVE KInv'
    BY <2>2, ProcessKInv
  <2>3. CASE Fault
    BY <2>3, JobKInv, ProcessKInv DEF Fault
  <2>4. CASE Supervise
    BY <2>4, SuperviseKInv
  <2>5. CASE Done \/ UNCHANGED vars
    <3>1. UNCHANGED <<part, final, bad, dir, manifest, wpc, job, spc, total, crashes, jobFaults>>
      BY <2>5 DEF Done, vars, files, books, supervisor, faults
    <3>2. NothingYet => NothingYet'
      BY <3>1 DEF NothingYet, AnyAlive
    <3>3. ManifestsWhole => ManifestsWhole'
      BY <3>1, <3>2 DEF ManifestsWhole, Whole, ItemsOf
    <3> QED
      BY <3>1, <3>3 DEF KInv, JobsOfLiving, Undisturbed
  <2> QED
    BY <2>1, <2>2, <2>3, <2>4, <2>5 DEF Next
<1>2. KInv => NeverFails
  BY DEF KInv, NeverFails
<1> QED
  BY InitKInv, IInvAlways, <1>1, <1>2, PTL DEF Spec

-----------------------------------------------------------------------------
(* The abstract stage *)

\* A process has every row that its manifest has: what is listed once is found again by
\* every later scan.
ListedIsHeld ==
    \A w \in Worker : wpc[w] \in {"render", "summary"} => \A i \in manifest[w] : job[i] = "done"

LEMMA ListedIsHeldStep == IInv /\ ListedIsHeld /\ [Next]_vars => ListedIsHeld'
<1> SUFFICES ASSUME IInv, ListedIsHeld, [Next]_vars PROVE ListedIsHeld'
  OBVIOUS
<1> USE DEF IInv, TypeOK, files, books, supervisor, faults
<1>1. ASSUME NEW i \in Item, Job(i) \/ PiperFails(i) \/ ConvertFails(i) \/ FinalRejected(i)
      PROVE  ListedIsHeld'
  <2>1. /\ UNCHANGED <<wpc, manifest>> /\ job[i] # "done"
        /\ \A k \in Item : k # i => job'[k] = job[k]
    BY <1>1 DEF Job, StartJob, NativeWritten, Converted, PiperFails, ConvertFails, FinalRejected
  <2>2. QED
    BY <2>1 DEF ListedIsHeld
<1>2. ASSUME NEW w \in Worker, ScanDies(w) PROVE ListedIsHeld'
  BY <1>2 DEF ScanDies, ListedIsHeld
<1>3. ASSUME NEW w \in Worker, Scan(w) PROVE ListedIsHeld'
  <2>1. /\ manifest' = manifest /\ wpc' = [wpc EXCEPT ![w] = "render"]
        /\ \A i \in Item \ ItemsOf(w) : job'[i] = job[i]
        /\ \A i \in ItemsOf(w) : Complete(i) => job'[i] = "done"
    BY <1>3 DEF Scan, ItemsOf
  <2>2. \A v \in Worker : \A i \in manifest[v] : i \in ItemsOf(v) /\ Complete(i)
    BY DEF FilesAgree, Complete
  <2>3. \A v \in Worker : v # w => ItemsOf(v) \subseteq Item \ ItemsOf(w)
    BY DEF ItemsOf
  <2>4. QED
    BY <2>1, <2>2, <2>3 DEF ListedIsHeld
<1>4. ASSUME NEW w \in Worker, WriteManifest(w) PROVE ListedIsHeld'
  BY <1>4 DEF WriteManifest, RowsOf, ListedIsHeld
<1>5. ASSUME NEW w \in Worker, WriteSummary(w) \/ Crash(w) PROVE ListedIsHeld'
  <2>1. /\ manifest' = manifest /\ wpc' = [wpc EXCEPT ![w] = "dead"]
        /\ \A i \in Item : Owner[i] # w => job'[i] = job[i]
    BY <1>5 DEF WriteSummary, Crash, Forget
  <2>2. \A v \in Worker : \A i \in manifest[v] : i \in Item /\ Owner[i] = v
    BY DEF FilesAgree, ItemsOf
  <2>3. QED
    BY <2>1, <2>2 DEF ListedIsHeld
<1>6. CASE Supervise
  <2>1. manifest' = manifest
    BY <1>6 DEF Supervise, Count, CountExits, CheckAlive, PiperComplete, PiperRestart, StillStale, KillStage,
                Relaunch, Progress, Merge, MergeFails
  <2>2. \/ UNCHANGED <<wpc, job>>
        \/ \A w \in Worker : wpc'[w] \notin {"render", "summary"}
    BY <1>6 DEF Supervise, Count, CountExits, CheckAlive, PiperComplete, PiperRestart, StillStale, KillStage,
                Relaunch, Progress, Merge, MergeFails, Launched
  <2>3. QED
    BY <2>1, <2>2 DEF ListedIsHeld
<1>7. CASE Done \/ UNCHANGED vars
  BY <1>7 DEF Done, vars, ListedIsHeld
<1>8. QED
  BY <1>1, <1>2, <1>3, <1>4, <1>5, <1>6, <1>7 DEF Next, Process, Fault

\* Every step is one of the abstract stage, or none.
LEMMA StageStep ==
    IInv /\ ListedIsHeld /\ [Next]_vars => [Stage!Next]_<<final \ bad, manifest, merged>>
<1> SUFFICES ASSUME IInv, ListedIsHeld, Next
             PROVE  \/ Stage!Next
                    \/ UNCHANGED <<final \ bad, manifest, merged>>
  BY DEF vars, files, books
<1> USE DEF IInv, TypeOK, files, books, supervisor, faults
<1>1. ASSUME NEW i \in Item, Converted(i) PROVE Stage!Next
  <2>1. UNCHANGED <<manifest, merged, bad>> /\ final' = final \cup {i} /\ i \notin final
    BY <1>1 DEF Converted, FilesAgree
  <2>2. final' \ bad' = (final \ bad) \cup {i}
    BY <2>1 DEF FilesAgree
  <2>3. Stage!Render
    BY <2>1, <2>2 DEF Stage!Render
  <2>4. QED
    BY <2>3 DEF Stage!Next
<1>2. ASSUME NEW i \in Item, StartJob(i) \/ NativeWritten(i) \/ PiperFails(i) \/ ConvertFails(i) \/ FinalRejected(i)
      PROVE  UNCHANGED <<final \ bad, manifest, merged>>
  <2>1. CASE FinalRejected(i)
    <3>1. UNCHANGED <<manifest, merged>> /\ final' = final \cup {i} /\ bad' = bad \cup {i} /\ i \notin final
      BY <2>1 DEF FinalRejected, FilesAgree
    <3>2. QED
      BY <3>1
  <2>2. CASE StartJob(i) \/ NativeWritten(i) \/ PiperFails(i) \/ ConvertFails(i)
    BY <2>2 DEF StartJob, NativeWritten, PiperFails, ConvertFails
  <2>3. QED
    BY <1>2, <2>1, <2>2
<1>3. ASSUME NEW w \in Worker, WriteManifest(w) PROVE Stage!Next
  <2> DEFINE Share == [v \in Worker |-> ItemsOf(v)]
  <2>1. /\ UNCHANGED <<final, bad, merged>> /\ wpc[w] = "render"
        /\ manifest' = [manifest EXCEPT ![w] = RowsOf(w)]
    BY <1>3 DEF WriteManifest
  <2>2. RowsOf(w) \in SUBSET (Share[w] \cap (final \ bad))
    BY DEF RowsOf, FilesAgree, ItemsOf
  <2>3. manifest[w] \subseteq RowsOf(w)
    BY <2>1 DEF ListedIsHeld, RowsOf, FilesAgree
  <2>4. Stage!List
    BY <2>1, <2>2, <2>3 DEF Stage!List
  <2>5. QED
    BY <2>4 DEF Stage!Next
<1>4. ASSUME NEW w \in Worker, ScanDies(w) \/ Scan(w) \/ WriteSummary(w) \/ Crash(w)
      PROVE  UNCHANGED <<final \ bad, manifest, merged>>
  BY <1>4 DEF ScanDies, Scan, WriteSummary, Crash
<1>5. CASE Merge
  <2>1. /\ UNCHANGED <<final, bad, manifest>> /\ merged' = Item
        /\ \A w \in Worker : manifest[w] = ItemsOf(w)
    BY <1>5, CountsFitIsComplete DEF Merge
  <2>2. manifest = [w \in Worker |-> ItemsOf(w)]
    BY <2>1
  <2>3. Stage!Publish
    BY <2>1, <2>2 DEF Stage!Publish
  <2>4. QED
    BY <2>3 DEF Stage!Next
<1>6. ASSUME Supervise, ~Merge PROVE UNCHANGED <<final \ bad, manifest, merged>>
  BY <1>6 DEF Supervise, Count, CountExits, CheckAlive, PiperComplete, PiperRestart, StillStale, KillStage,
              Relaunch, Progress, MergeFails, NextRound
<1>7. CASE Done
  BY <1>7 DEF Done, vars
<1>8. QED
  BY <1>1, <1>2, <1>3, <1>4, <1>5, <1>6, <1>7 DEF Next, Job, Process, Fault

\* Crashes, kills, failures and relaunches in any order do nothing but what an undisturbed
\* stage does: valid audio is never lost, a manifest never lacks a row that an earlier one
\* of the worker had, and the rows of all items are merged, or none.
THEOREM ImplementsStageAlways == Spec => ImplementsStage
<1>1. Init => ListedIsHeld /\ Stage!Init
  BY DEF Init, ListedIsHeld, Stage!Init
<1>2. QED
  BY IInvAlways, ListedIsHeldStep, StageStep, <1>1, PTL DEF Spec, ImplementsStage, Stage!Spec
=============================================================================
