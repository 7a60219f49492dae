--------------------------- MODULE PiperSupervisor ---------------------------
(***************************************************************************)
(* The Piper stage of the scale-8000 run: the shell supervisor             *)
(* (supervise_scale8000_tts_stages.sh) that counts WAV files, launches,    *)
(* kills and relaunches two detached worker processes, and the workers     *)
(* (run_scale8000_dual_gpu_generation.py), which render the missing items  *)
(* in a thread pool, write a manifest and then a summary, and exit.  Files *)
(* survive crashes and kills; jobs and rows in memory do not.              *)
(*                                                                         *)
(* The supervisor knows only two things: how many *.wav files there are,   *)
(* and whether any worker is alive.  It reads them one after the other.    *)
(***************************************************************************)
EXTENDS Naturals, FiniteSets

CONSTANTS Worker,         \* "gpu0", "gpu1"
          Item,           \* final_rows items, half of them for each worker
          Owner,          \* Owner[i] is the worker whose source shard has item i
          Threads,        \* SCALE8000_PIPER_WORKERS_PER_GPU
          StaleLimit,     \* SCALE8000_STALE_MINUTES
          MaxStaleKills,  \* bound: how often the workers are too slow
          MaxCrashes,     \* bound: how often a worker process dies
          MaxJobFaults,   \* bound: how often rendering an item fails
          DirsMade        \* workers whose final-16000 directory exists at first

ASSUME WorkerAssumption == Worker # {}
ASSUME ItemAssumption == /\ IsFiniteSet(Item)
                         /\ Owner \in [Item -> Worker]
                         /\ \A w \in Worker : \E i \in Item : Owner[i] = w
ASSUME LimitAssumption == /\ Threads \in Nat \ {0}
                          /\ StaleLimit \in Nat \ {0}
                          /\ MaxStaleKills \in Nat
                          /\ MaxCrashes \in Nat
                          /\ MaxJobFaults \in Nat
                          /\ DirsMade \subseteq Worker

VARIABLES native,    \* items with a native WAV
          part,      \* items with a *.part.wav in final-16000
          final,     \* items with a final WAV
          bad,       \* items whose final WAV validate_wav rejects
          dir,       \* workers whose final-16000 directory exists
          manifest,  \* rows of the worker's audio manifest ({} if there is none)
          summary,   \* status in the worker's synthesis summary
          wpc,       \* where each worker process is
          job,       \* where each item's job is, in its worker's memory
          spc,       \* where the supervisor is
          counted,   \* workers whose files it has counted in this round
          total,     \* gpu0 + gpu1, so far
          lastTotal, \* last_total; None is its -1
          stale,     \* stale
          alive,     \* alive = yes
          merged,    \* rows of the merged manifest
          crashes, kills, jobFaults   \* the bounded faults so far

files == <<native, part, final, bad, dir>>
books == <<manifest, summary>>
supervisor == <<spc, counted, total, lastTotal, stale, alive>>
faults == <<crashes, kills, jobFaults>>
vars == <<files, books, wpc, job, supervisor, merged, faults>>

None == Cardinality(Item) * 2 + 1   \* a total that no count can be

ItemsOf(w) == {i \in Item : Owner[i] = w}
Running(w) == {i \in ItemsOf(w) : job[i] \in {"piper", "convert"}}
RowsOf(w) == {i \in ItemsOf(w) : job[i] = "done"}
AnyAlive == \E w \in Worker : wpc[w] # "dead"

\* count_wavs: find -name '*.wav' matches <stem>.part.wav as well.
WavsOf(w) == Cardinality(final \cap ItemsOf(w)) + Cardinality(part \cap ItemsOf(w))

TypeOK ==
    /\ native \subseteq Item
    /\ part \subseteq Item
    /\ final \subseteq Item
    /\ bad \subseteq Item
    /\ dir \subseteq Worker
    /\ manifest \in [Worker -> SUBSET Item]
    /\ summary \in [Worker -> {"none", "PASSED", "FAILED"}]
    /\ wpc \in [Worker -> {"dead", "scan", "render", "summary"}]
    /\ job \in [Item -> {"off", "queued", "piper", "convert", "done", "failed"}]
    /\ spc \in {"count", "alive", "decide", "launch", "merge", "merged", "failed", "exited"}
    /\ counted \subseteq Worker
    /\ total \in Nat
    /\ lastTotal \in Nat
    /\ stale \in 0 .. StaleLimit - 1
    /\ alive \in BOOLEAN
    /\ merged \subseteq Item
    /\ crashes \in 0 .. MaxCrashes
    /\ kills \in 0 .. MaxStaleKills
    /\ jobFaults \in 0 .. MaxJobFaults

\* The stage may have been launched by hand before the supervisor starts.
Init ==
    /\ native = {} /\ part = {} /\ final = {} /\ bad = {}
    /\ dir = DirsMade
    /\ manifest = [w \in Worker |-> {}]
    /\ summary = [w \in Worker |-> "none"]
    /\ \E p \in {"dead", "scan"} : wpc = [w \in Worker |-> p]
    /\ job = [i \in Item |-> "off"]
    /\ spc = "count" /\ counted = {} /\ total = 0
    /\ lastTotal = None /\ stale = 0 /\ alive = FALSE
    /\ merged = {}
    /\ crashes = 0 /\ kills = 0 /\ jobFaults = 0

-----------------------------------------------------------------------------
(* A worker: stage_synthesize_piper_worker *)

\* The items whose native and final WAV exist are rows already; validate_wav
\* raises on a bad one, and the process ends before it renders anything.
Complete(i) == i \in native /\ i \in final
ScanDies(w) ==
    /\ wpc[w] = "scan"
    /\ \E i \in ItemsOf(w) : Complete(i) /\ i \in bad
    /\ wpc' = [wpc EXCEPT ![w] = "dead"]
    /\ UNCHANGED <<files, books, job, supervisor, merged, faults>>

\* Mutant: an item with a native WAV is a row.
ScanTrustsNative(w) ==
    /\ wpc[w] = "scan"
    /\ job' = [i \in Item |-> IF i \notin ItemsOf(w) THEN job[i]
                              ELSE IF i \in native THEN "done" ELSE "queued"]
    /\ wpc' = [wpc EXCEPT ![w] = "render"]
    /\ UNCHANGED <<files, books, supervisor, merged, faults>>
Scan(w) ==
    /\ wpc[w] = "scan"
    /\ \A i \in ItemsOf(w) : Complete(i) => i \notin bad
    /\ job' = [i \in Item |-> IF i \notin ItemsOf(w) THEN job[i]
                              ELSE IF Complete(i) THEN "done" ELSE "queued"]
    /\ wpc' = [wpc EXCEPT ![w] = "render"]
    /\ UNCHANGED <<files, books, supervisor, merged, faults>>

\* A pool thread takes an item: render_one_item up to the Piper process.
StartJob(i) ==
    /\ wpc[Owner[i]] = "render" /\ job[i] = "queued"
    /\ Cardinality(Running(Owner[i])) < Threads
    /\ job' = [job EXCEPT ![i] = "piper"]
    /\ UNCHANGED <<files, books, wpc, supervisor, merged, faults>>

\* os.replace(temp_native, native_path), then convert_to_16k_pcm makes the
\* directory and starts to write <stem>.part.wav.
NativeWritten(i) ==
    /\ job[i] = "piper"
    /\ native' = native \cup {i}
    /\ dir' = dir \cup {Owner[i]}
    /\ part' = part \cup {i}
    /\ job' = [job EXCEPT ![i] = "convert"]
    /\ UNCHANGED <<final, bad, books, wpc, supervisor, merged, faults>>

\* os.replace(temp_path, final_wav); the row is complete.
Converted(i) ==
    /\ job[i] = "convert"
    /\ part' = part \ {i}
    /\ final' = final \cup {i}
    /\ job' = [job EXCEPT ![i] = "done"]
    /\ UNCHANGED <<native, bad, dir, books, wpc, supervisor, merged, faults>>

\* Piper exits with an error, ran on the CPU, or (n = {i}) wrote a native WAV
\* that validate_wav rejects: the future raises and the item is a failure.
PiperFails(i) ==
    /\ job[i] = "piper" /\ jobFaults < MaxJobFaults
    /\ \E n \in SUBSET {i} : native' = native \cup n
    /\ job' = [job EXCEPT ![i] = "failed"]
    /\ jobFaults' = jobFaults + 1
    /\ UNCHANGED <<part, final, bad, dir, books, wpc, supervisor, merged, crashes, kills>>

\* SoX fails and the part file is unlinked, or (p = {i}) the fallback
\* converter raises while it writes and the part file stays.
ConvertFails(i) ==
    /\ job[i] = "convert" /\ jobFaults < MaxJobFaults
    /\ \E p \in SUBSET {i} : part' = (part \ {i}) \cup p
    /\ job' = [job EXCEPT ![i] = "failed"]
    /\ jobFaults' = jobFaults + 1
    /\ UNCHANGED <<native, final, bad, dir, books, wpc, supervisor, merged, crashes, kills>>

\* Mutant: the row is kept although the check failed.
FinalRejectedKept(i) ==
    /\ job[i] = "convert" /\ jobFaults < MaxJobFaults
    /\ part' = part \ {i}
    /\ final' = final \cup {i}
    /\ bad' = bad \cup {i}
    /\ job' = [job EXCEPT ![i] = "done"]
    /\ jobFaults' = jobFaults + 1
    /\ UNCHANGED <<native, dir, books, wpc, supervisor, merged, crashes, kills>>

\* The final WAV is in place when validate_wav rejects it.
FinalRejected(i) ==
    /\ job[i] = "convert" /\ jobFaults < MaxJobFaults
    /\ part' = part \ {i}
    /\ final' = final \cup {i}
    /\ bad' = bad \cup {i}
    /\ job' = [job EXCEPT ![i] = "failed"]
    /\ jobFaults' = jobFaults + 1
    /\ UNCHANGED <<native, dir, books, wpc, supervisor, merged, crashes, kills>>

\* When every future is done the rows are written, failures or not.
WriteManifest(w) ==
    /\ wpc[w] = "render"
    /\ \A i \in ItemsOf(w) : job[i] \in {"done", "failed"}
    /\ manifest' = [manifest EXCEPT ![w] = RowsOf(w)]
    /\ wpc' = [wpc EXCEPT ![w] = "summary"]
    /\ UNCHANGED <<files, summary, job, supervisor, merged, faults>>

Forget(w) == job' = [i \in Item |-> IF Owner[i] = w THEN "off" ELSE job[i]]

\* The summary is the last thing a worker does: it exits, with an error when
\* the status is not PASSED.
WriteSummary(w) ==
    /\ wpc[w] = "summary"
    /\ summary' = [summary EXCEPT ![w] = IF RowsOf(w) = ItemsOf(w) THEN "PASSED" ELSE "FAILED"]
    /\ wpc' = [wpc EXCEPT ![w] = "dead"]
    /\ Forget(w)
    /\ UNCHANGED <<files, manifest, supervisor, merged, faults>>

\* The process dies at any point (out of memory, a kill from outside).
Crash(w) ==
    /\ wpc[w] # "dead" /\ crashes < MaxCrashes
    /\ crashes' = crashes + 1
    /\ wpc' = [wpc EXCEPT ![w] = "dead"]
    /\ Forget(w)
    /\ UNCHANGED <<files, books, supervisor, merged, kills, jobFaults>>

-----------------------------------------------------------------------------
(* The supervisor: supervise_piper *)

\* gpu0="$(count_wavs ...)", then gpu1: two reads, at two moments.
Count(w) ==
    /\ spc = "count" /\ w \notin counted /\ w \in dir
    /\ total' = total + WavsOf(w)
    /\ counted' = counted \cup {w}
    /\ spc' = IF counted' = Worker THEN "alive" ELSE "count"
    /\ UNCHANGED <<files, books, wpc, job, lastTotal, stale, alive, merged, faults>>

\* find on a missing directory exits 1; with pipefail the substitution fails,
\* and with set -e the supervisor ends.
CountExits(w) ==
    /\ spc = "count" /\ w \notin counted /\ w \notin dir
    /\ spc' = "exited"
    /\ UNCHANGED <<files, books, wpc, job, counted, total, lastTotal, stale, alive, merged, faults>>

\* Mutant: a stage is alive only when all of its workers are.
CheckAliveAll ==
    /\ spc = "alive"
    /\ alive' = (\A w \in Worker : wpc[w] # "dead")
    /\ spc' = "decide"
    /\ UNCHANGED <<files, books, wpc, job, counted, total, lastTotal, stale, merged, faults>>

\* stage_alive: one pattern for both workers.
CheckAlive ==
    /\ spc = "alive"
    /\ alive' = AnyAlive
    /\ spc' = "decide"
    /\ UNCHANGED <<files, books, wpc, job, counted, total, lastTotal, stale, merged, faults>>

Expected == Cardinality(Item)

\* Mutant: the count of stale rounds is never taken back.
NextRoundAdds(n) ==
    /\ spc' = "count"
    /\ alive' = FALSE
    /\ lastTotal' = total
    /\ total' = 0
    /\ counted' = {}
    /\ stale' = stale + n

\* The end of an iteration: last_total="$total", sleep, and count again.  What
\* the next iteration overwrites before it reads is cleared here.
NextRound(n) ==
    /\ spc' = "count"
    /\ alive' = FALSE
    /\ lastTotal' = total
    /\ total' = 0
    /\ counted' = {}
    /\ stale' = n

\* total -ge 64000 and alive = no: break, then merge.
PiperComplete ==
    /\ spc = "decide" /\ total >= Expected /\ ~alive
    /\ spc' = "merge"
    /\ UNCHANGED <<files, books, wpc, job, counted, total, lastTotal, stale, alive, merged, faults>>

Launched == [w \in Worker |-> "scan"]

\* total -lt 64000 and alive = no: launch both workers.
PiperRestart ==
    /\ spc = "decide" /\ total < Expected /\ ~alive
    /\ wpc' = Launched
    /\ NextRound(0)
    /\ UNCHANGED <<files, books, job, merged, faults>>

\* The count has not moved.  StaleLimit such rounds in a row kill the stage;
\* once the bound on slow stages is spent, the stage is not slow again.
Waits == stale + 1 < StaleLimit \/ kills = MaxStaleKills
StillStale ==
    /\ spc = "decide" /\ alive /\ total = lastTotal /\ Waits
    /\ NextRound(IF stale + 1 < StaleLimit THEN stale + 1 ELSE stale)
    /\ UNCHANGED <<files, books, wpc, job, merged, faults>>

\* kill_stage: TERM and then KILL to the process group of every worker.
KillStage ==
    /\ spc = "decide" /\ alive /\ total = lastTotal /\ ~Waits
    /\ wpc' = [w \in Worker |-> "dead"]
    /\ job' = [i \in Item |-> "off"]
    /\ kills' = kills + 1
    /\ spc' = "launch"
    /\ UNCHANGED <<files, books, counted, total, lastTotal, stale, alive, merged, crashes, jobFaults>>

Relaunch ==
    /\ spc = "launch"
    /\ wpc' = Launched
    /\ NextRound(0)
    /\ UNCHANGED <<files, books, job, merged, faults>>

\* Mutant: after progress another launch, in case a worker is missing.
ProgressLaunches ==
    /\ spc = "decide" /\ alive /\ total # lastTotal
    /\ wpc' = IF total < Expected THEN Launched ELSE wpc
    /\ NextRound(0)
    /\ UNCHANGED <<files, books, job, merged, faults>>

\* The count has moved.
Progress ==
    /\ spc = "decide" /\ alive /\ total # lastTotal
    /\ NextRound(0)
    /\ UNCHANGED <<files, books, wpc, job, merged, faults>>

-----------------------------------------------------------------------------
(* stage_merge_piper *)

AllRows == UNION {manifest[w] : w \in Worker}
CountsFit == \A w \in Worker : Cardinality(manifest[w]) = Cardinality(ItemsOf(w))

Merge ==
    /\ spc = "merge" /\ CountsFit
    /\ merged' = AllRows
    /\ spc' = "merged"
    /\ UNCHANGED <<files, books, wpc, job, counted, total, lastTotal, stale, alive, faults>>

\* FileNotFoundError or a count mismatch; set -e ends the supervisor.
MergeFails ==
    /\ spc = "merge" /\ ~CountsFit
    /\ spc' = "failed"
    /\ UNCHANGED <<files, books, wpc, job, counted, total, lastTotal, stale, alive, merged, faults>>

-----------------------------------------------------------------------------
Job(i) == StartJob(i) \/ NativeWritten(i) \/ Converted(i)
Process(w) == ScanDies(w) \/ Scan(w) \/ WriteManifest(w) \/ WriteSummary(w)
Fault == \/ \E i \in Item : PiperFails(i) \/ ConvertFails(i) \/ FinalRejected(i)
         \/ \E w \in Worker : Crash(w)
Supervise == \/ \E w \in Worker : Count(w) \/ CountExits(w)
             \/ CheckAlive
             \/ PiperComplete \/ PiperRestart \/ StillStale \/ KillStage \/ Relaunch \/ Progress
             \/ Merge \/ MergeFails
Ended == spc \in {"merged", "failed", "exited"}

\* The supervisor has ended and the workers it leaves behind, if any, too.
Done == Ended /\ ~AnyAlive /\ UNCHANGED vars

Next == \/ \E i \in Item : Job(i)
        \/ \E w \in Worker : Process(w)
        \/ Fault \/ Supervise \/ Done

Spec == Init /\ [][Next]_vars

\* Processes, pool threads and the shell loop all keep running.
FairSpec == /\ Spec
            /\ \A i \in Item : WF_vars(Job(i))
            /\ \A w \in Worker : WF_vars(Process(w))
            /\ WF_vars(Supervise)

-----------------------------------------------------------------------------
(* Properties *)

\* A merged manifest has every item, each with a final WAV that passed
\* validation, whatever crashed, was killed or failed before: the merge trusts
\* manifests that may be from an earlier process (stage_merge_piper).
MergedComplete ==
    spc = "merged" => merged = Item /\ Item \subseteq final \ bad

\* Crashes, kills, failures and relaunches in any order do nothing but what an
\* undisturbed stage does: valid audio is never lost, a later manifest of a worker
\* never lacks a row that an earlier one had, and all rows are merged, or none.
Stage == INSTANCE AudioStage WITH
    Share <- [w \in Worker |-> ItemsOf(w)],
    audio <- final \ bad, listed <- manifest, published <- merged
ImplementsStage == Stage!Spec

\* No worker is launched while a process of the same worker is alive: two of
\* them would write the same part files.
OneProcessEach ==
    [][\A w \in Worker : wpc'[w] = "scan" => wpc[w] \in {"dead", "scan"}]_vars

\* If no process crashes and no item fails, the supervisor gets the stage
\* merged, however often it found it stale.
MergesUnlessFaults ==
    (DirsMade = Worker /\ [](crashes = 0 /\ jobFaults = 0)) => <>(spc = "merged")

\* After any bounded number of crashes, kills and failures the supervisor ends,
\* merged or not, unless a final WAV is left that no restart gets past.
SupervisorEnds ==
    [](bad = {}) => <>Ended
=============================================================================
