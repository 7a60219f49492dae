--------------------------- MODULE TextAdmission ---------------------------
(***************************************************************************)
(* The way of a scale-8000 text from merge-text to a certificate of its    *)
(* audio (run_scale8000_dual_gpu_generation.py): merge-text writes the     *)
(* fixed text, admit-text records the decision of a human about it, the    *)
(* synthesis workers and the merge of their manifests require an accepted  *)
(* text, and write-report tells report and certificate that there is       *)
(* audio.  Every command writes several files one after the other and may  *)
(* die between two of them.                                                *)
(*                                                                         *)
(* A text is its version: two runs of merge-text give the same rows, and   *)
(* the same hash, unless what was generated has changed in between.  What  *)
(* is rendered of a text is in PiperSupervisor and SupertonicSynthesis;    *)
(* one engine stands for both here, their stages are alike.                *)
(*                                                                         *)
(* merge-text, admit-text and write-report are given one at a time, and    *)
(* merge-text not while audio is made.                                     *)
(***************************************************************************)
EXTENDS Integers

CONSTANTS Worker,    \* "gpu0", "gpu1"
          MaxText,   \* bound: versions of the text
          MaxDeaths  \* bound: commands of the operator that die

ASSUME ConstantsAssumption == Worker # {} /\ MaxText \in Nat \ {0} /\ MaxDeaths \in Nat

Text == 1 .. MaxText
None == 0               \* no file
Partial == MaxText + 1  \* a manifest that lacks rows
Outcome == {"ACCEPT", "REJECT"}

VARIABLES evidence,      \* the version that merge-text would write
          fixed,         \* the combined text on disk
          addition,      \* the new rows of it, a file of their own
          summary,       \* the addition that the generation summary names
          decisions,     \* the text that the per-row decisions are about
          certificate,   \* the dataset certificate
          report,        \* the planning report
          pc,            \* what the operator's command writes next
          outcome, bound,\* --whole-file-outcome, actual_hash
          audio,         \* audio_status of write-report
          wpc, wtext,    \* synthesis workers, and the text each has loaded
          manifest,      \* the text of each worker's audio manifest
          mpc,           \* what the merge of the manifests writes next
          merged,        \* the texts of the two halves of the merged manifest
          passed,        \* a merge summary with status PASSED exists
          accepted,      \* history: texts that a human has accepted
          renewed,       \* history: workers that wrote their manifest for the present text
          stale,         \* history: what of the audio is of a former text
          torn,          \* history: what a death has left and no command repaired
          deaths         \* commands that have died

texts == <<evidence, fixed, addition, summary>>
books == <<decisions, certificate, report>>
command == <<pc, outcome, bound, audio>>
workers == <<wpc, wtext, manifest>>
merge == <<mpc, merged, passed>>
audioHistory == <<renewed, stale>>
history == <<accepted, audioHistory, torn, deaths>>
vars == <<texts, books, command, workers, merge, history>>

TypeOK ==
    /\ evidence \in Text
    /\ {fixed, addition, summary, decisions, bound} \subseteq Text \cup {None}
    /\ certificate \in [status : {"PLANNED", "TEXT_ACCEPTED", "TEXT_REJECTED"},
                        text : Text \cup {None}, addition : Text \cup {None},
                        audio : {"NOT_RUN", "INCOMPLETE", "CLEAN_AUDIO_GENERATED"}]
    /\ report \in [status : {"PLANNED", "TEXT_ACCEPTED", "TEXT_REJECTED"},
                   text : Text \cup {None},
                   audio : {"NOT_RUN", "INCOMPLETE", "CLEAN_AUDIO_GENERATED"}]
    /\ pc \in {"idle", "fixed", "addition", "summary", "decisions", "certificate",
               "report", "audioReport", "audioCertificate"}
    /\ outcome \in Outcome
    /\ audio \in {"INCOMPLETE", "CLEAN_AUDIO_GENERATED"}
    /\ wpc \in [Worker -> {"off", "require", "load", "render"}]
    /\ wtext \in [Worker -> Text \cup {None}]
    /\ manifest \in [Worker -> Text \cup {None, Partial}]
    /\ mpc \in {"idle", "manifest", "summary"}
    /\ merged \in [Worker -> Text \cup {None}]
    /\ passed \in BOOLEAN
    /\ accepted \subseteq Text
    /\ renewed \subseteq Worker
    /\ stale \subseteq {"merged", "certificate"}
    /\ torn \subseteq {"texts", "hashes", "books", "audio"}
    /\ deaths \in 0 .. MaxDeaths

Init ==
    /\ evidence = 1 /\ fixed = None /\ addition = None /\ summary = None
    /\ decisions = None
    /\ certificate = [status |-> "PLANNED", text |-> None, addition |-> None, audio |-> "NOT_RUN"]
    /\ report = [status |-> "PLANNED", text |-> None, audio |-> "NOT_RUN"]
    /\ pc = "idle" /\ outcome = "REJECT" /\ bound = None /\ audio = "INCOMPLETE"
    /\ wpc = [w \in Worker |-> "off"] /\ wtext = [w \in Worker |-> None]
    /\ manifest = [w \in Worker |-> None]
    /\ mpc = "idle" /\ merged = [w \in Worker |-> None] /\ passed = FALSE
    /\ accepted = {} /\ renewed = {} /\ stale = {} /\ torn = {} /\ deaths = 0

\* The command has ended: its memory is gone.
End == pc' = "idle" /\ outcome' = "REJECT" /\ bound' = None /\ audio' = "INCOMPLETE"

MergingText == pc \in {"fixed", "addition", "summary"}
MakingAudio == mpc # "idle" \/ \E w \in Worker : wpc[w] # "off"

-----------------------------------------------------------------------------
(* merge-text *)

\* Refills, or another filter: the next merge gives another text.
Generate ==
    /\ evidence < MaxText
    /\ ~MergingText
    /\ evidence' = evidence + 1
    /\ UNCHANGED <<fixed, addition, summary, books, command, workers, merge, history>>

MergeText ==
    /\ pc = "idle" /\ ~MakingAudio
    /\ pc' = "fixed"
    /\ UNCHANGED <<texts, books, outcome, bound, audio, workers, merge, history>>

\* From here on manifests, and what was merged of them, are of a former text.
Supersede ==
    /\ renewed' = {}
    /\ stale' = stale \cup {a \in {"merged"} : \E w \in Worker : merged[w] # None}

WriteFixed ==
    /\ pc = "fixed"
    /\ fixed' = evidence
    /\ IF fixed = evidence THEN UNCHANGED audioHistory ELSE Supersede
    /\ pc' = "addition"
    /\ UNCHANGED <<evidence, addition, summary, books, outcome, bound, audio, workers, merge,
                   accepted, torn, deaths>>

\* Mutant: the hash is that of the addition before this run.
WriteSummaryEarly ==
    /\ pc = "addition"
    /\ addition' = evidence /\ summary' = addition
    /\ torn' = torn \ {"texts"}
    /\ End
    /\ UNCHANGED <<evidence, fixed, books, workers, merge, accepted, audioHistory, deaths>>

WriteAddition ==
    /\ pc = "addition"
    /\ addition' = evidence
    /\ pc' = "summary"
    /\ UNCHANGED <<evidence, fixed, summary, books, outcome, bound, audio, workers, merge, history>>

\* new_addition_sha256 is the hash of the file.
WriteSummary ==
    /\ pc = "summary"
    /\ summary' = addition
    /\ torn' = torn \ {"texts"}
    /\ End
    /\ UNCHANGED <<evidence, fixed, addition, books, workers, merge, accepted, audioHistory, deaths>>

-----------------------------------------------------------------------------
(* admit-text: --expected-corpus-sha256 is the hash of the reviewed text,  *)
(* and another one is refused before anything is written.                  *)

AdmitText(o) ==
    /\ pc = "idle" /\ fixed # None
    /\ outcome' = o /\ bound' = fixed
    /\ accepted' = IF o = "ACCEPT" THEN accepted \cup {fixed} ELSE accepted
    /\ pc' = "decisions"
    /\ UNCHANGED <<texts, books, audio, workers, merge, audioHistory, torn, deaths>>

Status == IF outcome = "ACCEPT" THEN "TEXT_ACCEPTED" ELSE "TEXT_REJECTED"

WriteDecisions ==
    /\ pc = "decisions"
    /\ decisions' = bound
    /\ pc' = "certificate"
    /\ UNCHANGED <<texts, certificate, report, outcome, bound, audio, workers, merge, history>>

\* What the addition is, the certificate has from the generation summary.
WriteCertificate ==
    /\ pc = "certificate"
    /\ certificate' = [status |-> Status, text |-> bound, addition |-> summary, audio |-> "NOT_RUN"]
    /\ torn' = (torn \ {"hashes"}) \cup {t \in {"hashes"} : "texts" \in torn}
    /\ stale' = stale \ {"certificate"}
    /\ pc' = "report"
    /\ UNCHANGED <<texts, decisions, report, outcome, bound, audio, workers, merge,
                   accepted, renewed, deaths>>

\* Mutant: the audio of the former text stays reported.
WriteReportKeepsAudio ==
    /\ pc = "report"
    /\ report' = [report EXCEPT !.status = Status, !.text = bound]
    /\ torn' = torn \ {"books", "audio"}
    /\ End
    /\ UNCHANGED <<texts, decisions, certificate, workers, merge, accepted, audioHistory, deaths>>

WriteReport ==
    /\ pc = "report"
    /\ report' = [status |-> Status, text |-> bound, audio |-> "NOT_RUN"]
    /\ torn' = torn \ {"books", "audio"}
    /\ End
    /\ UNCHANGED <<texts, decisions, certificate, workers, merge, accepted, audioHistory, deaths>>

-----------------------------------------------------------------------------
(* The synthesis workers, and the merge of their manifests *)

\* Mutant: the hash is not compared.
AcceptedStatus == certificate.status = "TEXT_ACCEPTED" /\ fixed # None

\* require_text_accepted
Accepted == certificate.status = "TEXT_ACCEPTED" /\ certificate.text = fixed

\* The supervisor, or the operator, starts both.
Launch ==
    /\ \A w \in Worker : wpc[w] = "off"
    /\ ~MergingText
    /\ wpc' = [w \in Worker |-> "require"]
    /\ UNCHANGED <<texts, books, command, wtext, manifest, merge, history>>

\* A process that is gone has no text.
Exit(w) == wpc' = [wpc EXCEPT ![w] = "off"] /\ wtext' = [wtext EXCEPT ![w] = None]

Require(w) ==
    /\ wpc[w] = "require"
    /\ wpc' = [wpc EXCEPT ![w] = IF Accepted THEN "load" ELSE "off"]
    /\ UNCHANGED <<texts, books, command, wtext, manifest, merge, history>>

\* _load_fixed_rows reads the file once more.
Load(w) ==
    /\ wpc[w] = "load"
    /\ wtext' = [wtext EXCEPT ![w] = fixed]
    /\ wpc' = [wpc EXCEPT ![w] = "render"]
    /\ UNCHANGED <<texts, books, command, manifest, merge, history>>

\* The manifest has the rows of the text, or fewer when items have failed.
Render(w) ==
    /\ wpc[w] = "render"
    /\ \E r \in {wtext[w], Partial} : manifest' = [manifest EXCEPT ![w] = r]
    /\ renewed' = renewed \cup {w}
    /\ Exit(w)
    /\ UNCHANGED <<texts, books, command, merge, accepted, stale, torn, deaths>>

WorkerDies(w) ==
    /\ wpc[w] # "off"
    /\ Exit(w)
    /\ UNCHANGED <<texts, books, command, manifest, merge, history>>

\* merge-piper and merge-supertonic are given when no worker is alive.
MergeAudio ==
    /\ mpc = "idle" /\ ~MergingText
    /\ \A w \in Worker : wpc[w] = "off"
    /\ Accepted
    /\ mpc' = "manifest"
    /\ UNCHANGED <<texts, books, command, workers, merged, passed, history>>

\* What is merged is of the present text if every worker has rendered it.
Date == stale' = (stale \ {"merged"}) \cup {a \in {"merged"} : renewed # Worker}

\* Mutant: a manifest is merged with the rows it has.
WriteMergedAsIs ==
    /\ mpc = "manifest"
    /\ \A w \in Worker : manifest[w] # None
    /\ merged' = manifest
    /\ Date
    /\ mpc' = "summary"
    /\ UNCHANGED <<texts, books, command, workers, passed, accepted, renewed, torn, deaths>>

\* Both manifests exist and have the number of rows that the shares have.
WriteMerged ==
    /\ mpc = "manifest"
    /\ \A w \in Worker : manifest[w] \notin {None, Partial}
    /\ merged' = manifest
    /\ Date
    /\ mpc' = "summary"
    /\ UNCHANGED <<texts, books, command, workers, passed, accepted, renewed, torn, deaths>>

WriteMergeSummary ==
    /\ mpc = "summary"
    /\ passed' = TRUE
    /\ mpc' = "idle"
    /\ UNCHANGED <<texts, books, command, workers, merged, history>>

\* A manifest is missing or short, the manifests share rows, or the process dies.
MergeAudioEnds ==
    /\ mpc # "idle"
    /\ mpc' = "idle"
    /\ UNCHANGED <<texts, books, command, workers, merged, passed, history>>

-----------------------------------------------------------------------------
(* write-report *)

\* Mutant: the manifests of the workers are enough.
AttestAudioOfWorkers ==
    /\ pc = "idle"
    /\ audio' = IF \A w \in Worker : manifest[w] # None THEN "CLEAN_AUDIO_GENERATED" ELSE "INCOMPLETE"
    /\ pc' = "audioReport"
    /\ UNCHANGED <<texts, books, outcome, bound, workers, merge, history>>

\* clean_audio_status: the summaries say PASSED and count all rows.
AttestAudio ==
    /\ pc = "idle"
    /\ audio' = IF passed THEN "CLEAN_AUDIO_GENERATED" ELSE "INCOMPLETE"
    /\ pc' = "audioReport"
    /\ UNCHANGED <<texts, books, outcome, bound, workers, merge, history>>

WriteAudioReport ==
    /\ pc = "audioReport"
    /\ report' = [report EXCEPT !.audio = audio]
    /\ pc' = "audioCertificate"
    /\ UNCHANGED <<texts, decisions, certificate, outcome, bound, audio, workers, merge, history>>

WriteAudioCertificate ==
    /\ pc = "audioCertificate"
    /\ certificate' = [certificate EXCEPT !.audio = audio]
    /\ stale' = (stale \ {"certificate"}) \cup {a \in {"certificate"} : "merged" \in stale}
    /\ torn' = torn \ {"audio"}
    /\ End
    /\ UNCHANGED <<texts, decisions, report, workers, merge, accepted, renewed, deaths>>

\* What a death behind each write leaves half done.
TornAt(place) ==
    CASE place \in {"addition", "summary"} -> {"texts"}
      [] place = "certificate" -> {"books"}
      [] place = "report" -> {"books", "audio"}
      [] place = "audioCertificate" -> {"audio"}
      [] OTHER -> {}

\* A command of the operator dies.
CommandDies ==
    /\ pc # "idle"
    /\ deaths < MaxDeaths /\ deaths' = deaths + 1
    /\ End
    /\ torn' = torn \cup TornAt(pc)
    /\ UNCHANGED <<texts, books, workers, merge, accepted, audioHistory>>

-----------------------------------------------------------------------------
Merge == Generate \/ MergeText \/ WriteFixed \/ WriteAddition \/ WriteSummary
Admit == \/ \E o \in Outcome : AdmitText(o)
         \/ WriteDecisions \/ WriteCertificate \/ WriteReport
Attest == AttestAudio \/ WriteAudioReport \/ WriteAudioCertificate
Synthesize == Launch \/ \E w \in Worker : Require(w) \/ Load(w) \/ Render(w) \/ WorkerDies(w)
Collect == MergeAudio \/ WriteMerged \/ WriteMergeSummary \/ MergeAudioEnds
Next == Merge \/ Admit \/ Attest \/ Synthesize \/ Collect \/ CommandDies

Spec == Init /\ [][Next]_vars

-----------------------------------------------------------------------------
(* Properties *)

\* "Only TEXT_ACCEPTED partitions may enter TTS": each half of the merged
\* manifest, and what a worker renders, is of a text that a human has accepted,
\* through every crash of a command and however often the text is replaced.
RenderedWasAccepted ==
    \A w \in Worker :
        /\ wpc[w] = "render" => wtext[w] \in accepted
        /\ merged[w] # None => merged[w] \in accepted

\* A certificate that says that there is clean audio says so of its own text.
AudioCertified ==
    certificate.status = "TEXT_ACCEPTED" /\ certificate.audio = "CLEAN_AUDIO_GENERATED"
        => \A w \in Worker : merged[w] = certificate.text

\* So it does after any number of replaced texts, and with the manifests of former
\* texts on disk, if the audio was merged after every worker had rendered the text
\* that is on disk, and reported before that text was replaced.
AudioCertifiedUnlessStale == "certificate" \notin stale => AudioCertified

\* The two hashes of the certificate belong to one run of merge-text.
CertificateHashes ==
    certificate.addition \in {None, certificate.text}

\* So they do, deaths of merge-text or not, if a merge-text had run to its end
\* when the text was admitted: it repairs what a dead one has left.
CertificateHashesUnlessTorn == "hashes" \notin torn => CertificateHashes

\* The decisions, the certificate and the report tell the same between two
\* commands, whatever their order, and after the death of one as soon as the same
\* command has run to its end.
BooksAgree ==
    pc = "idle" =>
        /\ "books" \notin torn =>
              /\ decisions = certificate.text
              /\ report.status = certificate.status /\ report.text = certificate.text
        /\ "audio" \notin torn => report.audio = certificate.audio
=============================================================================
