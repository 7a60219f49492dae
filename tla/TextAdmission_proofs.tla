------------------------ MODULE TextAdmission_proofs ------------------------
(***************************************************************************)
(* Proofs about TextAdmission for every set of workers and any number of   *)
(* versions and deaths.                                                    *)
(***************************************************************************)
EXTENDS TextAdmission, TLAPS

\* The discipline of the operator, and what a running command has read.
Orderly ==
    /\ MakingAudio => ~MergingText
    /\ certificate.text <= fixed /\ fixed <= evidence
    /\ pc \in {"decisions", "certificate", "report"} => bound = fixed /\ fixed # None

\* Where an acceptance is recorded, or relied upon, there was one.
AcceptedByHuman ==
    /\ pc \in {"decisions", "certificate"} /\ outcome = "ACCEPT" => bound \in accepted
    /\ certificate.status = "TEXT_ACCEPTED" => certificate.text \in accepted
    /\ \A w \in Worker :
          /\ wpc[w] = "load" => certificate.text = fixed /\ fixed \in accepted
          /\ wpc[w] = "render" => wtext[w] \in accepted
          /\ manifest[w] \in accepted \cup {None, Partial}
          /\ merged[w] \in accepted \cup {None}

\* The files of merge-text agree when the last one has run to its end.
FilesOfOneMerge ==
    /\ "texts" \notin torn /\ pc \notin {"addition", "summary"} =>
          addition = fixed /\ summary = fixed
    /\ pc = "addition" => fixed = evidence
    /\ pc = "summary" => fixed = evidence /\ addition = evidence
    /\ "hashes" \notin torn => certificate.addition = certificate.text

\* A worker that has rendered the present text has a manifest of it, or a partial one.
\* What was merged of such manifests is of the certified text, and as long as this is
\* the text on disk nothing older can be merged.
AudioOfText ==
    /\ \A w \in Worker :
          /\ wpc[w] = "render" => wtext[w] = fixed
          /\ w \in renewed => manifest[w] \in {fixed, Partial}
          /\ passed \/ mpc = "summary" => merged[w] # None
    /\ mpc # "idle" => certificate.text = fixed
    /\ "merged" \notin stale =>
          \/ \A w \in Worker : merged[w] = None
          \/ /\ renewed = Worker /\ certificate.text = fixed
             /\ \A w \in Worker : merged[w] = fixed
    /\ audio = "CLEAN_AUDIO_GENERATED" => passed
    /\ certificate.audio = "CLEAN_AUDIO_GENERATED" /\ "certificate" \notin stale =>
          /\ \A w \in Worker : merged[w] = certificate.text
          /\ certificate.text = fixed => renewed = Worker

\* The books agree, but for what the command that runs has still to write and for
\* what a death has left.
BooksInStep ==
    /\ pc \in {"certificate", "report"} => decisions = bound
    /\ pc = "report" => certificate.status = Status /\ certificate.text = bound
                         /\ certificate.audio = "NOT_RUN"
    /\ pc = "audioCertificate" => report.audio = audio
    /\ "books" \notin torn =>
          /\ pc \notin {"certificate", "report"} => decisions = certificate.text
          /\ pc # "report" => report.status = certificate.status /\ report.text = certificate.text
    /\ "audio" \notin torn /\ pc \notin {"report", "audioCertificate"} =>
          report.audio = certificate.audio

IInv == TypeOK /\ Orderly /\ AcceptedByHuman /\ FilesOfOneMerge /\ AudioOfText /\ BooksInStep

\* Nothing is written at first.
LEMMA InitIInv == Init => IInv
<1> SUFFICES ASSUME Init PROVE IInv
  OBVIOUS
<1> USE ConstantsAssumption DEF Init
<1>1. TypeOK
  <2>1. 1 \in Text /\ None \in Text \cup {None}
    BY DEF Text
  <2>2. /\ certificate \in [status : {"PLANNED", "TEXT_ACCEPTED", "TEXT_REJECTED"},
                            text : Text \cup {None}, addition : Text \cup {None},
                            audio : {"NOT_RUN", "INCOMPLETE", "CLEAN_AUDIO_GENERATED"}]
        /\ report \in [status : {"PLANNED", "TEXT_ACCEPTED", "TEXT_REJECTED"},
                       text : Text \cup {None},
                       audio : {"NOT_RUN", "INCOMPLETE", "CLEAN_AUDIO_GENERATED"}]
    BY <2>1
  <2>3. /\ wpc \in [Worker -> {"off", "require", "load", "render"}]
        /\ wtext \in [Worker -> Text \cup {None}]
        /\ manifest \in [Worker -> Text \cup {None, Partial}]
        /\ merged \in [Worker -> Text \cup {None}]
    BY <2>1
  <2>4. deaths \in 0 .. MaxDeaths
    OBVIOUS
  <2> QED
    BY <2>1, <2>2, <2>3, <2>4 DEF TypeOK, Outcome
<1>2. Orderly
  BY DEF Orderly, MakingAudio, MergingText, None
<1>3. AcceptedByHuman
  BY DEF AcceptedByHuman
<1>4. FilesOfOneMerge
  BY DEF FilesOfOneMerge
<1>5. AudioOfText
  BY DEF AudioOfText
<1>6. BooksInStep
  BY DEF BooksInStep
<1> QED
  BY <1>1, <1>2, <1>3, <1>4, <1>5, <1>6 DEF IInv

\* Every step keeps the types; what a worker loads is a text by AcceptedByHuman.
LEMMA TypeOKStep == IInv /\ [Next]_vars => TypeOK'
<1> SUFFICES ASSUME IInv, [Next]_vars PROVE TypeOK'
  OBVIOUS
<1> USE ConstantsAssumption DEF IInv, TypeOK, Text, None, Partial, Outcome, Status, End, Exit, vars, texts, books, command, workers, merge, history, audioHistory, Supersede, Date, TornAt
<1>1. CASE Merge
  <2>1. CASE Generate
    BY <2>1 DEF Generate
  <2>2. CASE MergeText
    BY <2>2 DEF MergeText
  <2>3. CASE WriteFixed
    <3>1. renewed' \subseteq Worker /\ stale' \subseteq {"merged", "certificate"}
      <4>1. CASE UNCHANGED audioHistory
        BY <4>1
      <4>2. CASE Supersede
        BY <4>2
      <4> QED
        BY <2>3, <4>1, <4>2 DEF WriteFixed
    <3>2. fixed' \in Text /\ pc' = "addition"
          /\ UNCHANGED <<evidence, addition, summary, books, outcome, bound, audio, workers, merge,
                         accepted, torn, deaths>>
      BY <2>3 DEF WriteFixed
    <3> QED
      BY <3>1, <3>2
  <2>4. CASE WriteAddition
    BY <2>4 DEF WriteAddition
  <2>5. CASE WriteSummary
    BY <2>5 DEF WriteSummary
  <2> QED
    BY <1>1, <2>1, <2>2, <2>3, <2>4, <2>5 DEF Merge
<1>2. CASE Admit
  <2>1. ASSUME NEW o \in Outcome, AdmitText(o) PROVE TypeOK'
    <3>1. fixed \in Text /\ accepted' \subseteq Text
      BY <2>1 DEF AdmitText
    <3> QED
      BY <2>1, <3>1 DEF AdmitText
  <2>2. CASE WriteDecisions
    BY <2>2 DEF WriteDecisions
  <2>3. CASE WriteCertificate
    BY <2>3 DEF WriteCertificate
  <2>4. CASE WriteReport
    BY <2>4 DEF WriteReport
  <2> QED
    BY <1>2, <2>1, <2>2, <2>3, <2>4 DEF Admit
<1>3. CASE Attest
  <2>1. CASE AttestAudio
    BY <2>1 DEF AttestAudio
  <2>2. CASE WriteAudioReport
    BY <2>2 DEF WriteAudioReport
  <2>3. CASE WriteAudioCertificate
    BY <2>3 DEF WriteAudioCertificate
  <2> QED
    BY <1>3, <2>1, <2>2, <2>3 DEF Attest
<1>4. CASE Synthesize
  <2>1. CASE Launch
    BY <2>1 DEF Launch
  <2>2. ASSUME NEW w \in Worker, Require(w) PROVE TypeOK'
    BY <2>2 DEF Require
  <2>3. ASSUME NEW w \in Worker, Load(w) PROVE TypeOK'
    <3>1. fixed \in Text
      BY <2>3 DEF Load, AcceptedByHuman
    <3> QED
      BY <2>3, <3>1 DEF Load
  <2>4. ASSUME NEW w \in Worker, Render(w) PROVE TypeOK'
    BY <2>4 DEF Render
  <2>5. ASSUME NEW w \in Worker, WorkerDies(w) PROVE TypeOK'
    BY <2>5 DEF WorkerDies
  <2> QED
    BY <1>4, <2>1, <2>2, <2>3, <2>4, <2>5 DEF Synthesize
<1>5. CASE Collect
  <2>1. CASE MergeAudio
    BY <2>1 DEF MergeAudio
  <2>2. CASE WriteMerged
    <3>1. merged' \in [Worker -> Text \cup {None}]
      BY <2>2 DEF WriteMerged
    <3>2. stale' \subseteq {"merged", "certificate"} /\ mpc' = "summary"
      BY <2>2 DEF WriteMerged
    <3>3. UNCHANGED <<texts, books, command, workers, passed, accepted, renewed, torn, deaths>>
      BY <2>2 DEF WriteMerged
    <3> QED
      BY <3>1, <3>2, <3>3
  <2>3. CASE WriteMergeSummary
    BY <2>3 DEF WriteMergeSummary
  <2>4. CASE MergeAudioEnds
    BY <2>4 DEF MergeAudioEnds
  <2> QED
    BY <1>5, <2>1, <2>2, <2>3, <2>4 DEF Collect
<1>6. CASE CommandDies
  BY <1>6 DEF CommandDies
<1>7. CASE UNCHANGED vars
  BY <1>7
<1> QED
  BY <1>1, <1>2, <1>3, <1>4, <1>5, <1>6, <1>7 DEF Next

\* No step starts audio beside a merge-text, nor moves the text under a decision.
LEMMA OrderlyStep == IInv /\ [Next]_vars => Orderly'
<1> SUFFICES ASSUME IInv, [Next]_vars PROVE Orderly'
  OBVIOUS
<1> USE ConstantsAssumption DEF IInv, TypeOK, Text, None, Orderly, MakingAudio, MergingText, End, Exit, vars, texts, books, command, workers, merge, history, audioHistory, Supersede, Date, TornAt
<1>1. CASE Merge
  <2>1. CASE Generate
    BY <2>1 DEF Generate
  <2>2. CASE MergeText
    BY <2>2 DEF MergeText
  <2>3. CASE WriteFixed
    BY <2>3 DEF WriteFixed
  <2>4. CASE WriteAddition
    BY <2>4 DEF WriteAddition
  <2>5. CASE WriteSummary
    BY <2>5 DEF WriteSummary
  <2> QED
    BY <1>1, <2>1, <2>2, <2>3, <2>4, <2>5 DEF Merge
<1>2. CASE Admit
  <2>1. ASSUME NEW o \in Outcome, AdmitText(o) PROVE Orderly'
    BY <2>1 DEF AdmitText
  <2>2. CASE WriteDecisions
    BY <2>2 DEF WriteDecisions
  <2>3. CASE WriteCertificate
    BY <2>3 DEF WriteCertificate
  <2>4. CASE WriteReport
    BY <2>4 DEF WriteReport
  <2> QED
    BY <1>2, <2>1, <2>2, <2>3, <2>4 DEF Admit
<1>3. CASE Attest
  <2>1. CASE AttestAudio
    BY <2>1 DEF AttestAudio
  <2>2. CASE WriteAudioReport
    BY <2>2 DEF WriteAudioReport
  <2>3. CASE WriteAudioCertificate
    BY <2>3 DEF WriteAudioCertificate
  <2> QED
    BY <1>3, <2>1, <2>2, <2>3 DEF Attest
<1>4. CASE Synthesize
  <2>1. CASE Launch
    BY <2>1 DEF Launch
  <2>2. ASSUME NEW w \in Worker, Require(w) PROVE Orderly'
    BY <2>2 DEF Require
  <2>3. ASSUME NEW w \in Worker, Load(w) PROVE Orderly'
    BY <2>3 DEF Load
  <2>4. ASSUME NEW w \in Worker, Render(w) PROVE Orderly'
    BY <2>4 DEF Render
  <2>5. ASSUME NEW w \in Worker, WorkerDies(w) PROVE Orderly'
    BY <2>5 DEF WorkerDies
  <2> QED
    BY <1>4, <2>1, <2>2, <2>3, <2>4, <2>5 DEF Synthesize
<1>5. CASE Collect
  <2>1. CASE MergeAudio
    BY <2>1 DEF MergeAudio
  <2>2. CASE WriteMerged
    BY <2>2 DEF WriteMerged
  <2>3. CASE WriteMergeSummary
    BY <2>3 DEF WriteMergeSummary
  <2>4. CASE MergeAudioEnds
    BY <2>4 DEF MergeAudioEnds
  <2> QED
    BY <1>5, <2>1, <2>2, <2>3, <2>4 DEF Collect
<1>6. CASE CommandDies
  BY <1>6 DEF CommandDies
<1>7. CASE UNCHANGED vars
  BY <1>7
<1> QED
  BY <1>1, <1>2, <1>3, <1>4, <1>5, <1>6, <1>7 DEF Next

\* An acceptance is recorded after it was given, and relied upon after it was
\* recorded, of the text that is on disk all the while.
LEMMA AcceptedByHumanStep == IInv /\ [Next]_vars => AcceptedByHuman'
<1> SUFFICES ASSUME IInv, [Next]_vars PROVE AcceptedByHuman'
  OBVIOUS
<1> USE ConstantsAssumption DEF IInv, TypeOK, Orderly, AcceptedByHuman, Text, None, Partial, MakingAudio, MergingText, Outcome, Status, Accepted, End, Exit, vars, texts, books, command, workers, merge, history, audioHistory, Supersede, Date, TornAt
<1>1. CASE Merge
  <2>1. CASE Generate
    BY <2>1 DEF Generate
  <2>2. CASE MergeText
    BY <2>2 DEF MergeText
  <2>3. CASE WriteFixed
    BY <2>3 DEF WriteFixed
  <2>4. CASE WriteAddition
    BY <2>4 DEF WriteAddition
  <2>5. CASE WriteSummary
    BY <2>5 DEF WriteSummary
  <2> QED
    BY <1>1, <2>1, <2>2, <2>3, <2>4, <2>5 DEF Merge
<1>2. CASE Admit
  <2>1. ASSUME NEW o \in Outcome, AdmitText(o) PROVE AcceptedByHuman'
    BY <2>1 DEF AdmitText
  <2>2. CASE WriteDecisions
    BY <2>2 DEF WriteDecisions
  <2>3. CASE WriteCertificate
    BY <2>3 DEF WriteCertificate
  <2>4. CASE WriteReport
    BY <2>4 DEF WriteReport
  <2> QED
    BY <1>2, <2>1, <2>2, <2>3, <2>4 DEF Admit
<1>3. CASE Attest
  <2>1. CASE AttestAudio
    BY <2>1 DEF AttestAudio
  <2>2. CASE WriteAudioReport
    BY <2>2 DEF WriteAudioReport
  <2>3. CASE WriteAudioCertificate
    BY <2>3 DEF WriteAudioCertificate
  <2> QED
    BY <1>3, <2>1, <2>2, <2>3 DEF Attest
<1>4. CASE Synthesize
  <2>1. CASE Launch
    BY <2>1 DEF Launch
  <2>2. ASSUME NEW w \in Worker, Require(w) PROVE AcceptedByHuman'
    BY <2>2 DEF Require
  <2>3. ASSUME NEW w \in Worker, Load(w) PROVE AcceptedByHuman'
    BY <2>3 DEF Load
  <2>4. ASSUME NEW w \in Worker, Render(w) PROVE AcceptedByHuman'
    BY <2>4 DEF Render
  <2>5. ASSUME NEW w \in Worker, WorkerDies(w) PROVE AcceptedByHuman'
    BY <2>5 DEF WorkerDies
  <2> QED
    BY <1>4, <2>1, <2>2, <2>3, <2>4, <2>5 DEF Synthesize
<1>5. CASE Collect
  <2>1. CASE MergeAudio
    BY <2>1 DEF MergeAudio
  <2>2. CASE WriteMerged
    BY <2>2 DEF WriteMerged
  <2>3. CASE WriteMergeSummary
    BY <2>3 DEF WriteMergeSummary
  <2>4. CASE MergeAudioEnds
    BY <2>4 DEF MergeAudioEnds
  <2> QED
    BY <1>5, <2>1, <2>2, <2>3, <2>4 DEF Collect
<1>6. CASE CommandDies
  BY <1>6 DEF CommandDies
<1>7. CASE UNCHANGED vars
  BY <1>7
<1> QED
  BY <1>1, <1>2, <1>3, <1>4, <1>5, <1>6, <1>7 DEF Next

\* A merge-text that is not cut leaves three files of one version.
LEMMA FilesOfOneMergeStep == IInv /\ [Next]_vars => FilesOfOneMerge'
<1> SUFFICES ASSUME IInv, [Next]_vars PROVE FilesOfOneMerge'
  OBVIOUS
<1> USE ConstantsAssumption DEF IInv, TypeOK, Orderly, FilesOfOneMerge, MergingText, End, vars, texts, books, command, workers, merge, history, audioHistory, Supersede, Date, TornAt
<1>1. CASE Merge
  <2>1. CASE Generate
    BY <2>1 DEF Generate
  <2>2. CASE MergeText
    BY <2>2 DEF MergeText
  <2>3. CASE WriteFixed
    BY <2>3 DEF WriteFixed
  <2>4. CASE WriteAddition
    BY <2>4 DEF WriteAddition
  <2>5. CASE WriteSummary
    BY <2>5 DEF WriteSummary
  <2> QED
    BY <1>1, <2>1, <2>2, <2>3, <2>4, <2>5 DEF Merge
<1>2. CASE Admit
  <2>1. ASSUME NEW o \in Outcome, AdmitText(o) PROVE FilesOfOneMerge'
    BY <2>1 DEF AdmitText
  <2>2. CASE WriteDecisions
    BY <2>2 DEF WriteDecisions
  <2>3. CASE WriteCertificate
    BY <2>3 DEF WriteCertificate
  <2>4. CASE WriteReport
    BY <2>4 DEF WriteReport
  <2> QED
    BY <1>2, <2>1, <2>2, <2>3, <2>4 DEF Admit
<1>3. CASE Attest
  <2>1. CASE AttestAudio
    BY <2>1 DEF AttestAudio
  <2>2. CASE WriteAudioReport
    BY <2>2 DEF WriteAudioReport
  <2>3. CASE WriteAudioCertificate
    BY <2>3 DEF WriteAudioCertificate
  <2> QED
    BY <1>3, <2>1, <2>2, <2>3 DEF Attest
<1>4. CASE Synthesize
  <2>1. CASE Launch
    BY <2>1 DEF Launch
  <2>2. ASSUME NEW w \in Worker, Require(w) PROVE FilesOfOneMerge'
    BY <2>2 DEF Require
  <2>3. ASSUME NEW w \in Worker, Load(w) PROVE FilesOfOneMerge'
    BY <2>3 DEF Load
  <2>4. ASSUME NEW w \in Worker, Render(w) PROVE FilesOfOneMerge'
    BY <2>4 DEF Render
  <2>5. ASSUME NEW w \in Worker, WorkerDies(w) PROVE FilesOfOneMerge'
    BY <2>5 DEF WorkerDies
  <2> QED
    BY <1>4, <2>1, <2>2, <2>3, <2>4, <2>5 DEF Synthesize
<1>5. CASE Collect
  <2>1. CASE MergeAudio
    BY <2>1 DEF MergeAudio
  <2>2. CASE WriteMerged
    BY <2>2 DEF WriteMerged
  <2>3. CASE WriteMergeSummary
    BY <2>3 DEF WriteMergeSummary
  <2>4. CASE MergeAudioEnds
    BY <2>4 DEF MergeAudioEnds
  <2> QED
    BY <1>5, <2>1, <2>2, <2>3, <2>4 DEF Collect
<1>6. CASE CommandDies
  BY <1>6 DEF CommandDies
<1>7. CASE UNCHANGED vars
  BY <1>7
<1> QED
  BY <1>1, <1>2, <1>3, <1>4, <1>5, <1>6, <1>7 DEF Next

\* A command that runs to its end leaves the books in agreement.
LEMMA BooksInStepStep == IInv /\ [Next]_vars => BooksInStep'
<1> SUFFICES ASSUME IInv, [Next]_vars PROVE BooksInStep'
  OBVIOUS
<1> USE ConstantsAssumption DEF IInv, TypeOK, BooksInStep, Status, Text, None, End, Exit, vars, texts, books, command, workers, merge, history, audioHistory, Supersede, Date, TornAt
<1>1. CASE Merge
  <2>1. CASE Generate
    BY <2>1 DEF Generate
  <2>2. CASE MergeText
    BY <2>2 DEF MergeText
  <2>3. CASE WriteFixed
    BY <2>3 DEF WriteFixed
  <2>4. CASE WriteAddition
    BY <2>4 DEF WriteAddition
  <2>5. CASE WriteSummary
    BY <2>5 DEF WriteSummary
  <2> QED
    BY <1>1, <2>1, <2>2, <2>3, <2>4, <2>5 DEF Merge
<1>2. CASE Admit
  <2>1. ASSUME NEW o \in Outcome, AdmitText(o) PROVE BooksInStep'
    BY <2>1 DEF AdmitText
  <2>2. CASE WriteDecisions
    BY <2>2 DEF WriteDecisions
  <2>3. CASE WriteCertificate
    BY <2>3 DEF WriteCertificate
  <2>4. CASE WriteReport
    BY <2>4 DEF WriteReport
  <2> QED
    BY <1>2, <2>1, <2>2, <2>3, <2>4 DEF Admit
<1>3. CASE Attest
  <2>1. CASE AttestAudio
    BY <2>1 DEF AttestAudio
  <2>2. CASE WriteAudioReport
    BY <2>2 DEF WriteAudioReport
  <2>3. CASE WriteAudioCertificate
    BY <2>3 DEF WriteAudioCertificate
  <2> QED
    BY <1>3, <2>1, <2>2, <2>3 DEF Attest
<1>4. CASE Synthesize
  <2>1. CASE Launch
    BY <2>1 DEF Launch
  <2>2. ASSUME NEW w \in Worker, Require(w) PROVE BooksInStep'
    BY <2>2 DEF Require
  <2>3. ASSUME NEW w \in Worker, Load(w) PROVE BooksInStep'
    BY <2>3 DEF Load
  <2>4. ASSUME NEW w \in Worker, Render(w) PROVE BooksInStep'
    BY <2>4 DEF Render
  <2>5. ASSUME NEW w \in Worker, WorkerDies(w) PROVE BooksInStep'
    BY <2>5 DEF WorkerDies
  <2> QED
    BY <1>4, <2>1, <2>2, <2>3, <2>4, <2>5 DEF Synthesize
<1>5. CASE Collect
  <2>1. CASE MergeAudio
    BY <2>1 DEF MergeAudio
  <2>2. CASE WriteMerged
    BY <2>2 DEF WriteMerged
  <2>3. CASE WriteMergeSummary
    BY <2>3 DEF WriteMergeSummary
  <2>4. CASE MergeAudioEnds
    BY <2>4 DEF MergeAudioEnds
  <2> QED
    BY <1>5, <2>1, <2>2, <2>3, <2>4 DEF Collect
<1>6. CASE CommandDies
  BY <1>6 DEF CommandDies
<1>7. CASE UNCHANGED vars
  BY <1>7
<1> QED
  BY <1>1, <1>2, <1>3, <1>4, <1>5, <1>6, <1>7 DEF Next

\* Versions only grow, so no merge-text returns to a text of which there is audio.
LEMMA AudioOfTextStep == IInv /\ [Next]_vars => AudioOfText'
<1> SUFFICES ASSUME IInv, [Next]_vars PROVE AudioOfText'
  OBVIOUS
<1> USE ConstantsAssumption DEF IInv, Accepted, TypeOK, Orderly, AcceptedByHuman, AudioOfText, Text, None, Partial, MakingAudio, MergingText, End, Exit, vars, texts, books, command, workers, merge, history, audioHistory, Supersede, Date, TornAt
<1>1. CASE Merge
  <2>1. CASE Generate
    BY <2>1 DEF Generate
  <2>2. CASE MergeText
    BY <2>2 DEF MergeText
  <2>3. CASE WriteFixed
    <3>1. UNCHANGED <<certificate, audio, workers, merge>> /\ mpc = "idle"
          /\ \A w \in Worker : wpc[w] = "off"
      BY <2>3 DEF WriteFixed
    <3>2. CASE fixed = evidence
      BY <2>3, <3>1, <3>2 DEF WriteFixed
    \* The certified text is the former one, which is smaller.
    <3>3. CASE fixed # evidence
      <4>1. fixed' = evidence /\ renewed' = {} /\ stale' = stale \cup {a \in {"merged"} : \E w \in Worker : merged[w] # None}
        BY <2>3, <3>3 DEF WriteFixed
      <4>2. certificate.text # fixed'
        BY <3>3, <4>1
      <4> QED
        BY <3>1, <4>1, <4>2
    <3> QED
      BY <3>2, <3>3
  <2>4. CASE WriteAddition
    BY <2>4 DEF WriteAddition
  <2>5. CASE WriteSummary
    BY <2>5 DEF WriteSummary
  <2> QED
    BY <1>1, <2>1, <2>2, <2>3, <2>4, <2>5 DEF Merge
<1>2. CASE Admit
  <2>1. ASSUME NEW o \in Outcome, AdmitText(o) PROVE AudioOfText'
    BY <2>1 DEF AdmitText
  <2>2. CASE WriteDecisions
    BY <2>2 DEF WriteDecisions
  <2>3. CASE WriteCertificate
    BY <2>3 DEF WriteCertificate
  <2>4. CASE WriteReport
    BY <2>4 DEF WriteReport
  <2> QED
    BY <1>2, <2>1, <2>2, <2>3, <2>4 DEF Admit
<1>3. CASE Attest
  <2>1. CASE AttestAudio
    BY <2>1 DEF AttestAudio
  <2>2. CASE WriteAudioReport
    BY <2>2 DEF WriteAudioReport
  <2>3. CASE WriteAudioCertificate
    BY <2>3 DEF WriteAudioCertificate
  <2> QED
    BY <1>3, <2>1, <2>2, <2>3 DEF Attest
<1>4. CASE Synthesize
  <2>1. CASE Launch
    BY <2>1 DEF Launch
  <2>2. ASSUME NEW w \in Worker, Require(w) PROVE AudioOfText'
    BY <2>2 DEF Require
  <2>3. ASSUME NEW w \in Worker, Load(w) PROVE AudioOfText'
    BY <2>3 DEF Load
  <2>4. ASSUME NEW w \in Worker, Render(w) PROVE AudioOfText'
    BY <2>4 DEF Render
  <2>5. ASSUME NEW w \in Worker, WorkerDies(w) PROVE AudioOfText'
    BY <2>5 DEF WorkerDies
  <2> QED
    BY <1>4, <2>1, <2>2, <2>3, <2>4, <2>5 DEF Synthesize
<1>5. CASE Collect
  <2>1. CASE MergeAudio
    BY <2>1 DEF MergeAudio
  <2>2. CASE WriteMerged
    BY <2>2 DEF WriteMerged
  <2>3. CASE WriteMergeSummary
    BY <2>3 DEF WriteMergeSummary
  <2>4. CASE MergeAudioEnds
    BY <2>4 DEF MergeAudioEnds
  <2> QED
    BY <1>5, <2>1, <2>2, <2>3, <2>4 DEF Collect
<1>6. CASE CommandDies
  BY <1>6 DEF CommandDies
<1>7. CASE UNCHANGED vars
  BY <1>7
<1> QED
  BY <1>1, <1>2, <1>3, <1>4, <1>5, <1>6, <1>7 DEF Next

\* Every step, or none, keeps the inductive invariant.
LEMMA NextIInv == IInv /\ [Next]_vars => IInv'
  BY TypeOKStep, OrderlyStep, AcceptedByHumanStep, FilesOfOneMergeStep, AudioOfTextStep,
     BooksInStepStep DEF IInv

\* The inductive invariant holds in every behaviour.
THEOREM Invariant == Spec => []IInv
  BY InitIInv, NextIInv, PTL DEF Spec

\* Types, for every set of workers and any bounds.
THEOREM TypesCorrect == Spec => []TypeOK
<1>1. IInv => TypeOK
  BY DEF IInv
<1> QED
  BY Invariant, <1>1, PTL

\* Only accepted text is rendered, and only its audio is merged: a process has
\* loaded the text that it found accepted, for no merge-text runs meanwhile.
THEOREM OnlyAcceptedText == Spec => []RenderedWasAccepted
<1>1. IInv => RenderedWasAccepted
  BY DEF IInv, AcceptedByHuman, RenderedWasAccepted
<1> QED
  BY Invariant, <1>1, PTL

\* Whatever was rendered and merged of former texts, a certificate of clean audio is
\* right if what it reports was merged of manifests of the text on disk.
THEOREM AudioOfPresentText == Spec => []AudioCertifiedUnlessStale
<1>1. IInv => AudioCertifiedUnlessStale
  BY DEF IInv, AudioOfText, AudioCertifiedUnlessStale, AudioCertified
<1> QED
  BY Invariant, <1>1, PTL

\* The hashes of a certificate are of one merge if the merge before the admission
\* has ended, whatever died before that.
THEOREM HashesOfOneMerge == Spec => []CertificateHashesUnlessTorn
<1>1. IInv => CertificateHashesUnlessTorn
  BY DEF IInv, FilesOfOneMerge, CertificateHashesUnlessTorn, CertificateHashes
<1> QED
  BY Invariant, <1>1, PTL

\* In whatever order texts were merged, accepted, rejected and reported, and whatever
\* died, the three books tell the same as soon as the command that left them apart
\* has run to its end.
THEOREM BooksAgreeAlways == Spec => []BooksAgree
<1>1. IInv => BooksAgree
  BY DEF IInv, BooksInStep, BooksAgree
<1> QED
  BY Invariant, <1>1, PTL

-------------------------------------------------------------------------------
(* What a death has left, the same command given again repairs *)

\* What the command that runs has written or read already, whatever died before it.
Underway ==
    /\ pc = "addition" => fixed = evidence
    /\ pc = "summary" => fixed = evidence /\ addition = evidence
    /\ pc \in {"certificate", "report"} => decisions = bound
    /\ pc = "report" => certificate.status = Status /\ certificate.text = bound
                         /\ certificate.addition = summary /\ certificate.audio = "NOT_RUN"
    /\ pc = "audioCertificate" => report.audio = audio

\* What the end of each of the three commands leaves.
FilesOfOneRun == addition = fixed /\ summary = fixed
BooksOfOneRun ==
    /\ decisions = certificate.text
    /\ report = [status |-> certificate.status, text |-> certificate.text, audio |-> certificate.audio]
    /\ certificate.text = fixed /\ certificate.addition = summary
Repaired ==
    /\ WriteSummary => FilesOfOneRun'
    /\ WriteReport => BooksOfOneRun'
    /\ WriteAudioCertificate => certificate'.audio = report'.audio

\* Nothing that the command relies on is changed beside it.
LEMMA UnderwayStep == TypeOK /\ Underway /\ [Next]_vars => Underway'
<1> SUFFICES ASSUME TypeOK, Underway, [Next]_vars PROVE Underway'
  OBVIOUS
<1> USE DEF TypeOK, Underway, Status, MergingText, End, Exit, texts, books, command, workers, merge, history, audioHistory, Supersede, Date, TornAt
<1>1. CASE Merge
  BY <1>1 DEF Merge, Generate, MergeText, WriteFixed, WriteAddition, WriteSummary
<1>2. CASE Admit
  BY <1>2 DEF Admit, AdmitText, WriteDecisions, WriteCertificate, WriteReport
<1>3. CASE Attest
  BY <1>3 DEF Attest, AttestAudio, WriteAudioReport, WriteAudioCertificate
<1>4. CASE Synthesize
  BY <1>4 DEF Synthesize, Launch, Require, Load, Render, WorkerDies
<1>5. CASE Collect
  BY <1>5 DEF Collect, MergeAudio, WriteMerged, WriteMergeSummary, MergeAudioEnds
<1>6. CASE CommandDies
  BY <1>6 DEF CommandDies
<1>7. CASE UNCHANGED vars
  BY <1>7 DEF vars
<1> QED
  BY <1>1, <1>2, <1>3, <1>4, <1>5, <1>6, <1>7 DEF Next

\* The operator repairs what a death has left by giving the command again: a merge-text that
\* runs to its end leaves three files of one version, an admit-text decisions, certificate
\* and report of the text on disk, and a write-report one audio status, whatever the commands
\* before them left half written.
THEOREM RerunRepairs == Spec => [][Repaired]_vars
<1>1. Init => Underway
  BY DEF Init, Underway
<1>2. IInv /\ Underway /\ [Next]_vars => Underway'
  BY UnderwayStep DEF IInv
<1>3. IInv /\ Underway /\ [Next]_vars => [Repaired]_vars
  <2> SUFFICES ASSUME IInv, Underway PROVE Repaired
    OBVIOUS
  <2>1. WriteSummary => FilesOfOneRun'
    BY DEF Underway, WriteSummary, FilesOfOneRun
  <2>2. WriteReport => BooksOfOneRun'
    <3> SUFFICES ASSUME WriteReport PROVE BooksOfOneRun'
      OBVIOUS
    <3>1. pc = "report" /\ bound = fixed
      BY DEF WriteReport, IInv, Orderly
    <3>2. UNCHANGED <<decisions, certificate, summary, fixed>>
      BY DEF WriteReport, texts
    <3>3. report' = [status |-> certificate.status, text |-> certificate.text, audio |-> certificate.audio]
      BY <3>1 DEF WriteReport, Underway
    <3> QED
      BY <3>1, <3>2, <3>3 DEF Underway, BooksOfOneRun
  <2>3. WriteAudioCertificate => certificate'.audio = report'.audio
    BY DEF WriteAudioCertificate, Underway, IInv, TypeOK
  <2> QED
    BY <2>1, <2>2, <2>3 DEF Repaired
<1> QED
  BY Invariant, <1>1, <1>2, <1>3, PTL DEF Spec
=============================================================================
