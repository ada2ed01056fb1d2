---------------------------- MODULE RemoteContract ----------------------------
(***************************************************************************)
(* What the control plane and the remote workers expect of each other      *)
(* (jobs/remote_workers.py, jobs/remote_worker_cli.py): a worker tells     *)
(* what it can run, the control plane hands it a job with the engines to   *)
(* try, the worker uploads artifacts and completes, and the control plane  *)
(* checks the completion against the job.  Workers of several releases     *)
(* serve one control plane.  Leases are those of module RemoteLease.       *)
(***************************************************************************)
EXTENDS Naturals, Sequences

CONSTANTS
  Workers,
  Jobs,           \* the jobs that may be submitted
  SttBackend, Fallback,   \* of the control plane and of the workers
  WordsBackend,   \* VOXHELM_KNOWN_SPEAKER_STT_BACKEND, None when it is not set
  Rule,           \* the drift and window rule of the control plane's release
  RuleOf,         \* ... and of each worker's
  OldRelease,     \* workers that know profiles but no chapter marks, and no fallbacks
  Renamed,        \* engines whose model a worker configures by another name
  Diarizes,       \* workers with a diarization runtime
  MaxAttempts,
  MaxChanges      \* bound: tools that vanish or appear

Engines == {"parakeet", "whispercpp", "mlx"}
None == "none"        \* no engine
NoWorker == "nobody"
Formats == {"text", "json"}
Kinds == Formats \cup {"source", "extracted_audio", "words", "chapter_windows", "speakers"}
Prunable == {"source", "extracted_audio"}

Job == [backend : {"auto"} \cup Engines, profile : BOOLEAN, marks : BOOLEAN, video : BOOLEAN,
        strategy : {"off", "anonymous", "known"}, recut : BOOLEAN, supported : BOOLEAN,
        formats : SUBSET Formats]

(* What an instance may give the constants. *)
ContractAssumption ==
  /\ Jobs \subseteq Job /\ SttBackend \in Engines /\ Fallback \in Engines \cup {None}
  /\ WordsBackend \in {None, "parakeet"}
  /\ NoWorker \notin Workers /\ OldRelease \subseteq Workers /\ Diarizes \subseteq Workers
  /\ Renamed \in [Workers -> SUBSET Engines] /\ MaxAttempts \in Nat \ {0} /\ MaxChanges \in Nat

VARIABLES
  job,        \* the job
  state, holder, attempts,
  targets,    \* the engines the claim names, in the order of the chain
  at,         \* where the holder is
  engine,     \* the engine that transcribed
  stored,     \* the kinds of artifacts of the job's rows
  sent,       \* the manifest of the last completion
  answer,     \* what the holder heard of it
  runtime,    \* what is installed at each worker: engines, and the tools of the windows
  base,       \* the backends each worker found when it started
  advert,     \* its capabilities as of its last poll
  gone,       \* what vanished at each worker since its last poll (history)
  changes     \* how many tools vanished or appeared

jobVars == <<job, state, holder, attempts>>
runVars == <<targets, at, engine>>
doneVars == <<stored, sent, answer>>
workerVars == <<runtime, base, advert, gone, changes>>
vars == <<jobVars, runVars, doneVars, workerVars>>

Tools == Engines \cup {"windows"}

TypeOK ==
  /\ job \in Jobs /\ state \in {"queued", "running", "succeeded", "failed"}
  /\ holder \in Workers \cup {NoWorker} /\ attempts \in 0 .. MaxAttempts
  /\ at \in {"idle", "claimed", "transcribed", "engineless", "answered", "refused", "lost"}
  /\ engine \in Engines \cup {None} /\ targets \subseteq Engines
  /\ stored \subseteq Kinds /\ sent \subseteq Kinds /\ answer \in {"none", "yes", "no"}
  /\ runtime \in [Workers -> SUBSET Tools] /\ base \in [Workers -> SUBSET Engines]
  /\ gone \in [Workers -> SUBSET Tools] /\ changes \in 0 .. MaxChanges
  /\ advert \in [Workers -> [backends : SUBSET Engines, profile : BOOLEAN]]
  /\ state = "running" => holder # NoWorker /\ at # "idle"

-----------------------------------------------------------------------------
(* What a worker tells (build_capabilities, with_current_stt_runtimes) *)

Configured == {SttBackend, Fallback} \ {None}

(* Parakeet and the profiles are looked for again at every poll. *)
Current(w) ==
  [backends |-> (base[w] \ {"parakeet"}) \cup (runtime[w] \cap {"parakeet"}),
   profile |-> {"parakeet", "whispercpp", "windows"} \subseteq runtime[w]]

(* The models are a set of their own: the names of the backends, and those of two settings. *)
ModelsOf(w) == (advert[w].backends \cup {"whispercpp", "mlx"}) \ Renamed[w]

Init ==
  /\ job \in Jobs /\ state = "queued" /\ holder = NoWorker /\ attempts = 0
  /\ targets = {} /\ at = "idle" /\ engine = None /\ stored = {} /\ sent = {} /\ answer = "none"
  /\ runtime \in [Workers -> {Tools, Tools \ {"parakeet"}, Tools \ {"whispercpp"}}]
  /\ base = [w \in Workers |-> Configured \cup (runtime[w] \cap {"whispercpp"})]
  /\ advert = [w \in Workers |-> [backends |-> {}, profile |-> FALSE]]
  /\ gone = [w \in Workers |-> {}] /\ changes = 0

Poll(w) ==
  /\ state \in {"queued", "running"} /\ (holder # w)
  /\ advert' = [advert EXCEPT ![w] = Current(w)]
  /\ gone' = [gone EXCEPT ![w] = {}]
  /\ UNCHANGED <<jobVars, runVars, doneVars, runtime, base, changes>>

(* A tool is uninstalled, or installed again, at a worker that may still get or has the job. *)
Change(w, tool) ==
  /\ changes < MaxChanges /\ changes' = changes + 1 /\ at \in {"idle", "claimed"}
  /\ IF tool \in runtime[w]
     THEN runtime' = [runtime EXCEPT ![w] = @ \ {tool}] /\ gone' = [gone EXCEPT ![w] = @ \cup {tool}]
     ELSE runtime' = [runtime EXCEPT ![w] = @ \cup {tool}] /\ UNCHANGED gone
  /\ UNCHANGED <<jobVars, runVars, doneVars, base, advert>>

-----------------------------------------------------------------------------
(* Which worker gets the job, and with which engines *)

Known == job.strategy = "known"

(* remote_stt_targets: the profile's engine, the chain with words, or the one engine. *)
SttTargets ==
  IF job.profile THEN <<"parakeet">>
  ELSE IF job.backend = "auto" /\ Known /\ job.recut /\ WordsBackend = "parakeet"
  THEN <<IF job.supported THEN "parakeet" ELSE None, "whispercpp", SttBackend, Fallback>>
  ELSE <<IF job.backend = "auto" THEN SttBackend ELSE job.backend>>

(* Of some engines of the chain the one that comes first; a second mention does not count. *)
FirstOf(engines) ==
  LET places == {i \in DOMAIN SttTargets : SttTargets[i] \in engines}
  IN  SttTargets[CHOOSE i \in places : \A k \in places : i <= k]

(* Those a worker advertises, with their models. *)
TargetsFor(w) ==
  {e \in advert[w].backends \cap ModelsOf(w) : \E i \in DOMAIN SttTargets : SttTargets[i] = e}

(* worker_can_run_job *)
CanRun(w) ==
  /\ job.profile => advert[w].profile
  /\ TargetsFor(w) # {}
  /\ job.strategy = "off" \/ w \in Diarizes

(* The claim of a poll that found the job; serialize_claim names the engines. *)
Claim(w) ==
  /\ state = "queued" /\ attempts < MaxAttempts /\ CanRun(w)
  /\ state' = "running" /\ holder' = w /\ attempts' = attempts + 1
  /\ targets' = TargetsFor(w) /\ at' = "claimed" /\ engine' = None /\ sent' = {}
  /\ answer' = "none"
  /\ UNCHANGED <<job, stored, workerVars>>

-----------------------------------------------------------------------------
(* What the worker does *)

Tried == IF holder \in OldRelease THEN {FirstOf(targets)} ELSE targets
Ready == Tried \cap runtime[holder]

(* Variant with a fault, for comparison only: a profile falls back like another job. *)
TranscribeProfileAnyhow ==
  /\ at = "claimed"
  /\ \E e \in runtime[holder] \cap Engines : engine' = e /\ at' = "transcribed"
  /\ UNCHANGED <<jobVars, targets, doneVars, workerVars>>

(* transcribe_claim_audio tries the engines in order; transcribe_claim_profile runs its own. *)
Transcribe ==
  /\ at = "claimed"
  /\ IF job.profile
     THEN IF {"parakeet", "whispercpp", "windows"} \subseteq runtime[holder]
          THEN engine' = "parakeet" /\ at' = "transcribed" ELSE at' = "engineless" /\ UNCHANGED engine
     ELSE IF Ready # {}
          THEN engine' = FirstOf(Ready) /\ at' = "transcribed"
          ELSE at' = "engineless" /\ UNCHANGED engine
  /\ UNCHANGED <<jobVars, targets, doneVars, workerVars>>

(* The artifacts process_claim uploads; an old release ignores the marks of the claim. *)
Manifest ==
  {"source"} \cup (IF job.video THEN {"extracted_audio"} ELSE {}) \cup job.formats
    \cup (IF job.profile THEN {"words"} ELSE {})
    \cup (IF job.profile /\ job.marks /\ holder \notin OldRelease THEN {"chapter_windows"} ELSE {})
    \cup (IF Known THEN {"speakers"} ELSE {})

(* validate_remote_artifacts *)
ArtifactsValid(kinds) ==
  /\ "source" \in kinds /\ kinds \cap Formats = job.formats
  /\ "words" \in kinds <=> job.profile
  /\ "chapter_windows" \in kinds <=> job.profile /\ job.marks
  /\ "speakers" \in kinds <=> Known

(* normalize_remote_result_metadata: a profile's engine, check and windows are this release's. *)
MetadataValid(w) == job.profile => RuleOf[w] = Rule

Answered(heard, yes) ==
  /\ answer' = yes /\ at' = IF heard THEN (IF yes = "yes" THEN "answered" ELSE "refused") ELSE "lost"

(* complete_remote_work, first completion; the answer may get lost on its way. *)
Complete(heard) ==
  /\ at = "transcribed" /\ state = "running"
  /\ sent' = Manifest
  /\ IF ArtifactsValid(Manifest) /\ MetadataValid(holder)
     THEN state' = "succeeded" /\ stored' = Manifest /\ Answered(heard, "yes")
     ELSE UNCHANGED <<state, stored>> /\ Answered(heard, "no")
  /\ UNCHANGED <<job, holder, attempts, targets, engine, workerVars>>

(* Variant with a fault, for comparison only: the manifests must be equal. *)
MatchesExactly(kinds) == stored = kinds

(* stored_manifest_matches_completion: what was pruned since is not asked for again. *)
Matches(kinds) == stored = {k \in kinds : k \in stored \/ k \notin Prunable}

(* The completion is sent again: the same one is answered like the first. *)
Repeat(heard) ==
  /\ at = "lost" /\ state = "succeeded"
  /\ IF ArtifactsValid(sent) /\ MetadataValid(holder) /\ Matches(sent)
     THEN Answered(heard, "yes") ELSE Answered(heard, "no")
  /\ UNCHANGED <<jobVars, targets, engine, stored, sent, workerVars>>

RepeatRefused(heard) ==
  /\ at = "lost" /\ state = "running" /\ Answered(heard, "no")
  /\ UNCHANGED <<jobVars, targets, engine, stored, sent, workerVars>>

(* fail_remote_work: everything here may be tried again, by whoever can run it. *)
ReportFailure ==
  /\ at \in {"engineless", "refused"} /\ state = "running"
  /\ state' = IF attempts < MaxAttempts THEN "queued" ELSE "failed"
  /\ holder' = NoWorker /\ at' = "idle"
  /\ UNCHANGED <<job, attempts, targets, engine, doneVars, workerVars>>

(* prune_job_artifacts removes intermediate artifacts of a settled job. *)
Prune(kind) ==
  /\ state = "succeeded" /\ kind \in stored \cap Prunable /\ stored' = stored \ {kind}
  /\ UNCHANGED <<jobVars, runVars, sent, answer, workerVars>>

Next ==
  \/ \E w \in Workers : Poll(w) \/ Claim(w)
  \/ \E w \in Workers, tool \in Tools : Change(w, tool)
  \/ Transcribe \/ ReportFailure
  \/ \E heard \in BOOLEAN : Complete(heard) \/ Repeat(heard) \/ RepeatRefused(heard)
  \/ \E kind \in Kinds : Prune(kind)

Spec == Init /\ [][Next]_vars

-----------------------------------------------------------------------------
(* A job that succeeded was transcribed by what it asked for: its own engine when it names *)
(* one, for a profile the profile's engine under the control plane's own rule.              *)
EngineHonoured ==
  state = "succeeded" =>
    IF job.profile THEN engine = "parakeet" /\ RuleOf[holder] = Rule
    ELSE job.backend # "auto" => engine = job.backend

(* It has every artifact the producer asked for, also when a worker of an old release ran it. *)
ResultComplete ==
  state = "succeeded" =>
    /\ job.formats \subseteq stored
    /\ job.profile => "words" \in stored /\ (job.marks => "chapter_windows" \in stored)
    /\ Known => "speakers" \in stored

(* The control plane refuses no completion of a worker of its own release. *)
HonestAccepted == at = "refused" => holder \in OldRelease \/ RuleOf[holder] # Rule

(* A completion whose answer got lost is accepted when it is sent again, whatever retention *)
(* has removed since.                                                                        *)
RepeatsAccepted == state = "succeeded" => answer = "yes"

(* A worker that was given the job and has no engine for it lost one since its last poll, or *)
(* was given only engines it looks for once or not at all: Parakeet and the profiles are      *)
(* looked for at every poll.                                                                   *)
GivenWhatItHas ==
  at = "engineless" =>
    gone[holder] # {} \/ (~job.profile /\ "parakeet" \notin Tried)

-----------------------------------------------------------------------------
(* What makes them inductive *)

(* What the chain names for the job. *)
Named == {e \in Engines : \E i \in DOMAIN SttTargets : SttTargets[i] = e}

(* What a worker told at its last poll was there, and what is not there now has vanished since. *)
TellsWhatItHas ==
  \A w \in Workers :
    /\ advert[w].profile => {"parakeet", "whispercpp", "windows"} \subseteq runtime[w] \cup gone[w]
    /\ "parakeet" \in advert[w].backends => "parakeet" \in runtime[w] \cup gone[w]

(* The holder was given what it had told. *)
GivenWhatItTold ==
  at # "idle" =>
    /\ targets # {} /\ targets \subseteq Named
    /\ state = "running" => /\ targets \subseteq advert[holder].backends
                            /\ job.profile => advert[holder].profile

EngineAsAsked ==
  at \in {"transcribed", "answered", "refused", "lost"} =>
    /\ job.profile => engine = "parakeet"
    /\ ~job.profile => engine \in Named

(* A completion that was accepted is one that would be accepted again. *)
AcceptedIsValid ==
  state = "succeeded" =>
    /\ ArtifactsValid(sent) /\ MetadataValid(holder) /\ Matches(sent)
    /\ answer = "yes" /\ at \in {"answered", "lost"}

RefusedForARelease ==
  at = "refused" \/ (at = "lost" /\ state = "running") => holder \in OldRelease \/ RuleOf[holder] # Rule

WhereItIs ==
  /\ state \in {"queued", "failed"} <=> at = "idle"
  /\ at \in {"claimed", "transcribed", "engineless"} => state = "running"

IInv ==
  /\ TypeOK /\ TellsWhatItHas /\ GivenWhatItTold /\ EngineAsAsked /\ AcceptedIsValid
  /\ RefusedForARelease /\ WhereItIs /\ GivenWhatItHas

=============================================================================
