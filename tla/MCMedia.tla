------------------------------- MODULE MCMedia -------------------------------
(***************************************************************************)
(* What works on media: the contract with the remote workers about what    *)
(* they send back, the processes that transcribe, the profile run, the     *)
(* Wyoming sidecar and speech synthesis.  MCServices runs one of them, or  *)
(* of its own components, at a time.                                       *)
(***************************************************************************)
EXTENDS SideBySide, Integers, FiniteSets, Sequences, TLC

CONSTANTS
  NoOne, Malformed,
  ContractWorkers, ContractJobs, ContractBackend,          \* of the contract with the workers
  ContractFallback, Rule, RuleOf, OldRelease, Renamed, Diarizes, ContractAttempts, MaxChanges,
  Call, Requested, Words, Supported, Cancellable,          \* of transcription
  SttBackend, Fallback, KnownSpeakerBackend, Slots,
  MarkLists, Durations, HalfWindow, Shifts, Swaps, Grids,  \* of the profile run and its windows
  EventLengths, MaxData, MaxPayload, MaxAudio, MaxChars,   \* of the sidecar
  Widening, MaxSpeech, FramesPerChunk, MaxEvents,
  Piper, Kokoro,                                           \* of voices
  RoutedRequests, PiperVoices, KokoroVoices, Names, Means, \* of routing
  LanguageVoices, PiperLanguages, DefaultBackend, DefaultVoice,
  SpeechRequests, SpokenLanguages, MaxSentences, FormatLists   \* of synthesis

-----------------------------------------------------------------------------
(* What constants stand for that a configuration file cannot say *)

(* Engines by name, a profile with and without marks, and each strategy of diarization. *)
PlainJob ==
  [backend |-> "auto", profile |-> FALSE, marks |-> FALSE, video |-> TRUE, strategy |-> "off",
   recut |-> FALSE, supported |-> TRUE, formats |-> {"text"}]
JobsOfEachKind ==
  {PlainJob, [PlainJob EXCEPT !.backend = "mlx", !.video = FALSE],
   [PlainJob EXCEPT !.profile = TRUE], [PlainJob EXCEPT !.profile = TRUE, !.marks = TRUE],
   [PlainJob EXCEPT !.strategy = "anonymous", !.formats = {"text", "json"}],
   [PlainJob EXCEPT !.strategy = "known", !.recut = TRUE],
   [PlainJob EXCEPT !.strategy = "known", !.recut = TRUE, !.supported = FALSE]}

OtherRuleElsewhere == "new" :> 1 @@ "old" :> 1 @@ "other" :> 2
MlxRenamedElsewhere == "new" :> {} @@ "old" :> {} @@ "other" :> {"mlx"}

(* Two calls for whatever there is, or for models by name. *)
AskedModels ==
  {[c \in Call |-> "auto"], "c" :> "mlx-model" @@ "d" :> "whisperkit",
   "c" :> "whispercpp-model" @@ "d" :> "other"}

(* Two marks in the media, the first less than half a window from its start, or one *)
(* after its end; the shifts 0, 0.7 and -0.7 s of the five.                           *)
EarlyOrLateMarks == {<<5, 700>>, <<905>>}
ThreeShifts == <<0, 7, -7>>

(* Parakeet's words fill no window, a sound one, and a sound one and one with drift. *)
SoundOrDrifting == {<<>>, <<FALSE>>, <<FALSE, TRUE>>, <<TRUE, TRUE>>}

(* Two Piper voices with one config, room for one. *)
Part(name, parts, key) == [cache |-> name, parts |-> parts, key |-> key]
Anna == Part("piper", <<"anna", "config">>, "")
Ben == Part("piper", <<"ben", "config">>, "")
TwoPiperVoices ==
  [requests |-> {"r"}, files |-> {"anna", "ben", "config"}, loads |-> {Anna, Ben},
   plans |-> {<<Ben, Anna>>, <<Anna, Anna>>}, limit |-> 1, versions |-> 2]

(* Two requests for two keys of one Kokoro voice pack. *)
Session == Part("session", <<"model">>, "")
German == Part("voicepack", <<"pack">>, "de")
English == Part("voicepack", <<"pack">>, "en")
TwoKokoroKeys ==
  [requests |-> {"r", "q"}, files |-> {"model", "pack"}, loads |-> {Session, German, English},
   plans |-> {<<Session, German>>, <<Session, English>>}, limit |-> 2, versions |-> 2]

(* A name of no voice; the keys of the voices; a key written in capitals. *)
NamesAndKeys ==
  "de" :> Nothing @@ "en" :> Nothing @@ "other" :> Nothing @@ "MARTIN" :> "martin"
    @@ "thorsten" :> "thorsten" @@ "lessac" :> "lessac" @@ "martin" :> "martin"
ForLanguages == "de" :> "martin" @@ "en" :> "lessac"
PiperForLanguages == "de" :> "thorsten" @@ "en" :> Nothing
DefaultOfPiper == "piper" :> "lessac" @@ "kokoro" :> Nothing

(* One format over HTTP, several in a batch. *)
OneOrThreeFormats == {<<"ogg">>, <<"mp3", "wav", "ogg">>}

-----------------------------------------------------------------------------
(* What the remote workers send back *)

(* Workers of several releases, with and without diarization, and one job. *)
Contract == INSTANCE RemoteContract WITH
  job <- s1, state <- s2, holder <- s3, attempts <- s4, targets <- s5, at <- s6, engine <- s7,
  stored <- s8, sent <- s9, answer <- s10, runtime <- s11, base <- s12, advert <- s13,
  gone <- s14, changes <- s15,
  Workers <- ContractWorkers, Jobs <- ContractJobs, MaxAttempts <- ContractAttempts,
  SttBackend <- ContractBackend, Fallback <- ContractFallback,
  WordsBackend <- KnownSpeakerBackend

-----------------------------------------------------------------------------
(* Transcription *)

Chains == INSTANCE InferenceRun WITH
  at <- s1, turn <- s2, cancelled <- s3, child <- s4, overdue <- s5, lock <- s6, refused <- s7,
  broke <- s8, request <- s9, Asked <- Requested

(* Times before, within and after a segment from 1 to 3. *)
Tokens == INSTANCE TokenWords WITH
  read <- s1, cppWords <- s2, boundary <- s3, parWords <- s4, dropped <- s5,
  Start <- 1, End <- 3, Times <- {0, 2, 4}, MaxTokens <- 3

Windows == INSTANCE ChapterWindows WITH
  model <- s1, swaps <- s2, cancelled <- s3, marks <- s4, duration <- s5, at <- s6, mark <- s7,
  try <- s8, wav <- s9, json <- s10, codes <- s11, windows <- s12, outcome <- s13,
  Half <- HalfWindow

Profile == INSTANCE ProfileRun WITH
  model <- s1, swaps <- s2, cancelled <- s3, marks <- s4, duration <- s5, at <- s6, mark <- s7,
  try <- s8, wav <- s9, json <- s10, codes <- s11, windows <- s12, outcome <- s13,
  hasMarks <- s14, german <- s15, phase <- s16, grid <- s17, records <- s18, words <- s19,
  ended <- s20, late <- s21, Half <- HalfWindow

-----------------------------------------------------------------------------
(* The sidecar. *)
Sidecar == INSTANCE Wyoming WITH
  phase <- s1, client <- s2, cancelled <- s3, held <- s4, buffer <- s5, language <- s6,
  using <- s7, frames <- s8, temps <- s9, sent <- s10, count <- s11, heard <- s12,
  Lengths <- EventLengths

-----------------------------------------------------------------------------
(* Speech *)

(* The caches of a backend: of Piper's for some voices, of Kokoro's for others. *)
Voices(use) == INSTANCE VoiceCache WITH
  file <- s1, here <- s2, cache <- s3, owner <- s4, at <- s5, todo <- s6, identity <- s7,
  made <- s8, got <- s9, present <- s10,
  Requests <- use.requests, Files <- use.files, Loads <- use.loads, Plans <- use.plans,
  CacheLimit <- use.limit, MaxVersion <- use.versions

(* Every kind of request. *)
Routing == INSTANCE SpeechRouting WITH
  files <- s1, asked <- s2, params <- s3, at <- s4, backend <- s5, voice <- s6, language <- s7,
  steady <- s8, Requests <- RoutedRequests, NoVoice <- Nothing

Synthesis == INSTANCE Speech WITH
  kind <- s1, at <- s2, phonemes <- s3, exports <- s4, files <- s5, whole <- s6, answer <- s7,
  espeak <- s8, phonemizer <- s9, inference <- s10,
  Requests <- SpeechRequests, Languages <- SpokenLanguages

-----------------------------------------------------------------------------
ASSUME MediaAssumption ==
  /\ Contract!ContractAssumption
  /\ Chains!InferenceAssumption
  /\ Tokens!TokenAssumption
  /\ Windows!WindowAssumption /\ Profile!Chapter!WindowAssumption /\ Profile!GridAssumption
  /\ Sidecar!WyomingAssumption
  /\ Voices(Piper)!CacheAssumption /\ Voices(Kokoro)!CacheAssumption
  /\ Routing!RoutingAssumption /\ Synthesis!SpeechAssumption

MediaInit ==
  \/ Launch("contract", 15, Contract!Init)
  \/ Launch("chains", 9, Chains!Init)
  \/ Launch("tokens", 5, Tokens!Init)
  \/ Launch("windows", 13, Windows!Init)
  \/ Launch("profile", 21, Profile!Init)
  \/ Launch("sidecar", 12, Sidecar!Init)
  \/ Launch("piper", 10, Voices(Piper)!Init)
  \/ Launch("kokoro", 10, Voices(Kokoro)!Init)
  \/ Launch("routing", 8, Routing!Init)
  \/ Launch("synthesis", 10, Synthesis!Init)

MediaNext ==
  \/ Step("contract", 15, Contract!Next)
  \/ Step("chains", 9, Chains!Next)
  \/ Step("tokens", 5, Tokens!Next)
  \/ Step("windows", 13, Windows!Next)
  \/ Step("profile", 21, Profile!Next)
  \/ Step("sidecar", 12, Sidecar!Next)
  \/ Step("piper", 10, Voices(Piper)!Next)
  \/ Step("kokoro", 10, Voices(Kokoro)!Next)
  \/ Step("routing", 8, Routing!Next)
  \/ Step("synthesis", 10, Synthesis!Next)

-----------------------------------------------------------------------------
(* Properties *)

(* A job that succeeded was transcribed by the engine it asked for, under the     *)
(* control plane's own rule, and has every artifact it promises                   *)
(* (build_remote_claim_response, validate_remote_completion).                     *)
ContractHonoured ==
  running = "contract" =>
    Contract!TypeOK /\ Contract!EngineHonoured /\ Contract!ResultComplete

(* An honest worker is not turned away: its completion is accepted, again after a *)
(* lost answer, and it is given only jobs it had an engine for                    *)
(* (is_same_successful_completion, remote_payload_is_claimable).                  *)
HonestWorkersAccepted ==
  running = "contract" =>
    Contract!HonestAccepted /\ Contract!RepeatsAccepted /\ Contract!GivenWhatItHas

(* Whatever is cancelled, fails, hangs or ignores SIGTERM, no child outlives its  *)
(* call, the models in this process are used by one thread at a time, and no call *)
(* switches back ends because one failed (run_cancellable_process, _MLX_LOCK,     *)
(* transcribe_audio).                                                             *)
CallsKeepToThemselves ==
  running = "chains" =>
    Chains!TypeOK /\ Chains!NoChildLeft /\ Chains!NoSilentSwitch /\ Chains!OneComputesAtATime

(* An answer of the profile has every window it owes, made of clips of its own    *)
(* mark, and was never given without the drift check; after a cancellation at     *)
(* most one child still decodes, transcribes or probes, and one is asked for its  *)
(* version before the run is cancelled, three before it is answered               *)
(* (run_profile_transcription, run_chapter_windows, profile_identity).            *)
ProfileIsComplete ==
  /\ running = "windows" =>
       Windows!TypeOK /\ Windows!WordsOfTheirClip /\ Windows!OneWindowPerMark
  /\ running = "profile" =>
       /\ Profile!TypeOK /\ Profile!AnswerIsComplete /\ Profile!MarksBeforeParakeet
       /\ Profile!CancelledSoon /\ Profile!OnlyDriftIsRepaired

(* A connection of the sidecar holds no more than its limits whatever lengths a   *)
(* client declares, mixes no two requests or answers, and leaves no file          *)
(* (read_bounded_event, handle_event).                                            *)
ConnectionsAreBounded ==
  running = "sidecar" =>
    /\ Sidecar!TypeOK /\ Sidecar!MemoryBounded /\ Sidecar!UsesWhatWasHeard
    /\ Sidecar!AnswersInOrder /\ Sidecar!NoFileLeft

(* A request for speech is spoken by the voice it names or is routed to, in its   *)
(* own language however espeak-ng is shared, answered in whole files, and leaves  *)
(* no file and no superseded voice (VoiceRegistry, apply_language_routing,        *)
(* export_audio, the caches and their locks).                                     *)
SpeechAsRequested ==
  /\ running = "piper" =>
       /\ Voices(Piper)!TypeOK /\ Voices(Piper)!LocksHeld
       /\ Voices(Piper)!WithinLimit /\ Voices(Piper)!OneVersion
  /\ running = "kokoro" =>
       /\ Voices(Kokoro)!TypeOK /\ Voices(Kokoro)!LocksHeld
       /\ Voices(Kokoro)!WithinLimit /\ Voices(Kokoro)!OneVersion
  /\ running = "routing" =>
       /\ Routing!TypeOK /\ Routing!VoiceDecidesBackend /\ Routing!PinKept
       /\ Routing!RoutedWhole /\ Routing!RoutingNeverFails
  /\ running = "synthesis" =>
       /\ Synthesis!TypeOK /\ Synthesis!OwnLanguage /\ Synthesis!NothingLeft
       /\ Synthesis!AnswersWhole

=============================================================================
