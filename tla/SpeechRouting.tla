---------------------------- MODULE SpeechRouting ----------------------------
(***************************************************************************)
(* Which backend and which voice speak a request (synthesis/service.py     *)
(* synthesize_text, synthesis/kokoro.py): language routing, dispatch by    *)
(* the voice registry, and the backend's own choice each read the          *)
(* installed voices anew while an administrator changes them.              *)
(***************************************************************************)
EXTENDS Naturals, FiniteSets

CONSTANTS
  Requests,
  PiperVoices, KokoroVoices,
  Names,             \* what a request may write as voice
  Means,             \* the key a name equals up to case, NoVoice when there is none
  LanguageVoices,    \* VOXHELM_TTS_LANGUAGE_VOICES, NoVoice where nothing is mapped
  PiperLanguages,    \* VOXHELM_PIPER_LANGUAGE_VOICES, by language or by name
  DefaultBackend,    \* VOXHELM_TTS_BACKEND
  DefaultVoice,      \* the default voice of each backend, NoVoice when none is set
  NoVoice

Voices == PiperVoices \cup KokoroVoices
Languages == DOMAIN LanguageVoices
Backends == {"piper", "kokoro"}
Models == {"auto", "piper", "kokoro"}    \* VOXHELM_ACCEPTED_SPEECH_MODELS; tts-1 is like auto
AutoModels == {"auto", "piper"}          \* AUTO_BACKEND_MODEL_NAMES

(* What an instance may give the constants; no voice is called like a language. *)
RoutingAssumption ==
  /\ NoVoice \notin Voices \cup Names /\ PiperVoices \cap KokoroVoices = {}
  /\ Means \in [Names -> Voices \cup {NoVoice}]
  /\ \A v \in Voices : v \in Names /\ Means[v] = v
  /\ LanguageVoices \in [Languages -> Voices \cup {NoVoice}]
  /\ PiperLanguages \in [Languages -> PiperVoices \cup {NoVoice}]
  /\ Languages \subseteq Names \ Voices
  /\ DefaultBackend \in Backends /\ DefaultVoice \in [Backends -> Voices \cup {NoVoice}]

(* What the caller asks for, and what the detector says of the text: a language, or *)
(* NoVoice when the text is short or the detector fails or is not sure.              *)
Asked == [voice : Names \cup {NoVoice}, language : Languages \cup {NoVoice},
          model : Models, routing : BOOLEAN, detected : Languages \cup {NoVoice}]

VARIABLES
  files,      \* of every voice: "good", "absent", or "broken" (a config that is no JSON)
  asked,      \* the request as it came
  params,     \* the request as routing left it
  at,         \* "admitted", "routed", "dispatched", "speaking" or "failed"
  backend, voice, language,
  steady      \* no voice changed since the request was admitted (history)

answer == <<backend, voice, language>>
vars == <<files, asked, params, at, answer, steady>>

TypeOK ==
  /\ files \in [Voices -> {"good", "absent", "broken"}]
  /\ \A v \in KokoroVoices : files[v] # "broken"
  /\ asked \in [Requests -> Asked] /\ params \in [Requests -> Asked]
  /\ at \in [Requests -> {"admitted", "routed", "dispatched", "speaking", "failed"}]
  /\ backend \in [Requests -> Backends \cup {NoVoice}] /\ voice \in [Requests -> Voices \cup {NoVoice}]
  /\ language \in [Requests -> Languages \cup Voices \cup {NoVoice}]
  /\ steady \in [Requests -> BOOLEAN]
  /\ \A r \in Requests :
       /\ at[r] = "speaking" <=> voice[r] # NoVoice
       /\ at[r] = "speaking" => language[r] # NoVoice
       /\ backend[r] = "piper" => voice[r] \notin KokoroVoices

Init ==
  /\ files \in [Voices -> {"good", "absent"}]
  /\ asked \in [Requests -> Asked] /\ params = asked
  /\ at = [r \in Requests |-> "admitted"]
  /\ backend = [r \in Requests |-> NoVoice] /\ voice = [r \in Requests |-> NoVoice]
  /\ language = [r \in Requests |-> NoVoice] /\ steady = [r \in Requests |-> TRUE]

-----------------------------------------------------------------------------
Readable == \A v \in PiperVoices : files[v] # "broken"
Registered == {v \in Voices : files[v] = "good"}

(* VoiceRegistry.lookup *)
Lookup(name) == IF name # NoVoice /\ Means[name] \in Registered THEN Means[name] ELSE NoVoice

OwnerOf(v) == IF v \in PiperVoices THEN "piper" ELSE "kokoro"

Stop(r, place) == at' = [at EXCEPT ![r] = place] /\ UNCHANGED <<files, asked, steady>>

(* The criteria of apply_language_routing; a registry that cannot be read keeps the pin. *)
Floor(r) ==
  /\ asked[r].routing /\ asked[r].detected # NoVoice /\ Readable
  /\ LanguageVoices[asked[r].detected] \in Registered

(* Voice, language and model follow the detected language together. *)
Route(r) ==
  /\ at[r] = "admitted" /\ Stop(r, "routed")
  /\ params' = IF Floor(r)
               THEN [params EXCEPT ![r] = [@ EXCEPT !.voice = LanguageVoices[asked[r].detected],
                                                    !.language = asked[r].detected, !.model = "auto"]]
               ELSE params
  /\ UNCHANGED answer

ByModel(model) == IF model \in AutoModels THEN DefaultBackend ELSE model

(* VoiceRegistry.resolve_backend: the voice decides, then the model. *)
ResolveBackend(p) == IF Lookup(p.voice) # NoVoice THEN OwnerOf(Lookup(p.voice)) ELSE ByModel(p.model)

(* get_backend_service; build_backend_service resolves the name it is given once more. *)
Dispatch(r) ==
  /\ at[r] = "routed"
  /\ IF Readable
     THEN backend' = [backend EXCEPT ![r] = ByModel(ResolveBackend(params[r]))] /\ Stop(r, "dispatched")
     ELSE UNCHANGED backend /\ Stop(r, "failed")
  /\ UNCHANGED <<params, voice, language>>

(* PiperBackend.resolve_voice: what the request may get, nothing when it is an error. *)
PiperChoice(p) ==
  LET installed == Registered \cap PiperVoices
      mapped == IF p.voice \in Languages THEN PiperLanguages[p.voice] ELSE NoVoice
      ofLanguage == IF p.language = NoVoice THEN NoVoice ELSE PiperLanguages[p.language] IN
  IF p.voice # NoVoice THEN {IF Means[p.voice] \in installed THEN Means[p.voice] ELSE mapped} \cap installed
  ELSE IF ofLanguage \in installed THEN {ofLanguage}
  ELSE IF DefaultVoice["piper"] \in installed THEN {DefaultVoice["piper"]} ELSE installed

(* KokoroBackend._resolve_model goes by the configuration; missing files fail later. *)
KokoroChoice(p) ==
  LET wanted == IF p.voice # NoVoice THEN {Means[p.voice]} \cap KokoroVoices
                ELSE IF DefaultVoice["kokoro"] \in KokoroVoices THEN {DefaultVoice["kokoro"]} ELSE KokoroVoices
  IN wanted \cap Registered

Choice(r) ==
  IF backend[r] = "kokoro" THEN KokoroChoice(params[r])
  ELSE IF Readable THEN PiperChoice(params[r]) ELSE {}

(* The backend speaks; the result's language is the one asked for, or the voice's own. *)
Speak(r) ==
  /\ at[r] = "dispatched"
  /\ \/ /\ Choice(r) = {} /\ UNCHANGED <<voice, language>> /\ Stop(r, "failed")
     \/ \E v \in Choice(r) :
          /\ voice' = [voice EXCEPT ![r] = v] /\ Stop(r, "speaking")
          /\ language' = [language EXCEPT ![r] = IF params[r].language # NoVoice THEN params[r].language ELSE v]
  /\ UNCHANGED <<params, backend>>

(* The files of a voice come, go, or are overwritten by something that is not JSON. *)
Change(v, what) ==
  /\ files[v] # what /\ (what = "broken" => v \in PiperVoices)
  /\ files' = [files EXCEPT ![v] = what] /\ steady' = [r \in Requests |-> FALSE]
  /\ UNCHANGED <<asked, params, at, answer>>

Next ==
  \/ \E r \in Requests : Route(r) \/ Dispatch(r) \/ Speak(r)
  \/ \E v \in Voices, what \in {"good", "absent", "broken"} : Change(v, what)

Spec == Init /\ [][Next]_vars

-----------------------------------------------------------------------------
Ended(r) == at[r] \in {"speaking", "failed"}
Installed(v) == v \in Voices /\ files[v] = "good"

(* "piper" is also a name for the default backend, so that Piper's voices are out of reach *)
(* when that is Kokoro.                                                                     *)
InReach(v) == v \in KokoroVoices \/ DefaultBackend = "piper"

(* A request that names an installed voice, or is routed to one, is spoken with that voice *)
(* whatever model it names, as long as nobody touches the voices meanwhile: the voice       *)
(* decides the backend.                                                                     *)
VoiceDecidesBackend ==
  \A r \in Requests : Ended(r) /\ steady[r] /\ params[r].voice # NoVoice /\ Readable =>
    (Installed(Means[params[r].voice]) /\ InReach(Means[params[r].voice]) => voice[r] = Means[params[r].voice])

(* A caller that pins an installed voice hears another one only when it left routing on *)
(* and the voice mapped to the language of its text is installed too.                    *)
PinKept ==
  \A r \in Requests :
    at[r] = "speaking" /\ asked[r].voice # NoVoice /\ steady[r] /\ Installed(Means[asked[r].voice])
      /\ voice[r] # Means[asked[r].voice] =>
        asked[r].routing /\ asked[r].detected # NoVoice /\ voice[r] = LanguageVoices[asked[r].detected]

(* A request routed to another voice also reports the language of that routing, whatever *)
(* language the caller pinned.                                                            *)
RoutedWhole ==
  \A r \in Requests : at[r] = "speaking" /\ params[r] # asked[r] =>
    /\ voice[r] = LanguageVoices[asked[r].detected] /\ language[r] = asked[r].detected

(* Routing makes no request fail: a routed one fails only when voices change under it. *)
RoutingNeverFails ==
  \A r \in Requests :
    at[r] = "failed" /\ params[r] # asked[r] /\ InReach(params[r].voice) => ~steady[r]

-----------------------------------------------------------------------------
(* What every step preserves *)

(* The request follows the detected language. *)
Routed(r) ==
  /\ asked[r].routing /\ asked[r].detected # NoVoice /\ LanguageVoices[asked[r].detected] \in Voices
  /\ params[r].voice = LanguageVoices[asked[r].detected] /\ params[r].language = asked[r].detected

(* Until nobody touches the voices, what was decided is what would be decided now. *)
RoutedAsItStands(r) ==
  /\ at[r] = "admitted" => params[r] = asked[r]
  /\ params[r] = asked[r] \/ Routed(r)
  /\ params[r] # asked[r] /\ steady[r] => Readable /\ params[r].voice \in Registered
DispatchedAsItStands(r) ==
  /\ at[r] \in {"dispatched", "speaking"} => backend[r] \in Backends
  /\ at[r] \in {"dispatched", "speaking"} /\ steady[r] =>
       Readable /\ backend[r] = ByModel(ResolveBackend(params[r]))
SpokenAsItStands(r) ==
  /\ at[r] = "speaking" /\ steady[r] => voice[r] \in Choice(r)
  /\ at[r] = "failed" /\ steady[r] /\ Readable =>
       backend[r] = ByModel(ResolveBackend(params[r])) /\ Choice(r) = {}

IInv ==
  /\ TypeOK /\ RoutedWhole
  /\ \A r \in Requests : RoutedAsItStands(r) /\ DispatchedAsItStands(r) /\ SpokenAsItStands(r)

=============================================================================
