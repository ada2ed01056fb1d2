-------------------------------- MODULE Speech --------------------------------
(***************************************************************************)
(* The life of a synthesis request, from the text to the removal of the    *)
(* last temporary file (synthesis/service.py PiperBackend.synthesize and   *)
(* export_audio, synthesis/kokoro.py KokoroBackend.synthesize, and their   *)
(* callers in synthesis/views.py and jobs/services.py).  espeak-ng keeps   *)
(* its language in one place for the whole process.                        *)
(***************************************************************************)
EXTENDS Naturals, Sequences

CONSTANTS
  Requests,
  Languages,       \* phoneme languages
  MaxSentences,
  FormatLists,     \* what a caller may ask for: one format over HTTP, several in a batch
  NoOne

Backends == {"piper", "kokoro"}
Formats == {"wav", "mp3", "ogg"}

(* What an instance may give the constants. *)
SpeechAssumption ==
  MaxSentences \in Nat /\ NoOne \notin Requests \cup Languages /\ FormatLists \subseteq Seq(Formats)

VARIABLES
  kind,        \* what each request is: backend, language, sentences, formats
  at,          \* where it is
  phonemes,    \* the languages its sentences were phonemized in
  exports,     \* the formats it has exported
  files,       \* its temporary files, by format; "source" is the synthesized WAV
  whole,       \* those that are completely written
  answer,      \* the files it has answered with, and whether they were whole
  espeak,      \* the language espeak-ng is set to
  phonemizer, inference    \* who holds _PHONEMIZER_LOCK, and each backend's inference lock

disk == <<files, whole>>
locks == <<phonemizer, inference>>
vars == <<kind, at, phonemes, exports, disk, answer, espeak, locks>>

Places == {"text", "switched", "ready", "reserved", "infer", "write", "spoken", "convert", "failed",
           "answered", "done", "error"}

(* Who holds a lock is where the lock is needed, and nobody else is. *)
Infers(r, b) == kind[r].backend = b /\ at[r] = (IF b = "piper" THEN "write" ELSE "infer")
LocksHeld ==
  \A r \in Requests :
    (phonemizer = r <=> at[r] = "switched") /\ \A b \in Backends : inference[b] = r <=> Infers(r, b)

TypeOK ==
  /\ kind \in [Requests -> [backend : Backends, language : Languages, sentences : 0 .. MaxSentences,
                            formats : FormatLists]]
  /\ at \in [Requests -> Places]
  /\ espeak \in Languages \cup {NoOne} /\ phonemizer \in Requests \cup {NoOne}
  /\ inference \in [Backends -> Requests \cup {NoOne}]
  /\ phonemes \in [Requests -> Seq(Languages)] /\ exports \in [Requests -> Seq(Formats)]
  /\ files \in [Requests -> SUBSET (Formats \cup {"source"})]
  /\ whole \in [Requests -> SUBSET (Formats \cup {"source"})]
  /\ answer \in [Requests -> SUBSET (Formats \X BOOLEAN)]
  /\ LocksHeld

Init ==
  /\ kind \in [Requests -> [backend : Backends, language : Languages, sentences : 0 .. MaxSentences,
                            formats : FormatLists]]
  /\ \A r \in Requests : kind[r].backend = "piper" => kind[r].sentences = 0
  /\ at = [r \in Requests |-> IF kind[r].backend = "kokoro" THEN "text" ELSE "ready"]
  /\ phonemes = [r \in Requests |-> <<>>] /\ exports = [r \in Requests |-> <<>>]
  /\ files = [r \in Requests |-> {}] /\ whole = [r \in Requests |-> {}]
  /\ answer = [r \in Requests |-> {}]
  /\ espeak = NoOne /\ phonemizer = NoOne /\ inference = [b \in Backends |-> NoOne]

-----------------------------------------------------------------------------
Goto(r, place) == at' = [at EXCEPT ![r] = place]
Backend(r) == kind[r].backend
Free(r) == inference[Backend(r)] = NoOne
Lock(r) == inference' = [inference EXCEPT ![Backend(r)] = r]
Unlock(r) == inference' = [inference EXCEPT ![Backend(r)] = NoOne]
Reserve(r, name) == files' = [files EXCEPT ![r] = @ \cup {name}] /\ UNCHANGED whole
Complete(r, name) == whole' = [whole EXCEPT ![r] = @ \cup {name}] /\ UNCHANGED files
Drop(r, names) ==
  /\ files' = [files EXCEPT ![r] = @ \ names] /\ whole' = [whole EXCEPT ![r] = @ \ names]

(* Variant with a fault, for comparison only: the language is set without the lock. *)
SwitchUnlocked(r) ==
  /\ at[r] = "text" /\ Len(phonemes[r]) < kind[r].sentences
  /\ espeak' = kind[r].language /\ Goto(r, "switched")
  /\ UNCHANGED <<kind, phonemes, exports, disk, answer, locks>>

(* _phonemize_to_tokens takes the lock; espeak is made ready and set to the language. *)
Switch(r) ==
  /\ at[r] = "text" /\ Len(phonemes[r]) < kind[r].sentences /\ phonemizer = NoOne
  /\ phonemizer' = r /\ espeak' = kind[r].language /\ Goto(r, "switched")
  /\ UNCHANGED <<kind, phonemes, exports, disk, answer, inference>>

(* The sentence is spoken in whatever language espeak is set to, and the lock given back. *)
Phonemize(r) ==
  /\ at[r] = "switched"
  /\ phonemes' = [phonemes EXCEPT ![r] = Append(@, espeak)]
  /\ phonemizer' = NoOne /\ Goto(r, "text")
  /\ UNCHANGED <<kind, exports, disk, answer, espeak, inference>>

(* espeak is missing or fails; no file was made and the caller has none to remove. *)
PhonemizeFails(r) ==
  /\ at[r] = "switched" /\ phonemizer' = NoOne /\ Goto(r, "error")
  /\ UNCHANGED <<kind, phonemes, exports, disk, answer, espeak, inference>>

(* All sentences are tokens and chunks; the session and the voice are loaded. *)
Loaded(r) ==
  /\ at[r] = "text" /\ Len(phonemes[r]) = kind[r].sentences /\ Goto(r, "ready")
  /\ UNCHANGED <<kind, phonemes, exports, disk, answer, espeak, locks>>

LoadFails(r) ==
  /\ \/ at[r] = "text" /\ Len(phonemes[r]) = kind[r].sentences
     \/ at[r] = "ready" /\ Backend(r) = "piper"
  /\ Goto(r, "error")
  /\ UNCHANGED <<kind, phonemes, exports, disk, answer, espeak, locks>>

(* Kokoro infers all chunks under its lock and has no file yet. *)
KokoroInfer(r) ==
  /\ at[r] = "ready" /\ Backend(r) = "kokoro" /\ Free(r) /\ Lock(r) /\ Goto(r, "infer")
  /\ UNCHANGED <<kind, phonemes, exports, disk, answer, espeak, phonemizer>>

KokoroInferred(r) ==
  /\ at[r] = "infer" /\ Unlock(r)
  /\ \/ Goto(r, "write") /\ Reserve(r, "source")
     \/ Goto(r, "error") /\ UNCHANGED disk
  /\ UNCHANGED <<kind, phonemes, exports, answer, espeak, phonemizer>>

(* Piper reserves its file first, and writes it under its lock. *)
PiperReserve(r) ==
  /\ at[r] = "ready" /\ Backend(r) = "piper" /\ Reserve(r, "source") /\ Goto(r, "reserved")
  /\ UNCHANGED <<kind, phonemes, exports, answer, espeak, locks>>

PiperWrite(r) ==
  /\ at[r] = "reserved" /\ Free(r) /\ Lock(r) /\ Goto(r, "write")
  /\ UNCHANGED <<kind, phonemes, exports, disk, answer, espeak, phonemizer>>

ReleaseAfterWrite(r) == IF Backend(r) = "piper" THEN Unlock(r) ELSE UNCHANGED inference

(* The WAV is written and read back. *)
Written(r) ==
  /\ at[r] = "write" /\ Complete(r, "source") /\ ReleaseAfterWrite(r) /\ Goto(r, "spoken")
  /\ UNCHANGED <<kind, phonemes, exports, answer, espeak, phonemizer>>

(* Writing fails: no caller knows the file yet, so it is removed here. *)
WriteFails(r) ==
  /\ at[r] = "write" /\ Drop(r, {"source"}) /\ ReleaseAfterWrite(r) /\ Goto(r, "error")
  /\ UNCHANGED <<kind, phonemes, exports, answer, espeak, phonemizer>>

Pending(r) == Len(exports[r]) < Len(kind[r].formats)
NextFormat(r) == kind[r].formats[Len(exports[r]) + 1]
Exported(r) == exports' = [exports EXCEPT ![r] = Append(@, NextFormat(r))]

(* export_audio hands out the WAV itself, or reserves a target and starts ffmpeg. *)
Export(r) ==
  /\ at[r] = "spoken" /\ Pending(r)
  /\ IF NextFormat(r) = "wav"
     THEN Exported(r) /\ UNCHANGED <<at, disk>>
     ELSE Reserve(r, NextFormat(r)) /\ Goto(r, "convert") /\ UNCHANGED exports
  /\ UNCHANGED <<kind, phonemes, answer, espeak, locks>>

Converted(r) ==
  /\ at[r] = "convert" /\ Complete(r, NextFormat(r)) /\ Exported(r) /\ Goto(r, "spoken")
  /\ UNCHANGED <<kind, phonemes, answer, espeak, locks>>

(* ffmpeg does not start, fails, or is killed at its deadline: the target goes. *)
ConvertFails(r) ==
  /\ at[r] = "convert" /\ Drop(r, {NextFormat(r)}) /\ Goto(r, "failed")
  /\ UNCHANGED <<kind, phonemes, exports, answer, espeak, locks>>

Elements(list) == {list[i] : i \in DOMAIN list}

FileOf(format) == IF format = "wav" THEN "source" ELSE format

(* The response's bytes are read, or the artifacts stored. *)
Answer(r) ==
  /\ at[r] = "spoken" /\ ~Pending(r) /\ Goto(r, "answered")
  /\ answer' = [answer EXCEPT ![r] =
       {<<format, FileOf(format) \in whole[r]>> : format \in Elements(kind[r].formats)}]
  /\ UNCHANGED <<kind, phonemes, exports, disk, espeak, locks>>

(* Reading or storing them fails, or the job's row is lost. *)
AnswerFails(r) ==
  /\ at[r] = "spoken" /\ ~Pending(r) /\ Goto(r, "failed")
  /\ UNCHANGED <<kind, phonemes, exports, disk, answer, espeak, locks>>

(* The finally clause of the caller: the exports it knows of, and the WAV. *)
Cleanup(r) ==
  /\ at[r] \in {"answered", "failed"}
  /\ Drop(r, {FileOf(f) : f \in Elements(exports[r])} \cup {"source"})
  /\ Goto(r, IF at[r] = "answered" THEN "done" ELSE "error")
  /\ UNCHANGED <<kind, phonemes, exports, answer, espeak, locks>>

Steps(r) ==
  \/ Switch(r) \/ Phonemize(r) \/ PhonemizeFails(r) \/ Loaded(r) \/ LoadFails(r)
  \/ KokoroInfer(r) \/ KokoroInferred(r) \/ PiperReserve(r) \/ PiperWrite(r) \/ Written(r) \/ WriteFails(r)
  \/ Export(r) \/ Converted(r) \/ ConvertFails(r) \/ Answer(r) \/ AnswerFails(r) \/ Cleanup(r)

Next == \E r \in Requests : Steps(r)

Spec == Init /\ [][Next]_vars

-----------------------------------------------------------------------------
Over(r) == at[r] \in {"done", "error"}

(* Every sentence of a request is phonemized in the request's language, whatever other *)
(* requests do to espeak-ng meanwhile.                                                  *)
OwnLanguage == \A r \in Requests : \A i \in DOMAIN phonemes[r] : phonemes[r][i] = kind[r].language

(* A request that is over has left no temporary file, however it ended. *)
NothingLeft == \A r \in Requests : Over(r) => files[r] = {}

(* An answer holds every format that was asked for, each completely written. *)
AnswersWhole ==
  \A r \in Requests : at[r] = "done" =>
    answer[r] = {<<format, TRUE>> : format \in Elements(kind[r].formats)}

-----------------------------------------------------------------------------
(* What every step preserves *)

(* Each backend has places of its own, and no request goes beyond what it asked for. *)
WithinRequest(r) ==
  /\ at[r] = "infer" => Backend(r) = "kokoro"
  /\ at[r] = "reserved" => Backend(r) = "piper"
  /\ Len(phonemes[r]) <= kind[r].sentences /\ Len(exports[r]) <= Len(kind[r].formats)
  /\ \A i \in 1 .. Len(exports[r]) : exports[r][i] = kind[r].formats[i]

(* Nobody sets espeak-ng to another language under a sentence. *)
SpokenInOwn(r) ==
  /\ at[r] = "switched" => espeak = kind[r].language /\ Len(phonemes[r]) < kind[r].sentences
  /\ \A i \in 1 .. Len(phonemes[r]) : phonemes[r][i] = kind[r].language

Promised(r) == {FileOf(format) : format \in Elements(exports[r])} \cup {"source"}

(* What there is of a request at each place, and what of it is completely written. *)
FilesOfPlace(r) ==
  /\ whole[r] \subseteq files[r]
  /\ at[r] \in {"text", "switched", "ready", "infer", "done", "error"} => files[r] = {}
  /\ at[r] \in {"reserved", "write"} => files[r] = {"source"}
  /\ at[r] \notin {"spoken", "convert", "failed", "answered", "done", "error"} => exports[r] = <<>>
  /\ at[r] \in {"spoken", "failed", "answered"} => files[r] \subseteq Promised(r)
  /\ at[r] = "convert" =>
       Pending(r) /\ NextFormat(r) # "wav" /\ files[r] = Promised(r) \cup {NextFormat(r)}
  /\ at[r] \in {"spoken", "convert"} => Promised(r) \subseteq whole[r]
  /\ at[r] \in {"answered", "done"} =>
       answer[r] = {<<format, TRUE>> : format \in Elements(kind[r].formats)}

IInv == TypeOK /\ \A r \in Requests : WithinRequest(r) /\ SpokenInOwn(r) /\ FilesOfPlace(r)

=============================================================================
