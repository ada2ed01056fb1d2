---------------------------- MODULE JobRequests ----------------------------
(***************************************************************************)
(* What a job submission asks for (parse_* and validate_* in               *)
(* jobs/services.py), the row it is stored as, when an existing row is     *)
(* reused for a later submission (existing_job_matches_request), and the   *)
(* fingerprint under the unique constraint (jobs/fingerprints.py).  Field  *)
(* values are reduced to the classes these functions tell apart.           *)
(***************************************************************************)
EXTENDS Naturals, Sequences, FiniteSets, SequencesExt

CONSTANTS
  Payload,      \* the payloads submitted
  Absent,       \* a key the payload does not have
  Null,         \* None
  NegZero,      \* the float -0.0, which JSON writes "-0.0" and == finds equal to 0
  NoRow

VARIABLES
  first, row,       \* a payload and the job it became, or NoRow
  second, outcome   \* a later payload, and what its submission found

vars == <<first, row, second, outcome>>

Profiles == {"ad-analysis-v1"}
HintLanguages == {"de", "en"}            \* what the profile's engine supports
AcceptedModels == {"auto", "whisper-1"}
TranscriptFormats == {"text", "json", "vtt", "webvtt", "dote", "podlove"}
MaxMarks == 2                            \* MAX_CHAPTER_MARKS
MaxMark == 3                             \* MAX_CHAPTER_MARK_MS

-----------------------------------------------------------------------------
(* Field by field: what is accepted, and what it is normalised to *)

Given(value) == value \notin {Absent, Null}
OptionalString(value) == IF Given(value) /\ value # " " THEN value ELSE Null

(* require_non_negative_number: -0.0 is not negative. *)
Amount(n) == IF n = NegZero THEN 0 ELSE n

ParsesProfile(p) == OptionalString(p.profile) \in Profiles \cup {Null}
HasProfile(p) == OptionalString(p.profile) # Null

MarksValid(marks) ==
  /\ marks # <<>> /\ Len(marks) <= MaxMarks
  /\ \A i \in 1 .. Len(marks) : marks[i] \in 0 .. MaxMark
  /\ \A i \in 1 .. Len(marks) - 1 : marks[i] < marks[i + 1]

(* With a profile, which fixes engine and model; and without one. *)
ParsesWithProfile(p) ==
  /\ OptionalString(p.model) \in {Null, "auto"}
  /\ ~Given(p.language)
  /\ OptionalString(p.hint) \in HintLanguages \cup {Null}
  /\ Given(p.marks) => MarksValid(p.marks)

ParsesWithoutProfile(p) ==
  /\ ~Given(p.hint) /\ ~Given(p.marks)
  /\ p.model = Absent \/ p.model \in AcceptedModels

ParsesInput(input) == input.kind \in {"url", "upload"} /\ input.name # ""

Renamed(format) == IF format = "webvtt" THEN "vtt" ELSE format

(* validate_transcription_output_formats: known names, each once, in order. *)
ParsesFormats(formats) ==
  formats = Absent \/ (formats # <<>> /\ \A i \in 1 .. Len(formats) : formats[i] \in TranscriptFormats)

OutputFormats(formats) ==
  IF formats = Absent THEN <<"text", "json">>
  ELSE LET names == [i \in 1 .. Len(formats) |-> Renamed(formats[i])]
           new == SelectSeq([i \in 1 .. Len(names) |-> i],
                            LAMBDA i : \A k \in 1 .. i - 1 : names[k] # names[i])
       IN  [i \in 1 .. Len(new) |-> names[new[i]]]

Counts == {"num", "min", "max"}
PositiveOrMissing(value) == ~Given(value) \/ value \in Nat \ {0}

(* parse_known_speakers: one or more distinct people, each with references whose *)
(* ranges start before they end.                                                 *)
ParsesPeople(people) ==
  /\ Given(people) /\ people # <<>>
  /\ \A i \in 1 .. Len(people) :
       LET r == people[i].range IN
       people[i].name # "" /\ (r # <<>> => Amount(r[1]) < Amount(r[2]))
  /\ \A i, k \in 1 .. Len(people) : people[i].id = people[k].id => i = k

(* parse_known_speaker_config: mixed_window_duration is off or long enough. *)
ParsesConfig(config) == ~Given(config) \/ Amount(config) = 0 \/ Amount(config) >= 2

ParsesDiarization(d) ==
  \/ ~Given(d)
  \/ /\ d.enabled
     /\ \A c \in Counts : PositiveOrMissing(d[c])
     /\ ~(Given(d.num) /\ (Given(d.min) \/ Given(d.max)))
     /\ Given(d.min) /\ Given(d.max) => d.min <= d.max
     /\ \/ d.strategy = "known_speaker" /\ ParsesPeople(d.people) /\ ParsesConfig(d.config)
        \/ d.strategy \in {Absent, Null, "anonymous"} /\ d.people = Absent /\ d.config = Absent
  \/ ~d.enabled /\ \A option \in DOMAIN d \ {"enabled"} : d[option] = Absent

Enabled(d) == Given(d) /\ d.enabled

(* The normalised option: the counts given, and what known speakers need. *)
Diarization(d) ==
  IF ~Enabled(d) THEN [enabled |-> FALSE]
  ELSE [enabled |-> TRUE,
        counts |-> {<<c, d[c]>> : c \in {x \in Counts : Given(d[x])}},
        known |-> IF d.strategy = "known_speaker" THEN d.people ELSE <<>>,
        config |-> IF d.strategy = "known_speaker" /\ Given(d.config) THEN d.config ELSE Absent]

-----------------------------------------------------------------------------
(* parse_job_request *)

Accepts(p) ==
  /\ p.common = "good"                  \* parse_common_job_fields
  /\ \/ /\ p.type = "transcribe"
        /\ ParsesProfile(p)
        /\ IF HasProfile(p) THEN ParsesWithProfile(p) /\ ~Enabled(p.diarization)
                            ELSE ParsesWithoutProfile(p)
        /\ ParsesInput(p.input) /\ ParsesFormats(p.formats) /\ ParsesDiarization(p.diarization)
     \/ /\ p.type = "synthesize"
        /\ p.marks = Absent
        /\ p.input.kind = "text" /\ p.input.name # ""
        /\ p.speed \in {Absent, Null} \cup 1 .. 2

Acceptable == {p \in Payload : Accepts(p)}

Request(p) ==
  IF p.type = "synthesize"
  THEN [type |-> p.type, model |-> "tts", language |-> OptionalString(p.language), profile |-> "",
        input |-> p.input, formats |-> <<"wav">>, diarization |-> [enabled |-> FALSE],
        marks |-> Null]
  ELSE [type |-> p.type,
        model |-> IF HasProfile(p) \/ p.model = Absent THEN "auto" ELSE p.model,
        language |-> OptionalString(IF HasProfile(p) THEN p.hint ELSE p.language),
        profile |-> IF HasProfile(p) THEN OptionalString(p.profile) ELSE "",
        input |-> p.input,
        formats |-> OutputFormats(p.formats),
        diarization |-> Diarization(p.diarization),
        marks |-> IF Given(p.marks) THEN p.marks ELSE Null]

(* job_request_fingerprint_from_fields: the text of sorted JSON, so a number is the *)
(* way it is written.                                                               *)

Fingerprint(r) ==
  IF r.type # "transcribe" THEN <<r.type>>
  ELSE <<r.type, r.model, r.language, r.input, ToSet(r.formats), r.diarization, r.profile, r.marks>>

(* insert_batch_job: what the row keeps; an upload's input gets the staging metadata. *)
Stored(r) ==
  [type |-> r.type, model |-> r.model, profile |-> r.profile,
   language |-> IF r.language = Null THEN "" ELSE r.language,
   input |-> IF r.input.kind = "upload" THEN [kind |-> "upload", name |-> r.input.name, staged |-> TRUE]
             ELSE r.input,
   formats |-> r.formats,
   diarization |-> r.diarization,
   marks |-> r.marks,
   fingerprint |-> Fingerprint(r)]

(* Variant with a fault, for comparison only: the staging metadata counts. *)
FingerprintOfRow(job) ==
  Fingerprint([job EXCEPT !.language = IF @ = "" THEN Null ELSE @])

(* stored_job_request_fingerprint: the same from the row alone. *)
StoredFingerprint(job) ==
  Fingerprint([job EXCEPT
    !.language = IF @ = "" THEN Null ELSE @,
    !.input = IF @.kind = "upload" THEN [kind |-> "upload", name |-> @.name] ELSE @])

(* Python's == on the options: the same numbers, -0.0 included. *)
Plain(d) ==
  IF ~d.enabled THEN d
  ELSE [d EXCEPT
         !.known = [i \in 1 .. Len(@) |->
                      [@[i] EXCEPT !.range = [k \in 1 .. Len(@) |-> Amount(@[k])]]],
         !.config = Amount(@)]

(* existing_job_matches_request *)
Matches(job, r) ==
  /\ job.type = r.type
  /\ r.type # "transcribe" \/
       /\ job.model = r.model /\ job.profile = r.profile
       /\ (IF job.language = "" THEN Null ELSE job.language) = r.language
       /\ job.input.kind = r.input.kind /\ job.input.name = r.input.name
       /\ ToSet(job.formats) = ToSet(r.formats)
       /\ Plain(job.diarization) = Plain(r.diarization)
       /\ job.marks = r.marks

-----------------------------------------------------------------------------
Init == first = NoRow /\ row = NoRow /\ second = NoRow /\ outcome = "none"

(* A submission that finds no job of its task_ref. *)
Submit ==
  /\ first = NoRow
  /\ \E p \in Payload :
       /\ first' = p
       /\ row' = IF Accepts(p) THEN Stored(Request(p)) ELSE NoRow
       /\ outcome' = IF Accepts(p) THEN "created" ELSE "refused"
  /\ UNCHANGED second

(* A later one with the same task_ref. *)
Resubmit ==
  /\ outcome = "created"
  /\ \E p \in Acceptable :
       /\ second' = p
       /\ outcome' = IF Matches(row, Request(p)) THEN "reused" ELSE "other"
  /\ UNCHANGED <<first, row>>

Next == Submit \/ Resubmit

Spec == Init /\ [][Next]_vars

-----------------------------------------------------------------------------
(* Properties *)

TypeOK ==
  /\ outcome \in {"none", "refused", "created", "reused", "other"}
  /\ outcome \in {"none", "refused"} <=> row = NoRow
  /\ row # NoRow =>
       /\ row.model \in AcceptedModels \cup {"tts"}
       /\ row.profile \in Profiles \cup {""}
       /\ ToSet(row.formats) \subseteq (TranscriptFormats \ {"webvtt"}) \cup {"wav"}
       /\ row.diarization.enabled \in BOOLEAN

(* A submission reuses a job exactly when the unique constraint would refuse    *)
(* it beside that job (fingerprints.py: "two submissions that would deduplicate *)
(* to the same job always share a fingerprint").                                *)
ReuseAgreesWithConstraint ==
  outcome \in {"reused", "other"} =>
    (outcome = "reused" <=> Fingerprint(Request(second)) = row.fingerprint)

(* Repeating a submission always finds the job it created, whatever was         *)
(* normalised on the way into the row (existing_job_matches_request).           *)
RepetitionIsFound ==
  outcome = "created" => Matches(row, Request(first)) /\ StoredFingerprint(row) = row.fingerprint

(* Chapter marks are stored as given with a profile that can transcribe them,   *)
(* or the submission is refused; they are never dropped (parse_job_request).    *)
MarksNeverDropped ==
  outcome = "created" /\ Given(first.marks) => row.marks = first.marks /\ row.profile # ""

=============================================================================
