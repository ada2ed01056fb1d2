------------------------------ MODULE ProfileRun ------------------------------
(***************************************************************************)
(* One run of the ad-analysis-v1 profile (run_profile_transcription in     *)
(* transcriptions/profiles.py): the checks before it, Parakeet, the drift  *)
(* check with its retries (drift.py, transcribe_window in windows.py) and  *)
(* the chapter windows, which are module ChapterWindows.                   *)
(***************************************************************************)
EXTENDS Integers, Sequences

CONSTANTS
  MarkLists, Durations, Half, Shifts, Swaps,   \* as in ChapterWindows
  Grids                                        \* the grid windows Parakeet's words may fill: is each flagged?

(* What an instance may give the constants. *)
GridAssumption == \A grid \in Grids : grid \in Seq(BOOLEAN)

VARIABLES
  model, swaps, cancelled, marks, duration, at, mark, try, wav, json, codes, windows, outcome,
  hasMarks,   \* the job carries chapter marks
  german,     \* language_hint is one the drift rule checks
  phase,      \* where run_profile_transcription is
  grid,       \* the grid windows of Parakeet's words
  records,    \* of the grid windows seen: flagged? and its retry: the language agrees? surely? accepted?
  words,      \* whose words stand in the grid windows: "parakeet" or "retry"
  ended,      \* how the run ended
  late        \* children that ended well after the cancellation: those that work at the media, and
              \* those asked for a version

chapter == <<at, mark, try, wav, json, codes, windows, outcome>>
request == <<marks, hasMarks, german>>
drift == <<grid, records, words>>
vars == <<model, swaps, cancelled, duration, chapter, request, phase, drift, ended, late>>

Chapter == INSTANCE ChapterWindows

ChildPhases == {"probe", "parakeet", "decode", "whisper"}

(* profile_identity: Parakeet's interpreter, its command line, whisper-cli. *)
Closing == {"identity", "cli", "engine"}

TypeOK ==
  /\ Chapter!TypeOK
  /\ hasMarks \in BOOLEAN /\ german \in BOOLEAN
  /\ phase \in ChildPhases \cup Closing
       \cup {"start", "drift", "runtime", "clipped", "identify", "version", "windows", "over"}
  /\ grid \in Grids \cup {<<>>}
  /\ records \in Seq([flagged : BOOLEAN, agrees : BOOLEAN, sure : BOOLEAN, accepted : BOOLEAN])
  /\ Len(records) <= Len(grid)
  /\ words \in Seq({"parakeet", "retry"}) /\ Len(words) = Len(grid)
  /\ ended \in {"running", "answered", "cancelled", "unavailable", "failed", "badmarks"}
  /\ ended # "running" <=> phase = "over"
  /\ late \in [work : Nat, versions : Nat]

Init ==
  /\ Chapter!Init
  /\ hasMarks \in BOOLEAN /\ german \in BOOLEAN
  /\ phase = "start" /\ grid = <<>> /\ records = <<>> /\ words = <<>>
  /\ ended = "running" /\ late = [work |-> 0, versions |-> 0]

-----------------------------------------------------------------------------
Still == UNCHANGED <<model, swaps, cancelled, duration, chapter, request>>

End(how) == phase' = "over" /\ ended' = how /\ Still /\ UNCHANGED <<drift, late>>

Goto(place) == phase' = place /\ Still /\ UNCHANGED <<drift, ended, late>>

(* A child has ended well: nobody has looked at the event while it ran. *)
Worked == late' = IF cancelled THEN [late EXCEPT !.work = late.work + 1] ELSE late

(* A command line is asked for its version, with no event to look at; or its answer is  *)
(* known from before (lru_cache).                                                         *)
Identified ==
  \/ late' = late
  \/ cancelled /\ late' = [late EXCEPT !.versions = late.versions + 1]

(* Lines 220-227: the runtimes are resolved before anything runs. *)
Resolve ==
  /\ phase = "start"
  /\ IF cancelled THEN End("cancelled")
     ELSE IF model # "pinned" THEN End("unavailable")
     ELSE Goto(IF hasMarks THEN "probe" ELSE "parakeet")

(* ffprobe, parakeet-mlx or its model is missing. *)
ToolMissing ==
  /\ phase \in {"start", "parakeet"}
  /\ End("unavailable")

(* media_duration_ms has its answer (the variable duration); check_marks_within. *)
Probed ==
  /\ phase = "probe"
  /\ IF \E i \in 1 .. Len(marks) : marks[i] > duration THEN End("badmarks")
     ELSE IF cancelled THEN End("cancelled")
     ELSE phase' = "parakeet" /\ Worked /\ Still /\ UNCHANGED <<drift, ended>>

(* backend.run has its payload; run_drift_check cuts its words by the grid. *)
Transcribed ==
  /\ phase = "parakeet"
  /\ \E g \in Grids : grid' = g /\ words' = [i \in 1 .. Len(g) |-> "parakeet"]
  /\ phase' = "drift" /\ Worked /\ Still /\ UNCHANGED <<records, ended>>

ToChapters == Goto(IF hasMarks THEN "windows" ELSE "identity")

Recorded(record) ==
  /\ records' = Append(records, record)
  /\ words' = IF record.accepted THEN [words EXCEPT ![Len(records) + 1] = "retry"] ELSE words
  /\ UNCHANGED grid

(* The loop of run_drift_check over the grid windows, and its last look at the event. *)
CheckDrift ==
  /\ phase = "drift"
  /\ IF ~german THEN ToChapters
     ELSE IF Len(records) = Len(grid) THEN IF cancelled THEN End("cancelled") ELSE ToChapters
     ELSE IF ~grid[Len(records) + 1]
     THEN /\ Recorded([flagged |-> FALSE, agrees |-> FALSE, sure |-> FALSE, accepted |-> FALSE])
          /\ UNCHANGED <<phase, ended, late>> /\ Still
     ELSE IF cancelled THEN End("cancelled") ELSE Goto("runtime")

(* transcribe_window: the pinned model is resolved again for each retry. *)
ResolveRetry ==
  /\ phase = "runtime"
  /\ IF cancelled THEN End("cancelled") ELSE IF model # "pinned" THEN End("unavailable") ELSE Goto("decode")

RetryDecoded ==
  /\ phase = "decode"
  /\ phase' = "clipped" /\ Worked /\ Still /\ UNCHANGED <<drift, ended>>

StartRetry ==
  /\ phase = "clipped"
  /\ IF cancelled THEN End("cancelled") ELSE Goto("whisper")

(* whisper.cpp has written well-formed output and one detected language, the same in its *)
(* log and its result.  Without the model it fails.                                      *)
RetryRead ==
  /\ phase = "whisper" /\ model # "gone"
  /\ phase' = "identify" /\ Worked /\ Still /\ UNCHANGED <<drift, ended>>

(* window_identity: "a cancellation during it is not answered with a result". *)
RetryIdentified ==
  /\ phase = "identify"
  /\ phase' = "version" /\ Identified /\ Still /\ UNCHANGED <<drift, ended>>

(* The last look, and the rule's verdict: is the detected language the *)
(* episode's, and its probability at least 0.9?                                          *)
RetryJudged(agrees, sure) ==
  /\ phase = "version"
  /\ IF cancelled THEN End("cancelled")
     ELSE /\ Recorded([flagged |-> TRUE, agrees |-> agrees, sure |-> sure, accepted |-> agrees /\ sure])
          /\ phase' = "drift" /\ Still /\ UNCHANGED <<ended, late>>

(* A child cannot be started, fails, runs into its time limit or writes what cannot be  *)
(* read: RuntimeError.                                                                   *)
ChildBreaks == phase \in ChildPhases /\ End("failed")

ChildCancelled == phase \in ChildPhases /\ cancelled /\ End("cancelled")

(* run_chapter_windows; what it raises ends the run. *)
ChapterStep ==
  /\ phase = "windows" /\ Chapter!Step
  /\ phase' = CASE outcome' = "running" -> "windows"
                [] outcome' = "answered" -> "identity"
                [] OTHER -> "over"
  /\ ended' = IF outcome' \in {"running", "answered"} THEN ended ELSE outcome'
  /\ IF at \in {"decode", "whisper"} /\ at' # "over" THEN Worked
     ELSE IF at = "identity" THEN Identified
     ELSE UNCHANGED late
  /\ UNCHANGED <<hasMarks, german, drift>>

(* profile_identity, and nobody looks again: cli_versions asks Parakeet's interpreter,   *)
(* or Parakeet when there is none or it does not say.                                     *)
AskInterpreter ==
  /\ phase = "identity"
  /\ phase' \in {"cli", "engine"} /\ Identified /\ Still /\ UNCHANGED <<drift, ended>>

AskParakeet ==
  /\ phase = "cli"
  /\ phase' = "engine" /\ Identified /\ Still /\ UNCHANGED <<drift, ended>>

(* whispercpp_version, and the answer. *)
Answer ==
  /\ phase = "engine"
  /\ phase' = "over" /\ ended' = "answered" /\ Identified /\ Still /\ UNCHANGED drift

Outside(event) == event /\ UNCHANGED <<hasMarks, german, phase, drift, ended, late>>

Cancel == ended = "running" /\ Outside(Chapter!Cancel)

SwapModel == \E file \in {"pinned", "other", "gone"} : ended = "running" /\ Outside(Chapter!SwapModel(file))

Step ==
  \/ Resolve \/ ToolMissing \/ Probed \/ Transcribed \/ CheckDrift
  \/ ResolveRetry \/ RetryDecoded \/ StartRetry \/ RetryRead \/ RetryIdentified
  \/ \E agrees \in BOOLEAN, sure \in BOOLEAN : RetryJudged(agrees, sure)
  \/ ChildBreaks \/ ChildCancelled \/ ChapterStep \/ AskInterpreter \/ AskParakeet \/ Answer

Next == Step \/ Cancel \/ SwapModel

Spec == Init /\ [][Next]_vars

-----------------------------------------------------------------------------
(* Properties *)

(* "A job never runs without the check": an answer for a language the rule checks has a  *)
(* record of every grid window and a retry of every flagged one, and an answer for a job *)
(* with marks has all their windows.                                                      *)
AnswerIsComplete ==
  ended = "answered" =>
    /\ german => /\ Len(records) = Len(grid)
                 /\ \A i \in 1 .. Len(grid) : grid[i] => records[i].flagged
    /\ hasMarks => Len(windows) = Len(marks)

(* Parakeet's words are replaced only in a flagged window whose retry the rule has       *)
(* accepted, the episode's language being sure; the records say which these are.          *)
OnlyDriftIsRepaired ==
  \A i \in 1 .. Len(grid) :
    words[i] = "retry" <=>
      i <= Len(records) /\ german /\ grid[i] /\ records[i].agrees /\ records[i].sure

(* A mark after the end of the media fails the job before Parakeet runs. *)
MarksBeforeParakeet ==
  (hasMarks /\ phase \notin {"start", "probe", "over"}) => \A i \in 1 .. Len(marks) : marks[i] <= duration

(* Whatever ends too soon to be stopped, somebody looks before the next child begins to  *)
(* work at the media: one at most ends after the cancellation, and none in a run that is  *)
(* answered and has a look after Parakeet.  Children asked for a version run unlooked: one *)
(* before the next look, the last three (of an answer) before none.                        *)
CancelledSoon ==
  /\ late.work <= 1 /\ late.versions <= 3
  /\ ended = "answered" /\ (german \/ hasMarks) => late.work = 0
  /\ ended \notin {"running", "answered"} => late.versions <= 1

-----------------------------------------------------------------------------
(* What every step preserves *)

(* The windows around the marks are made last, and an answer waits for theirs. *)
ChapterOfPhase ==
  /\ phase \in {"windows", "over"} \/ (phase \in Closing /\ hasMarks) \/ at = "check"
  /\ phase \notin Closing \cup {"over"} => outcome = "running"
  /\ phase = "windows" => hasMarks
  /\ phase \in Closing /\ hasMarks => outcome = "answered"

(* The grid windows seen are the first ones, and the loop has seen all before it ends. *)
RecordsOfGrid ==
  /\ \A i \in 1 .. Len(records) : records[i].flagged = grid[i]
  /\ records # <<>> => german
  /\ phase \in {"start", "probe", "parakeet"} => records = <<>>
  /\ phase \in {"runtime", "decode", "clipped", "whisper", "identify", "version"} =>
       german /\ Len(records) < Len(grid) /\ grid[Len(records) + 1]
  /\ phase \in Closing \cup {"windows"} /\ german => Len(records) = Len(grid)

(* A child that worked late was the last to work: the next look ends the run, or there *)
(* is none.                                                                               *)
WorkedLast ==
  late.work = 1 =>
    /\ cancelled
    /\ phase \in {"drift", "clipped", "identify", "version", "windows", "over"} \cup Closing
    /\ phase = "windows" => at \in {"check", "clip", "clipped", "verdict", "identity", "last"}
    /\ phase \in Closing \/ ended = "answered" => ~german /\ ~hasMarks

(* Versions asked for late: one before a look, and those of the answer. *)
IdentifiedLast ==
  /\ late.versions > 0 =>
       /\ cancelled
       /\ phase \in {"version", "cli", "engine", "over"} \/ (phase = "windows" /\ at = "last")
  /\ late.versions > 1 => phase = "engine" \/ ended = "answered"
  /\ late.versions > 2 => ended = "answered"

IInv ==
  /\ TypeOK /\ ChapterOfPhase /\ RecordsOfGrid /\ WorkedLast /\ IdentifiedLast
  /\ AnswerIsComplete /\ MarksBeforeParakeet /\ CancelledSoon /\ OnlyDriftIsRepaired

=============================================================================
