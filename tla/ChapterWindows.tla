---------------------------- MODULE ChapterWindows ----------------------------
(***************************************************************************)
(* The word windows around the chapter marks of a job                      *)
(* (transcriptions/chapter_windows.py, the runtime check of windows.py):   *)
(* one clip after the other is decoded by ffmpeg and read by whisper.cpp,  *)
(* up to five shifted clips for a mark, while the caller may cancel and    *)
(* the model file may be replaced.  Times are in tenths of a second.       *)
(***************************************************************************)
EXTENDS Integers, Sequences

CONSTANTS
  MarkLists,    \* parsed lists of marks: strictly increasing
  Durations,    \* what ffprobe may measure
  Half,         \* half_window_seconds
  Shifts,       \* shifts_seconds
  Swaps         \* bound on replacements of the model file

(* What an instance may give the constants. *)
WindowAssumption ==
  /\ \A marks \in MarkLists : marks \in Seq(Nat) /\ marks # <<>>
  /\ Durations \subseteq Nat /\ Half \in Nat /\ Swaps \in Nat
  /\ Shifts \in Seq(Int) /\ Shifts # <<>>

VARIABLES
  model,      \* the file at VOXHELM_WINDOW_MODEL: the pinned one, another one or none
  swaps,      \* how often it was replaced
  cancelled,  \* cancel_event is set
  marks,      \* chapter_marks_ms
  duration,   \* duration_ms
  at,         \* where run_chapter_windows is
  mark,       \* number of the mark it works on
  try,        \* number of the shift it tries
  wav,        \* x.wav: the clip in it
  json,       \* x.json: what whisper.cpp wrote and of which clip
  codes,      \* exit_codes of the window
  windows,    \* the windows done
  outcome     \* how the call ended

None == [none |-> TRUE]

vars == <<model, swaps, cancelled, marks, duration, at, mark, try, wav, json, codes, windows, outcome>>
files == <<wav, json>>
progress == <<mark, try, codes, windows>>
world == <<model, swaps, cancelled, marks, duration>>

Outcomes == {"running", "answered", "cancelled", "unavailable", "failed", "badmarks"}

Clip == [mark : Nat, start : Nat]
Window == [mark : Nat, ok : BOOLEAN, clip_start : Nat, codes : Seq({"ok", "abort"}), words : Clip \cup {None}]

TypeOK ==
  /\ model \in {"pinned", "other", "gone"} /\ swaps \in 0 .. Swaps /\ cancelled \in BOOLEAN
  /\ marks \in MarkLists /\ duration \in Durations
  /\ at \in {"check", "clip", "decode", "clipped", "whisper", "verdict", "identity", "last", "over"}
  /\ mark \in 1 .. Len(marks) /\ try \in 1 .. Len(Shifts)
  /\ wav \in Clip \cup {None}
  /\ json = None \/ json \in [clip : Clip, form : {"words", "garbage"}]
  /\ codes \in Seq({"ok", "abort"}) /\ Len(codes) <= Len(Shifts)
  /\ windows \in Seq(Window)
  /\ outcome \in Outcomes /\ (outcome # "running" <=> at = "over")

Init ==
  /\ model = "pinned" /\ swaps = 0 /\ cancelled = FALSE
  /\ marks \in MarkLists /\ duration \in Durations
  /\ at = "check" /\ mark = 1 /\ try = 1
  /\ wav = None /\ json = None /\ codes = <<>> /\ windows = <<>>
  /\ outcome = "running"

-----------------------------------------------------------------------------
Cancel ==
  /\ ~cancelled
  /\ cancelled' = TRUE
  /\ UNCHANGED <<model, swaps, marks, duration, at, files, progress, outcome>>

(* A deployment replaces, removes or restores the file. *)
SwapModel(file) ==
  /\ outcome = "running" /\ file # model /\ swaps < Swaps
  /\ model' = file /\ swaps' = swaps + 1
  /\ UNCHANGED <<cancelled, marks, duration, at, files, progress, outcome>>

(* TemporaryDirectory goes with everything in it, whatever ends the call. *)
End(how) ==
  /\ outcome' = how /\ at' = "over"
  /\ wav' = None /\ json' = None
  /\ UNCHANGED <<world, progress>>

Goto(place) == at' = place /\ UNCHANGED outcome

(* raise_if_cancelled, between the steps. *)
UnlessCancelled(step) == IF cancelled THEN End("cancelled") ELSE step

(* check_marks_within and resolve_window_runtime, before the first window. *)
Begin ==
  /\ at = "check"
  /\ IF \E i \in 1 .. Len(marks) : marks[i] > duration THEN End("badmarks")
     ELSE IF model # "pinned" THEN End("unavailable")
     ELSE Goto("clip") /\ UNCHANGED <<world, files, progress>>

StartClip ==
  /\ at = "clip"
  /\ UnlessCancelled(Goto("decode") /\ UNCHANGED <<world, files, progress>>)

ClipStart == IF marks[mark] - Half + Shifts[try] < 0 THEN 0 ELSE marks[mark] - Half + Shifts[try]
ThisClip == [mark |-> marks[mark], start |-> ClipStart]

(* decode_chapter_clip: ffmpeg -y overwrites the clip. *)
Decoded ==
  /\ at = "decode"
  /\ wav' = ThisClip
  /\ Goto("clipped") /\ UNCHANGED <<world, json, progress>>

(* Variant with a fault, for comparison only: the output of the clip before stays. *)
StartWhisperOverOutput ==
  /\ at = "clipped"
  /\ UnlessCancelled(Goto("whisper") /\ UNCHANGED <<world, wav, json, progress>>)

StartWhisper ==
  /\ at = "clipped"
  /\ UnlessCancelled(/\ json' = None
                     /\ Goto("whisper") /\ UNCHANGED <<world, wav, progress>>)

(* whisper.cpp ends with 0 or a DTW abort, with or without (some) output; without a *)
(* model it can only fail.                                                            *)
WhisperEnds(code, form) ==
  /\ at = "whisper"
  /\ model = "gone" => code = "abort" /\ form = "none"
  /\ codes' = Append(codes, code)
  /\ json' = IF form = "none" THEN json ELSE [clip |-> wav, form |-> form]
  /\ Goto("verdict") /\ UNCHANGED <<world, wav, mark, try, windows>>

(* A child fails for good: ffmpeg with an error, either when it cannot be started or at *)
(* its time limit.                                                                      *)
ChildBreaks ==
  /\ at \in {"decode", "whisper"}
  /\ End("failed")

(* run_cancellable_process looks at the event only while it waits. *)
ChildCancelled ==
  /\ at \in {"decode", "whisper"} /\ cancelled
  /\ End("cancelled")

(* transcribe_chapter_window returns and the loop goes on with the next mark. *)
WindowDone(ok, words) ==
  /\ windows' = Append(windows, [mark |-> marks[mark], ok |-> ok, clip_start |-> ClipStart,
                                 codes |-> codes, words |-> words])
  /\ wav' = None /\ json' = None /\ codes' = <<>> /\ try' = 1
  /\ IF mark < Len(marks) THEN mark' = mark + 1 /\ Goto("clip")
     ELSE UNCHANGED mark /\ Goto("identity")
  /\ UNCHANGED world

ClipSucceeded == codes[Len(codes)] = "ok" /\ json # None

(* Lines 380-392: words of a clip that succeeded; after one that failed the model is *)
(* checked before the next shift is tried.                                            *)
Judge ==
  /\ at = "verdict"
  /\ IF ClipSucceeded
     THEN IF json.form = "garbage" THEN End("failed") ELSE WindowDone(TRUE, json.clip)
     ELSE IF model # "pinned" THEN End("unavailable")
     ELSE IF try < Len(Shifts)
     THEN try' = try + 1 /\ Goto("clip") /\ UNCHANGED <<world, files, mark, codes, windows>>
     ELSE WindowDone(FALSE, None)

(* chapter_windows_identity may run whisper-cli --version; then a last look. *)
Identify ==
  /\ at = "identity"
  /\ Goto("last") /\ UNCHANGED <<world, files, progress>>

Answer == at = "last" /\ UnlessCancelled(End("answered"))

Step ==
  \/ Begin \/ StartClip \/ Decoded \/ StartWhisper
  \/ \E code \in {"ok", "abort"}, form \in {"none", "words", "garbage"} : WhisperEnds(code, form)
  \/ ChildBreaks \/ ChildCancelled \/ Judge \/ Identify \/ Answer

Next ==
  \/ Step
  \/ Cancel
  \/ \E file \in {"pinned", "other", "gone"} : SwapModel(file)

Spec == Init /\ [][Next]_vars

-----------------------------------------------------------------------------
(* Properties *)

(* A window's words come from a clip of its own mark, the one whose start it records: *)
(* never from what an earlier shift or an earlier mark has left in x.json.              *)
WordsOfTheirClip ==
  \A i \in 1 .. Len(windows) :
    windows[i].ok => windows[i].words = [mark |-> windows[i].mark, start |-> windows[i].clip_start]

(* An untranscribed window tells of whisper.cpp: a clip of every shift has failed, and *)
(* the pinned model was there after the last.                                           *)
GapsAreFailedClips ==
  (windows' # windows /\ ~windows'[Len(windows')].ok)
    => model = "pinned" /\ Len(windows'[Len(windows')].codes) = Len(Shifts)

(* An answer has exactly one window for each mark, in their order, all inside the media. *)
OneWindowPerMark ==
  /\ \A i \in 1 .. Len(windows) : windows[i].mark = marks[i] /\ marks[i] <= duration
  /\ outcome = "answered" => Len(windows) = Len(marks)

(* A call cancelled before its last step is not answered with a result, even when its  *)
(* children end too soon to notice.                                                     *)
CancelledNotAnswered == outcome' = "answered" /\ outcome # "answered" => ~cancelled

-----------------------------------------------------------------------------
(* What every step preserves *)

(* The clip in x.wav and what x.json holds are of this mark and this shift. *)
FilesOfThisClip ==
  /\ at \in {"clipped", "whisper", "verdict"} => wav = ThisClip
  /\ at = "whisper" => json = None
  /\ at = "verdict" /\ json # None => json.clip = ThisClip

(* One exit code for each shift tried. *)
CodesOfShifts ==
  /\ at \in {"check", "clip", "decode", "clipped", "whisper"} => Len(codes) = try - 1
  /\ at = "verdict" => Len(codes) = try
  /\ at \in {"identity", "last"} => codes = <<>>

(* Nothing begins before the marks are known to lie in the media, and the windows done *)
(* are those of the marks before this one.                                               *)
WindowsBefore ==
  /\ at \notin {"check", "over"} \/ windows # <<>> => \A i \in 1 .. Len(marks) : marks[i] <= duration
  /\ at \notin {"identity", "last", "over"} => Len(windows) = mark - 1
  /\ at \in {"identity", "last"} => Len(windows) = Len(marks)
  /\ Len(windows) <= Len(marks)

IInv ==
  /\ TypeOK /\ FilesOfThisClip /\ CodesOfShifts /\ WindowsBefore
  /\ WordsOfTheirClip /\ OneWindowPerMark

=============================================================================
