-------------------------------- MODULE MCEnds --------------------------------
(***************************************************************************)
(* What has to happen in the end, component by component, under the        *)
(* fairness each one's code justifies.                                     *)
(***************************************************************************)
EXTENDS SideBySide, Integers, FiniteSets, Sequences, TLC

CONSTANTS NoOne, Malformed

-----------------------------------------------------------------------------
(* A local job whose worker is interrupted, with failing calls and databases. *)
Local == INSTANCE LocalJobs WITH
  state <- s1, task <- s2, rows <- s3, pending <- s4, objects <- s5, upload <- s6, pc <- s7,
  pos <- s8, claimed <- s9, staged <- s10, outcome <- s11, previous <- s12, readers <- s13,
  Job <- {"j"}, SyncJob <- {}, Invocation <- {"e"}, JobOf <- "e" :> "j",
  Uploaded <- {"j"}, Video <- {}, Speech <- {}, SourceName <- "j" :> "talk.mp3",
  Formats <- "j" :> {"vtt", "text"}, NoKey <- Nothing,
  Faults <- {"error", "db_error", "interrupt"}

(* Two uploads whose requests may die, and maintenance. *)
Uploads == INSTANCE Staging WITH
  rows <- s1, objects <- s2, expiry <- s3, claim <- s4, finished <- s5, stage <- s6,
  listed <- s7, Upload <- {"u", "v"}, Job <- {1}, Unclaimed <- Nothing,
  Cleaner <- {"u", "v", "maintenance"}, CleanupLimit <- 1, Faults <- {"kill"}

(* A producer that repeats its DELETE while deletions fail half way. *)
Deletion == INSTANCE Retention WITH
  state <- s1, aged <- s2, leased <- s3, prefixes <- s4, rows <- s5, owner <- s6, old <- s7,
  pending <- s8, objects <- s9, at <- s10, todo <- s11,
  Job <- {"p"}, Profile <- {"p"}, Nobody <- Nothing,
  Attempt <- {"a"}, AttemptOf <- "a" :> "p", NoAttempt <- Nothing,
  Object <- {"o1", "o2", "up"}, Outside <- {},
  Below <- "o1" :> "a" @@ "o2" :> "a" @@ "up" :> Nothing,
  Row <- {"r", "u"}, Names <- "r" :> "o1" @@ "u" :> "up",
  Sort <- "r" :> "final" @@ "u" :> "upload", First <- "r" :> "p" @@ "u" :> "p",
  Caller <- {"c"}, Target <- "c" :> "p", Faults <- {"error", "half", "kill"}

(* Three artifacts in batches of one, the first of which cannot go. *)
Sweep == INSTANCE RetentionSweep WITH
  due <- s1, jobs <- s2, broken <- s3, saved <- s4, next <- s5, phase <- s6, batch <- s7,
  deleted <- s8, predicted <- s9, told <- s10, removed <- s11, kills <- s12,
  Row <- {1, 2, 3}, Phase <- <<"artifacts", "artifacts", "artifacts">>,
  Job <- {1, 2}, OwnerOf <- <<1, 2, 2>>, Refused <- {}, Stuck <- {1},
  BatchSize <- 1, MaxKills <- 1

(* One slot, a known-speaker call and one that cannot be cancelled. *)
Calls == INSTANCE InferenceRun WITH
  at <- s1, turn <- s2, cancelled <- s3, child <- s4, overdue <- s5, lock <- s6, refused <- s7,
  broke <- s8, request <- s9, Call <- {"c", "d"}, Asked <- {[c \in {"c", "d"} |-> "auto"]},
  Words <- {"c"}, Supported <- {"c"}, Cancellable <- {"c"}, SttBackend <- "mlx",
  Fallback <- "whisperkit", KnownSpeakerBackend <- "parakeet", Slots <- 1

(* One mark and all five shifts. *)
Windows == INSTANCE ChapterWindows WITH
  model <- s1, swaps <- s2, cancelled <- s3, marks <- s4, duration <- s5, at <- s6, mark <- s7,
  try <- s8, wav <- s9, json <- s10, codes <- s11, windows <- s12, outcome <- s13,
  MarkLists <- {<<620>>}, Durations <- {900}, Half <- 600,
  Shifts <- <<0, 7, -7, 19, -19>>, Swaps <- 1

(* A profile run with a mark, a shift, and up to one flagged window. *)
Profile == INSTANCE ProfileRun WITH
  model <- s1, swaps <- s2, cancelled <- s3, marks <- s4, duration <- s5, at <- s6, mark <- s7,
  try <- s8, wav <- s9, json <- s10, codes <- s11, windows <- s12, outcome <- s13,
  hasMarks <- s14, german <- s15, phase <- s16, grid <- s17, records <- s18, words <- s19,
  ended <- s20, late <- s21,
  MarkLists <- {<<620>>}, Durations <- {900}, Half <- 600,
  Shifts <- <<0>>, Swaps <- 1, Grids <- {<<>>, <<FALSE, TRUE>>}

(* A connection of two events. *)
Sidecar == INSTANCE Wyoming WITH
  phase <- s1, client <- s2, cancelled <- s3, held <- s4, buffer <- s5, language <- s6,
  using <- s7, frames <- s8, temps <- s9, sent <- s10, count <- s11, heard <- s12,
  Lengths <- {0, 2}, MaxData <- 2, MaxPayload <- 2, MaxAudio <- 4, MaxChars <- 0,
  Widening <- {1}, MaxSpeech <- 2, FramesPerChunk <- 2, MaxEvents <- 2

(* Two requests for speech in two languages. *)
Synthesis == INSTANCE Speech WITH
  kind <- s1, at <- s2, phonemes <- s3, exports <- s4, files <- s5, whole <- s6, answer <- s7,
  espeak <- s8, phonemizer <- s9, inference <- s10,
  Requests <- {"r", "q"}, Languages <- {"de"}, MaxSentences <- 1,
  FormatLists <- {<<"ogg">>}

(* Two requests for one Kokoro voice whose files come and go. *)
Session == [cache |-> "session", parts |-> <<"model">>, key |-> ""]
Pack == [cache |-> "voicepack", parts |-> <<"pack">>, key |-> "de"]
Voices == INSTANCE VoiceCache WITH
  file <- s1, here <- s2, cache <- s3, owner <- s4, at <- s5, todo <- s6, identity <- s7,
  made <- s8, got <- s9, present <- s10,
  Requests <- {"r", "q"}, Files <- {"model", "pack"}, Loads <- {Session, Pack},
  Plans <- {<<Session, Pack>>}, CacheLimit <- 2, MaxVersion <- 1

(* A fetch with one redirect, and another side that keeps silent. *)
Fetching == INSTANCE MediaFetch WITH
  at <- s1, source <- s2, url <- s3, hops <- s4, found <- s5, peer <- s6, expected <- s7,
  total <- s8, temps <- s9, spent <- s10, try <- s11, failure <- s12,
  Urls <- {"site", "lan", "elsewhere"}, AllowedUrls <- {"site", "lan"},
  PrivateUrls <- {"lan"}, MaxRedirects <- 1, MaxBytes <- 2, Lengths <- {Nothing, 1, 2},
  Unknown <- Nothing, Budget <- 2, Attempts <- 2

(* A job only one of two workers can run: with fair share on, the other is its peer *)
(* all the same.                                                                     *)
FairShare == INSTANCE RemoteLease WITH
  state <- s1, assigned <- s2, token <- s3, attempts <- s4, lease <- s5, beaten <- s6,
  started <- s7, result <- s8, upload <- s9, refused <- s10, enabled <- s11, seen <- s12,
  objects <- s13, phase <- s14, onJob <- s15, onToken <- s16, lost <- s17, scan <- s18,
  scanAge <- s19, beats <- s20, mail <- s21,
  Job <- {1}, Worker <- {"w", "x"}, NoWorker <- Nothing, MaxAttempts <- 2,
  Concurrency <- 1, LeaseTicks <- 1, StaleTicks <- 0, Balance <- TRUE, WindowTicks <- 1,
  FreshTicks <- 1, Capable <- "w" :> {1} @@ "x" :> {}, Faults <- {"crash"}

-----------------------------------------------------------------------------
ASSUME InstancesAssumption ==
  /\ Local!LocalJobsAssumption /\ Uploads!StagingAssumption /\ Deletion!RetentionAssumption
  /\ Sweep!SweepAssumption /\ Calls!InferenceAssumption /\ Windows!WindowAssumption
  /\ Profile!Chapter!WindowAssumption /\ Profile!GridAssumption /\ Sidecar!WyomingAssumption
  /\ Voices!CacheAssumption /\ Synthesis!SpeechAssumption /\ Fetching!FetchAssumption

Init ==
  \/ Launch("local", 13, Local!Init)
  \/ Launch("uploads", 7, Uploads!StagingInit)
  \/ Launch("deletion", 11, Deletion!Init)
  \/ Launch("sweep", 12, Sweep!Init)
  \/ Launch("calls", 9, Calls!Init)
  \/ Launch("windows", 13, Windows!Init)
  \/ Launch("profile", 21, Profile!Init)
  \/ Launch("sidecar", 12, Sidecar!Init)
  \/ Launch("synthesis", 10, Synthesis!Init)
  \/ Launch("voices", 10, Voices!Init)
  \/ Launch("fetching", 12, Fetching!Init)
  \/ Launch("fair_share", 21, FairShare!Init)

Next ==
  \/ Step("local", 13, Local!Next)
  \/ Step("uploads", 7, Uploads!StagingNext)
  \/ Step("deletion", 11, Deletion!Next)
  \/ Step("sweep", 12, Sweep!Next)
  \/ Step("calls", 9, Calls!Next)
  \/ Step("windows", 13, Windows!Next)
  \/ Step("profile", 21, Profile!Next)
  \/ Step("sidecar", 12, Sidecar!Next)
  \/ Step("synthesis", 10, Synthesis!Next)
  \/ Step("voices", 10, Voices!Next)
  \/ Step("fetching", 12, Fetching!Next)
  \/ Step("fair_share", 21, FairShare!Next)

(***************************************************************************)
(* Fairness.  Components never run side by side, so one condition covers a *)
(* step of each: only the step of the component that runs is ever enabled. *)
(***************************************************************************)

(* The one command a worker is at. *)
Polls(w) ==
  \/ FairShare!StartClaim(w) \/ FairShare!TurnAway(w) \/ FairShare!Claim(w)
  \/ FairShare!ClaimNothing(w) \/ FairShare!ClaimAgain(w) \/ FairShare!StartUpload(w)
  \/ FairShare!EndUpload(w) \/ FairShare!SendComplete(w) \/ FairShare!Abandon(w)
  \/ FairShare!TimeOut(w)

(* Threads, tasks and commands that were started go on, time passes, and maintenance *)
(* is run again and again; nothing says that a process survives.                      *)
Own ==
  \/ Step("local", 13, Local!Step("e"))
  \/ Step("uploads", 7, Uploads!StagingStep("u") /\ s6'["u"] # s6["u"])
  \/ Step("deletion", 11, Deletion!Call("c") /\ s10["c"] = "retry")
  \/ Step("sweep", 12, Sweep!Run)
  \/ Step("calls", 9, Calls!Progress("c"))
  \/ Step("windows", 13, Windows!Step)
  \/ Step("profile", 21, Profile!Step)
  \/ Step("sidecar", 12, Sidecar!Serve)
  \/ Step("synthesis", 10, Synthesis!Steps("r"))
  \/ Step("voices", 10, Voices!Steps("r"))
  \/ Step("fetching", 12, Fetching!Own)
  \/ Step("fair_share", 21, Polls("w"))

Other ==
  \/ Step("local", 13, Local!Deliver("e"))
  \/ Step("uploads", 7, Uploads!StagingStep("v") /\ s6'["v"] # s6["v"])
  \/ Step("calls", 9, Calls!Progress("d"))
  \/ Step("synthesis", 10, Synthesis!Steps("q"))
  \/ Step("voices", 10, Voices!Steps("q"))
  \/ Step("fetching", 12, Fetching!Tick)
  \/ Step("fair_share", 21, Polls("x"))

(* A producer looks at its job, time limits are reached, uploads expire. *)
Later ==
  \/ Step("local", 13, Local!Poll("j"))
  \/ Step("uploads", 7, Uploads!Lapse("u"))
  \/ Step("calls", 9, Calls!RunOver("c"))
  \/ Step("fair_share", 21, FairShare!Report("w"))

LaterStill ==
  \/ Step("uploads", 7, Uploads!Lapse("v"))
  \/ Step("calls", 9, Calls!RunOver("d"))
  \/ Step("fair_share", 21, FairShare!Report("x"))

(* Who waits for a lock or a place that is free again and again gets it in the end; a  *)
(* step of a repeated DELETE or of maintenance does not fail for ever.                  *)
Places == <<"artifacts", "pending", "prefixes", "staged", "finish">>

Deleting ==
  \/ \E r \in {"r", "u"} : Deletion!DeleteRow("c", r) \/ Deletion!DeletePending("c", r)
  \/ Deletion!DeletePrefix("c", "a") \/ Deletion!Go("c") \/ Deletion!FinishDelete("c")

Waiting(i) ==
  \/ Step("deletion", 11, s10["c"] = Places[i] /\ Deleting)
  \/ i = 1 /\ Step("fair_share", 21, FairShare!Tick)
  \/ /\ i \in {2, 3}
     /\ Step("fair_share", 21, \E b \in FairShare!Beat : b.token = i - 1 /\ FairShare!EndBeat(b))
  \/ /\ i \in {1, 2}
     /\ LET u == <<"u", "v">>[i]
            c == <<"c", "d">>[i]
            r == <<"r", "q">>[i] IN
        \/ Step("uploads", 7, Uploads!Clean("maintenance") /\ u \in s7'["maintenance"])
        \/ Step("calls", 9, Calls!Admit(c) \/ Calls!TakeLock(c))
        \/ Step("voices", 10, Voices!Acquire(r))
        \/ Step("synthesis", 10, Synthesis!Switch(r) \/ Synthesis!KokoroInfer(r)
                                   \/ Synthesis!PiperWrite(r))

Fairness ==
  /\ WF_all(Own) /\ WF_all(Other) /\ WF_all(Later) /\ WF_all(LaterStill)
  /\ \A prior \in {"queued", "running"} : WF_all(Step("local", 13, Local!Resolve("j", prior)))
  /\ \A c \in {"u", "v", "maintenance"}, u \in {"u", "v"} :
       WF_all(Step("uploads", 7, Uploads!CleanOne(c, u)))
  /\ WF_all(Step("uploads", 7, Uploads!Finish(1)))
  /\ \A i \in 1 .. 5 : SF_all(Waiting(i))

Spec == Init /\ [][Next]_all /\ Fairness

-----------------------------------------------------------------------------
(* Properties *)

(* The i-th thing the component that runs owes, and that it has been done. *)
Owed(i) ==
  CASE running = "local" -> i = 1
    [] running = "uploads" -> Uploads!Lost(<<"u", "v">>[i])
    [] running = "deletion" -> i = 1 /\ s10["c"] \in Deletion!Steps
    [] running = "sweep" -> (i = 1 /\ 3 \in s1) \/ (i = 2 /\ Sweep!Empty(2))
    [] running = "calls" -> Calls!MustEnd(<<"c", "d">>[i])
    [] running = "sidecar" -> i = 1 /\ s1 = "transcribing"
    [] running \in {"voices", "synthesis"} -> TRUE
    [] running \in {"windows", "profile", "fetching", "fair_share"} -> i = 1

Done(i) ==
  CASE running = "local" -> s1["j"] \in Local!Settled
    [] running = "uploads" -> <<"u", "v">>[i] \notin s2
    [] running = "deletion" -> s1["p"] = "gone"
    [] running = "sweep" -> (i = 1 /\ 3 \in s11) \/ (i = 2 /\ 2 \notin s2)
    [] running = "calls" -> s1[<<"c", "d">>[i]] \in Calls!Ends
    [] running = "windows" -> s13 # "running"
    [] running = "profile" -> s20 # "running"
    [] running = "sidecar" -> s1 = "closed" /\ "stt" \notin s9
    [] running = "synthesis" -> Synthesis!Over(<<"r", "q">>[i])
    [] running = "voices" -> s5[<<"r", "q">>[i]] \in {"speak", "failed"}
    [] running = "fetching" -> s1 \in {"ready", "failed"}
    [] running = "fair_share" -> s1[1] \notin FairShare!Open

(* Whatever fails, is interrupted or kept waiting: a job is settled, what a dead      *)
(* request stored is removed, a repeated DELETE comes to an end, no row that cannot   *)
(* go keeps the sweep from the last one (and its job goes with it), a job one of two  *)
(* workers can run is not left to its peer, and cancelled calls, profile runs,        *)
(* requests for a voice or for speech, sidecar requests and fetches end.              *)
EverythingEnds == \A i \in {1, 2} : Owed(i) ~> Done(i)

=============================================================================
