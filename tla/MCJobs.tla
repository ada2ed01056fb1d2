------------------------------- MODULE MCJobs -------------------------------
(***************************************************************************)
(* The life of a job and of its files in the control plane: its request,   *)
(* its submission, its staged upload, its local execution and the capacity *)
(* of the workers that lease it.                                           *)
(***************************************************************************)
EXTENDS SideBySide, FiniteSets, Sequences, TLC

CONSTANTS Absent, Null, NegZero

-----------------------------------------------------------------------------
(* Local execution *)

(* One video job of an upload, its task delivered twice; everything may fail.  The input *)
(* has the name of the audio extracted from it.                                          *)
Replay == INSTANCE LocalJobsProofs WITH
  state <- s1, task <- s2, rows <- s3, pending <- s4, objects <- s5, upload <- s6, pc <- s7,
  pos <- s8, claimed <- s9, staged <- s10, outcome <- s11, previous <- s12, readers <- s13,
  Job <- {"j"}, SyncJob <- {}, Invocation <- {"d", "e"}, JobOf <- [e \in {"d", "e"} |-> "j"],
  Uploaded <- {"j"}, Video <- {"j"}, Speech <- {},
  SourceName <- [j \in {"j"} |-> "extracted-audio.wav"],
  Formats <- [j \in {"j"} |-> {"vtt", "text"}], NoKey <- Nothing,
  Faults <- {"error", "db_error", "replay", "interrupt", "kill"}

(* A video, a synchronous job and a synthesis; calls fail, and every process lives on. *)
ThreeJobs == {"video", "sync", "speech"}
Trio == INSTANCE LocalJobsProofs WITH
  state <- s1, task <- s2, rows <- s3, pending <- s4, objects <- s5, upload <- s6, pc <- s7,
  pos <- s8, claimed <- s9, staged <- s10, outcome <- s11, previous <- s12, readers <- s13,
  Job <- ThreeJobs, SyncJob <- {"sync"}, Invocation <- ThreeJobs,
  JobOf <- [j \in ThreeJobs |-> j],
  Uploaded <- {}, Video <- {"video"}, Speech <- {"speech"},
  SourceName <- [j \in ThreeJobs |-> "extracted-audio.wav"],
  Formats <- [j \in ThreeJobs |-> IF j = "speech" THEN {"mp3", "wav"} ELSE {"text"}],
  NoKey <- Nothing, Faults <- {"error"}

-----------------------------------------------------------------------------
(* Staged uploads *)

(* Uploads that outlast their in-progress expiry, and a store that refuses calls; *)
(* nobody submits a job.                                                           *)
Slow == INSTANCE SubmissionProofs WITH
  rows <- s1, objects <- s2, expiry <- s3, claim <- s4, finished <- s5, stage <- s6,
  listed <- s7, state <- s8, key <- s9, lapsed <- s10, releasing <- s11, at <- s12,
  found <- s13, attempt <- s14, reason <- s15, answer <- s16,
  Upload <- {"u", "v"}, Job <- {1}, Unclaimed <- Nothing,
  Cleaner <- {"u", "v", "maintenance"}, CleanupLimit <- 1, Faults <- {"error", "slow"},
  Submitter <- {}, Ref <- <<>>, NoRef <- Nothing, Input <- <<>>, NoUpload <- Nothing,
  NoJob <- Nothing, RemotePull <- TRUE

(* Processes that die anywhere, and failing stores and databases. *)
Crash == INSTANCE SubmissionProofs WITH
  rows <- s1, objects <- s2, expiry <- s3, claim <- s4, finished <- s5, stage <- s6,
  listed <- s7, state <- s8, key <- s9, lapsed <- s10, releasing <- s11, at <- s12,
  found <- s13, attempt <- s14, reason <- s15, answer <- s16,
  Upload <- {"u", "v"}, Job <- {1}, Unclaimed <- Nothing,
  Cleaner <- {"u", "v", "maintenance"}, CleanupLimit <- 1,
  Faults <- {"error", "db_error", "kill"},
  Submitter <- {}, Ref <- <<>>, NoRef <- Nothing, Input <- <<>>, NoUpload <- Nothing,
  NoJob <- Nothing, RemotePull <- TRUE

-----------------------------------------------------------------------------
(* Submissions *)

Submitters == {"a", "b", "c"}

(* Two submissions of one request and a third for the same upload with no task_ref. *)
Remote == INSTANCE SubmissionProofs WITH
  rows <- s1, objects <- s2, expiry <- s3, claim <- s4, finished <- s5, stage <- s6,
  listed <- s7, state <- s8, key <- s9, lapsed <- s10, releasing <- s11, at <- s12,
  found <- s13, attempt <- s14, reason <- s15, answer <- s16,
  Upload <- {"u"}, Job <- 1 .. 3, Unclaimed <- Nothing, Cleaner <- {"u"} \cup Submitters,
  CleanupLimit <- 1, Faults <- {"error", "kill"}, Submitter <- Submitters,
  Ref <- "a" :> "r" @@ "b" :> "r" @@ "c" :> Nothing, NoRef <- Nothing,
  Input <- [s \in Submitters |-> "u"], NoUpload <- Nothing, NoJob <- Nothing,
  RemotePull <- TRUE

Local == INSTANCE SubmissionProofs WITH
  rows <- s1, objects <- s2, expiry <- s3, claim <- s4, finished <- s5, stage <- s6,
  listed <- s7, state <- s8, key <- s9, lapsed <- s10, releasing <- s11, at <- s12,
  found <- s13, attempt <- s14, reason <- s15, answer <- s16,
  Upload <- {"u"}, Job <- 1 .. 3, Unclaimed <- Nothing, Cleaner <- {"u"} \cup Submitters,
  CleanupLimit <- 1, Faults <- {"error", "kill"}, Submitter <- Submitters,
  Ref <- "a" :> "r" @@ "b" :> "r" @@ "c" :> Nothing, NoRef <- Nothing,
  Input <- [s \in Submitters |-> "u"], NoUpload <- Nothing, NoJob <- Nothing,
  RemotePull <- FALSE

(* Three submissions of one request race for the unique constraint while jobs fail. *)
Race == INSTANCE SubmissionProofs WITH
  rows <- s1, objects <- s2, expiry <- s3, claim <- s4, finished <- s5, stage <- s6,
  listed <- s7, state <- s8, key <- s9, lapsed <- s10, releasing <- s11, at <- s12,
  found <- s13, attempt <- s14, reason <- s15, answer <- s16,
  Upload <- {}, Job <- 1 .. 3, Unclaimed <- Nothing, Cleaner <- Submitters,
  CleanupLimit <- 1, Faults <- {}, Submitter <- Submitters,
  Ref <- [s \in Submitters |-> "r"], NoRef <- Nothing,
  Input <- [s \in Submitters |-> Nothing], NoUpload <- Nothing, NoJob <- Nothing,
  RemotePull <- TRUE

-----------------------------------------------------------------------------
(* Requests: every combination of a few fields at a time; no negative zero. *)

Url == [kind |-> "url", name |-> "a"]
Inputs == {Url, [kind |-> "upload", name |-> "a"], [kind |-> "upload", name |-> "b"],
           [kind |-> "url", name |-> ""], [kind |-> "text", name |-> "a"]}

NoOptions == [enabled |-> TRUE, num |-> Absent, min |-> Absent, max |-> Absent,
              strategy |-> Absent, people |-> Absent, config |-> Absent]

Person(name, range) == [id |-> name, name |-> name, range |-> range]

Base == [type |-> "transcribe", common |-> "good", profile |-> Absent, model |-> Absent,
         language |-> Absent, hint |-> Absent, marks |-> Absent, input |-> Url,
         formats |-> Absent, diarization |-> Absent, speed |-> Absent]

Engines ==
  {[Base EXCEPT !.profile = profile, !.model = model, !.language = language, !.hint = hint,
                !.marks = marks, !.diarization = d] :
     profile \in {Absent, " ", "ad-analysis-v1", "other"}, model \in {Absent, "auto", "whisper-1", "x"},
     language \in {Absent, " ", "de"}, hint \in {Absent, "de", "xx"},
     marks \in {Absent, Null, <<>>, <<0, 3>>, <<1, 1>>, <<2>>}, d \in {Absent, NoOptions}}

Outputs ==
  {[Base EXCEPT !.input = input, !.formats = formats, !.diarization = d] :
     input \in Inputs,
     formats \in {Absent, <<>>, <<"json", "text">>, <<"vtt">>, <<"webvtt", "vtt">>, <<"x">>},
     d \in {Absent, Null, [NoOptions EXCEPT !.enabled = FALSE], NoOptions}}

Counted ==
  {[Base EXCEPT !.diarization = [NoOptions EXCEPT !.num = a, !.min = b, !.max = c]] :
     a \in {Absent, 0, 2}, b \in {Absent, Null, 2}, c \in {Absent, 1, 2}}

Known(numbers) ==
  {[Base EXCEPT !.diarization = [NoOptions EXCEPT
      !.strategy = strategy, !.people = people, !.config = config]] :
     strategy \in {Absent, "known_speaker"},
     people \in {Absent, <<>>, <<Person("a", <<>>)>>, <<Person("a", <<>>), Person("a", <<>>)>>}
                \cup {<<Person("a", <<from, to>>)>> : from, to \in numbers},
     config \in {Absent} \cup numbers}

Speech ==
  {[Base EXCEPT !.type = "synthesize", !.input = input, !.marks = marks, !.speed = speed] :
     input \in Inputs, marks \in {Absent, Null, <<0>>}, speed \in {Absent, 1, 9}}

Payloads == Engines \cup Outputs \cup Counted \cup Known({0, 1, 2}) \cup Speech

Requests == INSTANCE JobRequests WITH
  first <- s1, row <- s2, second <- s3, outcome <- s4,
  Payload <- Payloads, NoRow <- Nothing

-----------------------------------------------------------------------------
(* Remote workers *)

(* Two jobs and two workers; processes crash and replies are lost. *)
Lease == INSTANCE RemoteLeaseProofs WITH
  state <- s1, assigned <- s2, token <- s3, attempts <- s4, lease <- s5, beaten <- s6,
  started <- s7, result <- s8, upload <- s9, refused <- s10, enabled <- s11, seen <- s12,
  objects <- s13, phase <- s14, onJob <- s15, onToken <- s16, lost <- s17, scan <- s18,
  scanAge <- s19, beats <- s20, mail <- s21,
  Job <- {1, 2}, Worker <- {"w", "x"}, NoWorker <- Nothing, MaxAttempts <- 1,
  Concurrency <- 1, LeaseTicks <- 1, StaleTicks <- 0, Balance <- FALSE, WindowTicks <- 0,
  FreshTicks <- 0, Capable <- [w \in {"w", "x"} |-> {1, 2}], Faults <- {"crash", "lost_reply"}

-----------------------------------------------------------------------------
ASSUME InstancesAssumption ==
  /\ Replay!LocalJobsAssumption /\ Trio!LocalJobsAssumption
  /\ Slow!StagingAssumption /\ Crash!StagingAssumption
  /\ Remote!SubmissionAssumption /\ Local!SubmissionAssumption /\ Race!SubmissionAssumption
  /\ Lease!RemoteLeaseAssumption

Init ==
  \/ Launch("replay", 13, Replay!Init)
  \/ Launch("trio", 13, Trio!Init)
  \/ Launch("slow", 7, Slow!StagingInit)
  \/ Launch("crash", 7, Crash!StagingInit)
  \/ Launch("remote", 16, Remote!Init)
  \/ Launch("local", 16, Local!Init)
  \/ Launch("race", 16, Race!Init)
  \/ Launch("requests", 4, Requests!Init)
  \/ Launch("lease", 21, Lease!Init)

Next ==
  \/ Step("replay", 13, Replay!Next)
  \/ Step("trio", 13, Trio!Next)
  \/ Step("slow", 7, Slow!StagingNext)
  \/ Step("crash", 7, Crash!StagingNext)
  \/ Step("remote", 16, Remote!Next)
  \/ Step("local", 16, Local!Next)
  \/ Step("race", 16, Race!Next)
  \/ Step("requests", 4, Requests!Next)
  \/ Step("lease", 21, Lease!Next)

Spec == Init /\ [][Next]_all

-----------------------------------------------------------------------------
(* Properties *)

(* What the rows of a job say is so: a job that succeeded has every format it was *)
(* asked for, the object of every row is in the store, and an unfinished job has  *)
(* its upload until its copy is published (execute_transcription_job,             *)
(* replace_artifact, delete_staged_media).                                        *)
RowsTellTheTruth ==
  running = "replay" =>
    /\ Replay!TypeOK
    /\ Replay!SucceededIsComplete
    /\ Replay!RowsHaveObjects
    /\ Replay!UploadKeptUntilCopied

(* Local execution keeps the promise of JobLifecycle, and nothing changes what a  *)
(* producer was told of a settled job (mark_job_*, the fence, reconciliation).    *)
LocalJobsSettleOnce ==
  /\ running = "replay" => Replay!Lifecycle!Init
  /\ [][running = "replay" => Replay!LifecycleStep /\ Replay!SettledIsFinal]_all

(* Every stored object can be found by someone who will remove it: a row names    *)
(* it, it is queued for deletion, or its request is about to settle its fate      *)
(* (publish and discard of an execution, stage_uploaded_audio).  And no row of an *)
(* upload that could be submitted is left without its object.                     *)
ObjectsFindable ==
  /\ running = "trio" => Trio!UnnamedObjectsAccountedFor
  /\ running = "slow" => Slow!StagingTypeOK /\ Slow!ObjectsFindable
  /\ running = "crash" => Crash!ObjectsFindable /\ Crash!SubmittableUploadsComplete

(* A job keeps the upload it claimed, row and object, through cleanups, lapses    *)
(* and other submissions, and a submission is not turned away because its own job *)
(* has taken the upload (cleanup_expired_staged_media, insert_batch_job).         *)
UploadsServeTheirJobs ==
  [][/\ running = "slow" => Slow!BusyUploadsKept
     /\ running = "remote" => Remote!JobKeepsUpload /\ Remote!NoFalseRefusal
     /\ running = "local" => Local!JobKeepsUpload]_all

(* Submissions of one request that race are told of one live job; one of them     *)
(* gives up only after two winners failed before it could find them               *)
(* (TASK_REF_CREATE_ATTEMPTS, the unique constraint).                             *)
OneAnswerPerRequest ==
  running = "race" =>
    Race!OneLiveJobPerRequest /\ Race!SameAnswerWhileAlive /\ Race!GivesUpAfterTwoFailures

(* Repeating a submission finds the job it created, and a job is reused exactly   *)
(* when the unique constraint would refuse another one beside it; marks are never *)
(* dropped on the way (existing_job_matches_request, fingerprints.py).            *)
RepetitionIsFound ==
  running = "requests" =>
    /\ Requests!TypeOK
    /\ Requests!ReuseAgreesWithConstraint
    /\ Requests!RepetitionIsFound
    /\ Requests!MarksNeverDropped

(* No worker holds more leases in force than its capacity, whatever it forgets or *)
(* never hears of (worker_has_claim_capacity).                                    *)
LeasesWithinCapacity == running = "lease" => Lease!LeasesWithinCapacity

=============================================================================
