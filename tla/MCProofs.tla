------------------------------ MODULE MCProofs ------------------------------
(***************************************************************************)
(* The properties of runs JobsAndFiles and Deletion, from the              *)
(* theorems about the components for every value of their constants: the   *)
(* hypotheses of those theorems hold of the instances that the runs check, *)
(* and components that lie side by side do not disturb each other.         *)
(***************************************************************************)
EXTENDS MCJobs, MCDeletion, TLAPS

-----------------------------------------------------------------------------
(* A step of all is one of the component that runs                         *)

LEMMA ReplayRuns ==
  ASSUME [Next]_all, running' = "replay"
  PROVE  running = "replay" /\ [Replay!Next]_(Replay!vars)
  BY DEF Next, Step, all, slots, Replay!vars, Replay!jobVars, Replay!storeVars, Replay!execVars

LEMMA TrioRuns ==
  ASSUME [Next]_all, running' = "trio"
  PROVE  running = "trio" /\ [Trio!Next]_(Trio!vars)
  BY DEF Next, Step, all, slots, Trio!vars, Trio!jobVars, Trio!storeVars, Trio!execVars

LEMMA SlowRuns ==
  ASSUME [Next]_all, running' = "slow"
  PROVE  running = "slow" /\ [Slow!StagingNext]_(Slow!stagingVars)
  BY DEF Next, Step, all, slots, Slow!stagingVars, Slow!uploadVars

LEMMA CrashRuns ==
  ASSUME [Next]_all, running' = "crash"
  PROVE  running = "crash" /\ [Crash!StagingNext]_(Crash!stagingVars)
  BY DEF Next, Step, all, slots, Crash!stagingVars, Crash!uploadVars

LEMMA RemoteRuns ==
  ASSUME [Next]_all, running' = "remote"
  PROVE  running = "remote" /\ [Remote!Next]_(Remote!vars)
  BY DEF Next, Step, all, slots, Remote!vars, Remote!stagingVars, Remote!uploadVars, Remote!jobVars,
         Remote!submitVars

LEMMA LocalRuns ==
  ASSUME [Next]_all, running' = "local"
  PROVE  running = "local" /\ [Local!Next]_(Local!vars)
  BY DEF Next, Step, all, slots, Local!vars, Local!stagingVars, Local!uploadVars, Local!jobVars,
         Local!submitVars

LEMMA RaceRuns ==
  ASSUME [Next]_all, running' = "race"
  PROVE  running = "race" /\ [Race!Next]_(Race!vars)
  BY DEF Next, Step, all, slots, Race!vars, Race!stagingVars, Race!uploadVars, Race!jobVars, Race!submitVars

LEMMA LeaseRuns ==
  ASSUME [Next]_all, running' = "lease"
  PROVE  running = "lease" /\ [Lease!Next]_(Lease!vars)
  BY DEF Next, Step, all, slots, Lease!vars, Lease!rows, Lease!workerRows, Lease!processes, Lease!requests

-----------------------------------------------------------------------------

RaceInv == running = "race" => Race!Sound /\ Race!Racing

(* In the race for the unique constraint, submissions are told of one live *)
(* job and do not give up early.                                           *)
THEOREM OneAnswerInRace == Spec => []OneAnswerPerRequest
<1>1. Race!SubmissionAssumption
  BY InstancesAssumption
<1>2. Init => RaceInv
  BY <1>1, Race!SoundInit, Race!RacingInit DEF Init, Launch, RaceInv
<1>3. RaceInv /\ [Next]_all => RaceInv'
  <2> SUFFICES ASSUME RaceInv, [Next]_all, running' = "race" PROVE Race!Sound' /\ Race!Racing'
    BY DEF RaceInv
  <2>1. running = "race" /\ [Race!Next]_(Race!vars)
    BY RaceRuns
  <2>. QED  BY <1>1, <2>1, Race!SoundNext, Race!RacingNext DEF RaceInv
<1>4. RaceInv => OneAnswerPerRequest
  BY <1>1, Race!SoundAnswers, Race!RacingGivesUp DEF RaceInv, OneAnswerPerRequest, Race!Sound
<1>. QED  BY <1>2, <1>3, <1>4, PTL DEF Spec

LeaseInv == running = "lease" => Lease!IInv /\ Lease!LeasesWithinCapacity

(* No worker holds more leases in force than its capacity. *)
THEOREM CapacityWhateverIsLost == Spec => []LeasesWithinCapacity
<1>1. Lease!RemoteLeaseAssumption
  BY InstancesAssumption
<1>2. Init => LeaseInv
  BY <1>1, Lease!InitOK, Lease!InitCapacity DEF Init, Launch, LeaseInv
<1>3. LeaseInv /\ [Next]_all => LeaseInv'
  <2> SUFFICES ASSUME LeaseInv, [Next]_all, running' = "lease" PROVE Lease!IInv' /\ Lease!LeasesWithinCapacity'
    BY DEF LeaseInv
  <2>1. running = "lease" /\ [Lease!Next]_(Lease!vars)
    BY LeaseRuns
  <2>. QED  BY <1>1, <2>1, Lease!NextOK, Lease!NextCapacity DEF LeaseInv
<1>4. LeaseInv => LeasesWithinCapacity
  BY DEF LeaseInv, LeasesWithinCapacity
<1>. QED  BY <1>2, <1>3, <1>4, PTL DEF Spec

-----------------------------------------------------------------------------
(* Local execution *)

ReplayInv == running = "replay" => Replay!IInv
TrioInv == running = "trio" => Trio!IInv

LEMMA ReplayAlways == Spec => []ReplayInv
<1>1. Replay!LocalJobsAssumption
  BY InstancesAssumption
<1>2. Init => ReplayInv
  BY <1>1, Replay!InitIInv DEF Init, Launch, ReplayInv
<1>3. ReplayInv /\ [Next]_all => ReplayInv'
  BY <1>1, ReplayRuns, Replay!NextIInv DEF ReplayInv
<1>. QED  BY <1>2, <1>3, PTL DEF Spec

LEMMA TrioAlways == Spec => []TrioInv
<1>1. Trio!LocalJobsAssumption
  BY InstancesAssumption
<1>2. Init => TrioInv
  BY <1>1, Trio!InitIInv DEF Init, Launch, TrioInv
<1>3. TrioInv /\ [Next]_all => TrioInv'
  BY <1>1, TrioRuns, Trio!NextIInv DEF TrioInv
<1>. QED  BY <1>2, <1>3, PTL DEF Spec

(* What the rows of a job say is so, however often its task is delivered    *)
(* and wherever an execution dies (execute_transcription_job).              *)
THEOREM RowsAreTrue == Spec => []RowsTellTheTruth
<1>1. ReplayInv => RowsTellTheTruth
  BY DEF ReplayInv, RowsTellTheTruth, Replay!IInv, Replay!Shape
<1>. QED  BY <1>1, ReplayAlways, PTL

(* Local execution keeps the promise of JobLifecycle and settles a job once *)
(* (mark_job_*, reconcile_job_state).                                       *)
THEOREM LocalJobsKeepTheirWord == Spec => LocalJobsSettleOnce
<1>1. Replay!LocalJobsAssumption
  BY InstancesAssumption
<1>2. Init => (running = "replay" => Replay!Lifecycle!Init)
  BY <1>1, Replay!LifecycleStart DEF Init, Launch
<1>3. ReplayInv /\ [Next]_all => [running = "replay" => Replay!LifecycleStep /\ Replay!SettledIsFinal]_all
  <2> SUFFICES ASSUME ReplayInv, [Next]_all, running = "replay"
               PROVE  Replay!LifecycleStep /\ Replay!SettledIsFinal
    OBVIOUS
  <2>1. running' = "replay"
    BY DEF Next, Step, all
  <2>2. Replay!IInv /\ [Replay!Next]_(Replay!vars)
    BY <2>1, ReplayRuns DEF ReplayInv
  <2>3. Replay!LifecycleStep
    BY <1>1, <2>2, Replay!LifecycleNext DEF Replay!LifecycleStep, Replay!IInv
  <2>4. Replay!SettledIsFinal
    BY <1>1, <2>2, Replay!NextSettled DEF Replay!IInv
  <2>. QED  BY <2>3, <2>4
<1>. QED  BY <1>2, <1>3, ReplayAlways, PTL DEF Spec, LocalJobsSettleOnce

-----------------------------------------------------------------------------
(* Staged uploads *)

SlowInv == running = "slow" => Slow!StagingInv
CrashInv == running = "crash" => Crash!StagingInv

LEMMA SlowAlways == Spec => []SlowInv
<1>1. Slow!StagingAssumption /\ Slow!Steady
  BY InstancesAssumption DEF Slow!Steady
<1>2. Init => SlowInv
  BY <1>1, Slow!StagingInvInit DEF Init, Launch, SlowInv
<1>3. SlowInv /\ [Next]_all => SlowInv'
  BY <1>1, SlowRuns, Slow!StagingInvNext DEF SlowInv
<1>. QED  BY <1>2, <1>3, PTL DEF Spec

LEMMA CrashAlways == Spec => []CrashInv
<1>1. Crash!StagingAssumption /\ Crash!Steady
  BY InstancesAssumption DEF Crash!Steady
<1>2. Init => CrashInv
  BY <1>1, Crash!StagingInvInit DEF Init, Launch, CrashInv
<1>3. CrashInv /\ [Next]_all => CrashInv'
  BY <1>1, CrashRuns, Crash!StagingInvNext DEF CrashInv
<1>. QED  BY <1>2, <1>3, PTL DEF Spec

(* Every stored object can be found by someone who will remove it (publish  *)
(* and discard of an execution, stage_uploaded_audio).                      *)
THEOREM NothingIsLost == Spec => []ObjectsFindable
<1>1. TrioInv /\ SlowInv /\ CrashInv => ObjectsFindable
  BY Crash!SubmittableHasObject
  DEF TrioInv, SlowInv, CrashInv, ObjectsFindable, Trio!IInv, Slow!StagingInv, Crash!StagingInv
<1>. QED  BY <1>1, TrioAlways, SlowAlways, CrashAlways, PTL

-----------------------------------------------------------------------------
(* Submissions of one upload *)

RemoteInv == running = "remote" => Remote!Sound /\ Remote!Backed
LocalInv == running = "local" => Local!Sound /\ Local!Backed

LEMMA RemoteAlways == Spec => []RemoteInv
<1>1. Remote!SubmissionAssumption
  BY InstancesAssumption
<1>2. Init => RemoteInv
  BY <1>1, Remote!SoundInit, Remote!BackedInit DEF Init, Launch, RemoteInv
<1>3. RemoteInv /\ [Next]_all => RemoteInv'
  BY <1>1, RemoteRuns, Remote!SoundNext, Remote!BackedNext DEF RemoteInv
<1>. QED  BY <1>2, <1>3, PTL DEF Spec

LEMMA LocalAlways == Spec => []LocalInv
<1>1. Local!SubmissionAssumption
  BY InstancesAssumption
<1>2. Init => LocalInv
  BY <1>1, Local!SoundInit, Local!BackedInit DEF Init, Launch, LocalInv
<1>3. LocalInv /\ [Next]_all => LocalInv'
  BY <1>1, LocalRuns, Local!SoundNext, Local!BackedNext DEF LocalInv
<1>. QED  BY <1>2, <1>3, PTL DEF Spec

(* A job keeps the upload it claimed, and a submission is not turned away   *)
(* because its own job has the upload (cleanup_expired_staged_media,        *)
(* insert_batch_job).                                                       *)
THEOREM JobsKeepTheirUploads == Spec => UploadsServeTheirJobs
<1>. DEFINE Served == /\ running = "slow" => Slow!BusyUploadsKept
                      /\ running = "remote" => Remote!JobKeepsUpload /\ Remote!NoFalseRefusal
                      /\ running = "local" => Local!JobKeepsUpload
<1>1. SlowInv /\ RemoteInv /\ LocalInv /\ [Next]_all => [Served]_all
  <2> SUFFICES ASSUME SlowInv, RemoteInv, LocalInv, [Next]_all PROVE Served
    OBVIOUS
  <2>1. running' = running
    BY DEF Next, Step, all
  <2>2. running = "slow" => Slow!BusyUploadsKept
    <3>1. Slow!StagingAssumption /\ Slow!Steady
      BY InstancesAssumption DEF Slow!Steady
    <3>. QED  BY <2>1, <3>1, SlowRuns, Slow!StagingInvNext DEF SlowInv
  <2>3. running = "remote" => Remote!JobKeepsUpload /\ Remote!NoFalseRefusal
    <3>1. Remote!SubmissionAssumption
      BY InstancesAssumption
    <3>. QED  BY <2>1, <3>1, RemoteRuns, Remote!KeepsUpload, Remote!RefusalNext DEF RemoteInv
  <2>4. running = "local" => Local!JobKeepsUpload
    <3>1. Local!SubmissionAssumption
      BY InstancesAssumption
    <3>. QED  BY <2>1, <3>1, LocalRuns, Local!KeepsUpload DEF LocalInv
  <2>. QED  BY <2>2, <2>3, <2>4
<1>. QED  BY <1>1, SlowAlways, RemoteAlways, LocalAlways, PTL DEF Spec, UploadsServeTheirJobs

-----------------------------------------------------------------------------
(* Deletion                                                                *)

LEMMA SharedRuns ==
  ASSUME [DeletionNext]_all, running' = "shared"
  PROVE  running = "shared" /\ [Shared!Next]_(Shared!vars)
  BY DEF DeletionNext, Step, all, slots, Shared!vars, Shared!jobVars, Shared!dataVars, Shared!callVars

LEMMA QueueRuns ==
  ASSUME [DeletionNext]_all, running' = "queue"
  PROVE  running = "queue" /\ [Queue!Next]_(Queue!vars)
  BY DEF DeletionNext, Step, all, slots, Queue!vars, Queue!jobVars, Queue!dataVars, Queue!callVars

LEMMA FaultyRuns ==
  ASSUME [DeletionNext]_all, running' = "faulty"
  PROVE  running = "faulty" /\ [Faulty!Next]_(Faulty!vars)
  BY DEF DeletionNext, Step, all, slots, Faulty!vars, Faulty!jobVars, Faulty!dataVars, Faulty!callVars

LEMMA LinksRuns ==
  ASSUME [DeletionNext]_all, running' = "links"
  PROVE  running = "links" /\ [Links!Next]_(Links!vars)
  BY DEF DeletionNext, Step, all, slots, Links!vars, Links!jobVars, Links!dataVars, Links!callVars

SharedInv == running = "shared" => Shared!IInv /\ Shared!OverAndDone
QueueInv == running = "queue" => Queue!IInv /\ Queue!OverAndDone
FaultyInv == running = "faulty" => Faulty!IInv /\ Faulty!OverAndDone /\ Faulty!Traced
LinksInv == running = "links" => Links!IInv /\ Links!OutsideKept

LEMMA SharedAlways == DeletionSpec => []SharedInv
<1>1. Shared!RetentionAssumption
  BY DeletionAssumption
<1>2. DeletionInit => SharedInv
  BY <1>1, Shared!InitIInv, Shared!InitOver DEF DeletionInit, Launch, SharedInv
<1>3. SharedInv /\ [DeletionNext]_all => SharedInv'
  BY <1>1, SharedRuns, Shared!NextIInv, Shared!OverStays DEF SharedInv
<1>. QED  BY <1>2, <1>3, PTL DEF DeletionSpec

LEMMA QueueAlways == DeletionSpec => []QueueInv
<1>1. Queue!RetentionAssumption
  BY DeletionAssumption
<1>2. DeletionInit => QueueInv
  BY <1>1, Queue!InitIInv, Queue!InitOver DEF DeletionInit, Launch, QueueInv
<1>3. QueueInv /\ [DeletionNext]_all => QueueInv'
  BY <1>1, QueueRuns, Queue!NextIInv, Queue!OverStays DEF QueueInv
<1>. QED  BY <1>2, <1>3, PTL DEF DeletionSpec

LEMMA FaultyAlways == DeletionSpec => []FaultyInv
<1>1. Faulty!RetentionAssumption /\ Faulty!Punctual
  BY DeletionAssumption DEF Faulty!Punctual
<1>2. DeletionInit => FaultyInv
  BY <1>1, Faulty!InitIInv, Faulty!InitOver, Faulty!InitTraced DEF DeletionInit, Launch, FaultyInv
<1>3. FaultyInv /\ [DeletionNext]_all => FaultyInv'
  BY <1>1, FaultyRuns, Faulty!NextIInv, Faulty!OverStays, Faulty!TracedNext DEF FaultyInv
<1>. QED  BY <1>2, <1>3, PTL DEF DeletionSpec

LEMMA LinksAlways == DeletionSpec => []LinksInv
<1>1. Links!RetentionAssumption
  BY DeletionAssumption
<1>2. DeletionInit => LinksInv
  BY <1>1, Links!InitIInv, Links!OutsideThere DEF DeletionInit, Launch, LinksInv
<1>3. LinksInv /\ [DeletionNext]_all => LinksInv'
  BY <1>1, LinksRuns, Links!NextIInv, Links!OutsideStays DEF LinksInv
<1>. QED  BY <1>2, <1>3, PTL DEF DeletionSpec

(* A deleted job has left nothing that only its row could lead to, and what *)
(* an attempt stored can be found (delete_job_for_producer,                 *)
(* RemoteAttemptPrefix).                                                    *)
THEOREM NothingStays == DeletionSpec => []NothingLeftBehind
<1>1. SharedInv /\ QueueInv /\ FaultyInv => NothingLeftBehind
  BY DEF SharedInv, QueueInv, FaultyInv, NothingLeftBehind, Queue!IInv, Faulty!IInv,
         Shared!OverAndDone, Queue!OverAndDone, Faulty!OverAndDone, Faulty!Traced
<1>. QED  BY <1>1, SharedAlways, QueueAlways, FaultyAlways, PTL

(* No deletion takes the object of a row that is wanted, and none takes an  *)
(* object outside the layout (object_is_referenced, job_key_is_deletable).  *)
THEOREM WantedStays == DeletionSpec => WantedObjectsKept
<1>. DEFINE Kind == /\ running = "shared" => Shared!WantedObjectsKept
                    /\ running = "queue" => Queue!WantedObjectsKept
                    /\ running = "links" => Links!OutsideKept'
<1>1. SharedInv /\ QueueInv /\ LinksInv /\ LinksInv' /\ [DeletionNext]_all => [Kind]_all
  <2> SUFFICES ASSUME SharedInv, QueueInv, LinksInv, LinksInv', [DeletionNext]_all PROVE Kind
    OBVIOUS
  <2>1. running' = running
    BY DEF DeletionNext, Step, all
  <2>2. running = "shared" => Shared!WantedObjectsKept
    BY <2>1, DeletionAssumption, SharedRuns, Shared!WantedStay DEF SharedInv
  <2>3. running = "queue" => Queue!WantedObjectsKept
    BY <2>1, DeletionAssumption, QueueRuns, Queue!WantedStay DEF QueueInv
  <2>4. running = "links" => Links!OutsideKept'
    BY <2>1 DEF LinksInv
  <2>. QED  BY <2>2, <2>3, <2>4
<1>. QED  BY <1>1, SharedAlways, QueueAlways, LinksAlways, PTL DEF DeletionSpec, WantedObjectsKept

=============================================================================
