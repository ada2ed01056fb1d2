# Voxhelm: specification, model checking and proofs

This directory holds TLA+ specifications of Voxhelm, the TLC configurations that
check them on small instances, and theorems about them checked by TLAPS. It is
written for a reader who has the repository. `PROJECT.json` lists the components,
the runs, the source lines behind every definition, the hazards and the theorems.

## The system

Voxhelm is a transcription and speech service. A *control plane* (Django under
uvicorn, SQLite) accepts synchronous requests and batch jobs; batch jobs are run
by Django Tasks workers on the same host or pulled by *remote workers* on other
hosts; a Wyoming sidecar answers Home Assistant. Processes share three things: the
database, the artifact store (file system or S3), and on each host the directory
of the lane scheduler.

| Component (source) | State it keeps | Operations | What makes it correct |
|---|---|---|---|
| Lane scheduler (`lane_scheduler.py`) | waiter and holder records on disk, one flock | acquire, release; every poll cleans up after dead processes | slots never overbooked, the interactive reservation kept, no lost record of a running inference, lane then first come first served, everybody served |
| Remote worker protocol (`jobs/remote_workers.py`, `reconcile_remote_job_state` in `jobs/services.py`) | job rows (state, assignment, lease, attempts, result), worker rows | worker report, claim, lease heartbeat, complete, fail, reconcile | one winner per job, live leases kept, attempts bounded, a settled job stays, the winner's objects intact, the upload kept while it may be read, every job settled |
| Remote worker process (`jobs/remote_worker_cli.py`) | the claim it works on, the lease heartbeater's thread | poll, work, upload, complete or fail, abandon a lost lease | no report after the lease is known to be lost, one failure report per claim |
| Local batch execution (`execute_*`, `reconcile_job_state`, `replace_artifact` in `jobs/services.py`, `jobs/tasks.py`) | job rows, artifact rows, task results | claim by task id, publish artifacts, succeed, fail, reconcile with the task backend | one executor per job, nothing published by an executor that lost it, no orphan objects |
| Job submission (`create_job_from_payload_for_actor`, `find_reusable_job`, `insert_batch_job`) | job rows, partial unique constraint | submit | one live job per task_ref and fingerprint, one job per staged upload |
| Staged uploads (`jobs/staging.py`) | StagedMedia rows, objects | stage, discard, expire, claim, release, delete | no object without a row, no deletion of an upload a live job needs |
| Retention and deletion (`jobs/retention.py`, `prune_job_artifacts`) | artifact rows, pending deletions, attempt prefixes, prune cursors | prune, drain, clean a prefix, delete a job for its producer | nothing referenced deleted, everything expired finally gone, resumable after a crash |
| Artifact store (`jobs/artifacts.py`) | objects | put, get, list, delete | atomic put |
| Views, downloads, middleware (`jobs/views.py` ...) | none | HTTP around the above | |
| Media fetching (`jobs/media.py`, `transcriptions/input_media.py`) | temporary files | download, probe, extract | bounds, cleanup |
| Transcription service (`transcriptions/service.py`, `views.py`) | subprocesses, MLX lock | transcribe with fallback, cancel | admission around every inference, processes ended |
| Wyoming sidecar (`transcriptions/wyoming.py`) | one state machine per connection | audio start, chunk, stop, synthesize, disconnect | bounded memory whatever a client declares, answers in order and of one request, nothing left behind |
| Windowed decoding (`windows.py`, `chapter_windows.py`, `drift.py`, `profiles.py`) | the clips and child processes of a run | tile, decode, retry, stitch | every window owed, words in order and counted, cancellation heeded |
| Diarization, known speakers | none (pure, numerical) | label turns | |
| Formats, sanitizer, observability, errors | none | render text | |
| Speech synthesis (`synthesis/`) | voice caches, the phonemizer, temporary files | route, load voices, synthesize, export | the voice and language asked for, current files, nothing left behind |
| Operator pages and login throttle (`operators/`) | cached buckets under a lock | reserve, settle | failures and pending checks never exceed the budget |
| Configuration, evaluation scripts | none | | |

How they interact: a request or a job execution takes an admission of the lane
scheduler around each local inference; a submission claims a staged upload and
inserts a job in one transaction; remote workers and the control plane exchange
requests and leases through the job rows, and objects through the artifact store;
retention deletes what the other components left behind. A profile job runs
Parakeet, the drift check and the chapter windows one after the other, each
through cancellable child processes; the sidecar and the HTTP views use the same
transcription and synthesis services.

Hard behaviours: crashes between two file operations (lane scheduler) or two
transactions (jobs, staging, retention); clocks sampled before a lock is taken;
requests delayed, repeated or unanswered; a worker that does not know it lost its
lease; process ids reused; a fair-share rule that yields to peers. The full list,
line by line, is in `PROJECT.json` under "hazards".

## The modules

    LaneAdmission        what the lane scheduler promises (abstract)
      LaneScheduler      lane_scheduler.py                     MCLaneScheduler, LaneSchedulerProofs
    JobLifecycle         what a producer sees of its jobs (abstract)
      RemoteLease        leases of remote workers              MCRemoteLease, RemoteLeaseProofs
      LocalJobs          jobs run on this host                 LocalJobsProofs
    ObjectStore          what an artifact store promises (abstract)
      ArtifactStore      the file system store
    Staging              staged uploads
      Submission         submissions, beside the uploads they claim   SubmissionProofs
    JobRequests          what a request means, and when it is one asked before
    RemoteContract       engines, claims, manifests and completions
    Retention            deletions, beside workers and submissions    RetentionProofs
    RetentionSweep       cursors and dry run of prune_job_artifacts
    InferenceRun         back ends, admission, children, cancellation
    TokenWords           words from the tokens of a segment
    DriftCheck           grid, retries and splice of a profile's words
    ChapterWindows       clips around the chapter marks
      ProfileRun         a whole profile run, with ChapterWindows inside
    Wyoming              a connection of the sidecar
    SpeechRouting        back end and voice of a request for speech
    VoiceCache           caches of voices under their locks
    Speech               synthesis and export
    TokenChunks          tokens packed into inference calls
    MediaFetch           fetching by URL, through redirects
    LoginThrottle        operator sign-ins
    SideBySide           how several components share a run
      MCJobs             from a request to a settled job
      MCDeletion         deletion                              MCProofs, of both
      MCMedia            what works on media                   MediaProofs
        MCServices       the rest that serves requests         ServicesProofs
      MCEnds             what must happen in the end

Indentation means: implements the module above it, extends it (`Submission`,
`MCServices`) or contains it (`ProfileRun`). Operators whose comment starts with
"Variant with a fault, for comparison only" stand right before the definition they
vary. No specification uses them; putting one in the place of its neighbour shows
that a run would notice that fault.

### Conventions

An action is one transaction, one call of a store, one critical section or one
wait. A transaction takes SQLite's write lock with its first statement
(`acquire_sqlite_write_lock` or an update) and is one step; the object store takes
no part in it and is another. Everything a thread remembers from one
step to the next is a variable (`found`, `todo`, `claimed`, `identity`, ...): what
was read may be stale when it is used. Faults are a CONSTANT set, so that a run
says which ones it grants: "error" (a call fails), "half" (it takes effect and
fails), "db_error", "kill" and "crash" (a process ends anywhere), "interrupt" (a
worker is told to stop), "replay" (a task is delivered twice), "lost_reply",
"slow", and so on; each module lists its own.

### LaneScheduler

State: the call of each request (`pc`, `lane`, `pid`, `older`), the four kinds of
record file (well-formed or cut short, waiter or holder), the previous release's
`holder.json`, the processes that exist. Actions follow `acquire` from the stamp
of `created_at` (`Stamp`, before the lock), through the first record (`Enqueue`),
the check of the cancel event outside the lock (`CheckCancel`), and one critical
section per poll (`PollInVain`, `Admit`), to its finally block (`Leave`) and to
`release`. A critical section is one step because every access is made under the
flock; what may cut it short is modelled where it may: `AdmitFails`,
`EnqueueFails`, `PollFails` for failing system calls, `CrashInAdmit` and
`CrashInEnqueue` for a process that dies between two writes.

`created_at` is kept as `older[t]`, the calls stamped before t that still matter;
`Tidy` forgets what no record can show any more. A token is used again only when
nothing mentions it. Timing (50 ms polls, the age warning) is left out: the age
only decides whether a warning is logged.

### RemoteLease

State: the job rows, the worker rows, one writer per artifact prefix, and for each
worker process what it does and whether it was told that its lease is lost.
What lies before the lock of a transaction is a step of its own: `StartClaim`
lists candidates with the attempt counts they showed and samples the clock;
`Claim` runs later, with both possibly stale. `StartClaim` contains the expiry of
exhausted leases and the refusal of jobs as well: they concern jobs that are no
candidates, and each is a conditional update of its own. A heartbeat is two steps
(`StartBeat` samples the clock, `EndBeat` updates), and with `lost_reply` a worker
may give up on one and send the next. A completion or failure report stays in
`mail` once sent, so it may be served late, again, or never.
`complete_remote_work` deletes the staged upload after its commit and ignores a
failing store: both outcomes.

Times are relative to the present. `StaleTicks` bounds the time from a clock
sample to its transaction: `Tick` waits for requests of that age.
`started` and `seen` are tracked only with `Balance`, because nothing else reads
them. Attempt numbers stand for lease tokens: one update draws the token and
counts the attempt. `CLAIM_UPDATE_CANDIDATE_LIMIT` (10) is above the number of
jobs of every run and left out. A row that is not running keeps no lease in the
model; the code keeps the old time and never reads it.

### The other components of a job

`LocalJobs`: an invocation of a task claims the queued job under its task id,
stores each object under a fresh key, publishes its row in a transaction that
asks again whether the job is still its own (the fence), removes what a lost fence
left, and settles the job. `Poll` and `Resolve` are the reconciliation of whoever
looks at the job, in two steps, between any two of these. The rows, the queue of
pending deletions and the objects are separate variables, so an object no one
names is visible.

`Staging` has the row with its expiry, the object, and a stage of every request
and cleaner; `Submission` extends its variables with the job rows and what each
submission has found so far. Expiry and the settlement of jobs are actions of the
environment there.

`JobRequests` is a pure algorithm: parsing, the row, the comparison with a second
request, the fingerprint, one step each, over every combination of a few fields at
a time. `RemoteContract` adds to the leases what is claimed and reported: the
engines a worker advertises, those the control plane asks for, the manifest and
its validation, with workers of an old release and with another drift rule.

`Retention` has the rows of one or two jobs, their attempt prefixes, uploads and
objects. A deletion is a list read first (`todo`) and then one step per store call
and per transaction; workers that upload, executions that replace their rows, and
submissions that take over a released upload step in between. `RetentionSweep`
keeps the cursors, batches and refusals of the command and takes one deletion as
one step.

`ArtifactStore` writes a temporary file, flushes, synchronises and renames; what
the disk has is kept beside what processes see, and a power loss falls back to it.

### The services

`InferenceRun`: each call goes through the chain of back ends of
`transcribe_audio`, waits for a place of its lane (here a counter: `LaneScheduler`
has the details), runs a child, and sends SIGTERM and SIGKILL when it is cancelled
or late. `ProfileRun` is `run_profile_transcription`: checks, Parakeet, drift
retries in windows, chapter windows (an instance of `ChapterWindows` over the same
variables), splice. Its children are of two kinds. Those that work at the media
(ffprobe, Parakeet, ffmpeg, whisper.cpp) are polled together with the cancel event,
and one that ends before it was polled hides a cancellation until the next look
(`Worked`). Those asked for a version (`whispercpp_version`, `cli_versions`) run
to their end with no event to look at, once per process (`Identified`): one between
whisper.cpp and the look after it (`RetryIdentified`, `Identify`), up to three in
`profile_identity`, after the last look of the run (`AskInterpreter`, `AskParakeet`,
`Answer`). `late` counts both kinds. `DriftCheck` has the words themselves, for a few tokens.
`Wyoming` counts bytes; what a client declares and sends, and its going away, are
actions of its own. The sidecar passes no cancel event to an inference: one that
runs when its client goes away, or when the server stops, runs to its end. `Speech`, `VoiceCache` and `SpeechRouting` are three views of
one request: its files and the process-wide language of espeak-ng, the caches it
fills, and the voice it ends up with. `LoginThrottle` counts seconds up to a bound
and lets an entry of the cache be evicted once, as Django's cache may.

### Components side by side

Components that share no state commute, so an interleaving shows of each nothing
that a behaviour of that component alone does not. A bundle (`MCJobs`,
`MCDeletion`, `MCServices`, `MCEnds`) chooses an instance of a component in its
initial state and lets only that one step (`SideBySide`): states add up where
interleaving would multiply them. Each property of a bundle is a conjunction of
`running = "<instance>" => <property of the component>`; the component's module
has the formula. Components that do share state are in one module: submissions
with uploads, deletions with workers, executions with reconciliation.

Where a component has a proof module, `MCJobs` and `MCDeletion` instantiate that
module: it adds theorems and auxiliary formulas to the component and changes none
of its definitions, so TLC checks the specification the theorems are about, and
`MCProofs` can cite them of the very instances of the runs. The other components
are proved about in place: `MediaProofs` and `ServicesProofs` speak of the instances
of `MCMedia` and `MCServices`, whose parameters are constants of these modules.

## The runs

| Run | Instances and bounds | States | Shows |
|---|---|---|---|
| `LaneFaults` | 3 calls, 2 processes, 1+1 slots, failing writes, reused ids | 750 324 | type, capacity, reservation, holders stay recorded, no overtaking |
| `LaneMixedVersions` | the same, previous release claiming, orphaned children | 85 875 | implements `LaneAdmission`, which counts the calls of this release and does not see `holder.json` |
| `LaneLiveness` | 2 calls, 2 processes, one shared slot, fair | 12 955 | interactive requests are served; only they hold up the others; no ghost records |
| `LaneUnreadableRecord` | 2 calls, failing reads | | counterexample, see below |
| `LaneOrphanedInference` | 2 calls, orphaned children | | counterexample, see below |
| `RemoteRace` | 1 job, 2 workers, 2 attempts, lease 2, delay 1 | 852 900 | settlement, objects, upload, leases; implements `JobLifecycle` |
| `RemoteRecovery` | 1 job, 2 workers, 2 attempts, fair | 235 524 | every job is settled |
| `RemoteLateHeartbeat` | 1 job, delay 1 | | counterexample, see below |
| `JobsAndFiles` (`MCJobs`) | nine instances, below | 386 300 | from a request to a settled job |
| `Deletion` (`MCDeletion`) | four instances | 289 814 | deleting beside workers, submissions and other deletions |
| `Services` (`MCServices`) | seventeen instances | 1 895 509 | what a request runs through, and what keeps the store |
| `Ends` (`MCEnds`) | twelve instances, fair | 56 346 | what must happen in the end |

### What the runs of the scheduler and of the leases check

* `LaneFaults`: `TypeOK`; `CapacityRespected` and `ReservationRespected` (running
  inferences fit the slots, and non-interactive ones leave the reserved slots
  alone); `HoldersStayRecorded` (whoever runs is counted); `NoOvertaking`.
* `LaneMixedVersions`: `ImplementsAdmission`. `LaneLiveness`: `NoGhostRecords`,
  `InteractiveServed`, `NonInteractiveServed`.
* `RemoteRace`: `TypeOK`, `WinnerObjectsIntact`, `UploadKept`, `FailedForAReason`,
  `LeaseFollowsNewestBeat` (an extension never shortens a lease, whatever the order
  of heartbeats), `SettledStays`, `LiveLeaseKept`, `ImplementsLifecycle`.
* `RemoteRecovery`: `EventuallySettled`.
* The runs with a counterexample check `HoldersStayRecorded`, `InferencesCapped` and
  `ExpiredLeasesFail`.

### What the bundles check

`JobsAndFiles`
* `RowsTellTheTruth` (instance `replay`: a video job of an upload, its task
  delivered twice, every fault): a succeeded job has all its formats, every row its
  object, an unfinished job its upload until its copy is published.
* `LocalJobsSettleOnce` (`replay`): every step is one of `JobLifecycle` with one
  attempt, and a settled job never changes again.
* `ObjectsFindable` (`trio`: a video, a synchronous job and a synthesis; `slow`,
  `crash`: two uploads, a job and a maintenance command): an object has a row, a
  pending deletion, or a request that is about to decide about it; an upload that
  can be submitted has its object.
* `UploadsServeTheirJobs` (`slow`; `remote` and `local`: two submissions of one
  request and a third for the same upload, with remote and with local execution):
  cleanup never takes what a job uses, and no submission is refused because its
  own job has the upload.
* `OneAnswerPerRequest` (`race`: three submissions of one request while jobs fail):
  one live job, the same answer, and giving up only after two lost races.
* `RepetitionIsFound` (`requests`): a row is reused exactly when the constraint
  would refuse a second one.
* `LeasesWithinCapacity` (`lease`: 2 jobs, 2 workers, capacity 1, no delay between
  a sample of the clock and its transaction).

`Deletion`
* `NothingLeftBehind`, `WantedObjectsKept` (`shared`: two jobs, one object under two
  rows; `queue`: rows replaced by a repeated execution; `faulty`: two DELETE calls
  and every failure; `links`: an artifact that is a link out of the layout).

`Services`
* `ContractHonoured`, `HonestWorkersAccepted` (`contract`: three workers, seven
  kinds of job): the engine asked for, a complete result, and no honest worker
  turned away.
* `CallsKeepToThemselves` (`chains`): no child outlives its call, one thread uses a
  model, no back end is replaced silently.
* `WordsAreKept` (`tokens`, `drift`, `chunks`): order and content of words survive
  clamping, retries and splicing, the records count them, and a text is spoken to
  its last token.
* `ProfileIsComplete` (`windows`, `profile`): every window a profile owes, from
  clips of its own mark, and never without the drift check. After a cancellation at
  most one child works at the media, and none in a run that is answered and has a
  look after Parakeet; one more is asked for a version if a look follows, and three
  if the run is answered, for whose `profile_identity` no look is left
  (`CancelledSoon`).
* `ConnectionsAreBounded` (`sidecar`), `SpeechAsRequested` (`piper`, `kokoro`,
  `routing`, `synthesis`), `GuardsHold` (`logins`, `fetching`).
* `DryRunPredicts` (`sweep`: four rows, one per table, batches of one, one refused).
* `StoreIsAtomic`, `NoTornObject` (`reads`: two keys, three writers, two readers;
  `power`: two power losses): `ArtifactStore` implements `ObjectStore`, and no torn
  object is ever under a key.
* `StepsStayHonest`: the action properties of these instances.

`Ends` checks `EverythingEnds`: `Owed(i) ~> Done(i)` for the two things each of its
instances owes. A job is settled (`local`); what a dead request stored is removed
(`uploads`); a repeated DELETE comes to an end (`deletion`); a row that cannot be
deleted does not keep the sweep from the last one (`sweep`); cancelled calls,
chapter windows, profile runs, sidecar requests, speech, voices and fetches end;
and with fair share on, a job only one of two workers can run is not left to the
other for ever (`fair_share`).

### Why these bounds

In the scheduler a hazard takes one call that holds, one that waits and one that
comes between or is torn; two processes give one that dies while another cleans
up. One slot of each kind makes both limits tight. In the lease protocol two
workers are the owner and its successor, two attempts give a first and a last one,
a lease of 2 with a delay of 1 puts samples on both sides of the end of a lease,
and a job interacts with another one only through capacity and balance. A local
job has two invocations because the fence decides between two; three jobs differ
in what they store. Two uploads and a limit of one per cleanup make the limit
bite. Three submissions are needed where one may lose twice. A deletion interacts
with one writer, one submission and one other deletion; two attempts and a shared
object are what makes a reference from elsewhere. Three tokens, three windows and
one word beyond a limit reach every branch of the word algorithms, whose
conditions compare neighbours. `LoginThrottle` has three attempts for a budget of
two. Counters that would grow without end stop at `Losses`, `MaxKills`, `Swaps`,
`MaxVersion`, `MaxChanges`, `MaxEvents` and `End`, all named in their modules.

Deadlock is checked in `LaneFaults` and in the runs of `RemoteLease`, where the
system cannot stop. Without reuse of process ids a scheduler run ends when every
id of the bound has died; the components of the bundles end when their requests
are over: these runs say CHECK_DEADLOCK FALSE, and `Ends` shows that what stops has
done what it owes.

Symmetry is used in safety runs only: tokens, process ids and workers are compared
by equality alone there. Jobs are numbers because claims take them in order.

### Fairness

`LaneScheduler`: a thread inside `acquire` keeps running as long as its process
lives (it sleeps 50 ms between polls and flock blocks for short critical sections
only), and admitted inferences end. Crashes are not fair, and processes need not
start. `RemoteLease`: time passes (strongly fair, as it may be held up again and
again by a request about to be served), a worker keeps polling, ends its work
and its waits, and the control plane ends the requests it serves. No message is
assumed to arrive and no worker to survive: the same worker may crash after each
claim for ever, and the attempts run out.

`MCEnds`: weak fairness of a started thread's, task's or command's next step, of
time limits, expiry, polling and the maintenance command (systemd timers and
producers repeat them). Strong fairness where a lock or a place is taken and freed
again and again (admission, the MLX lock, the cache locks, the phonemizer, the
inference lock: `threading.Lock` and flock promise no order, but a waiter is not
passed over for ever while they are free), and of the steps of a repeated DELETE
or maintenance run, whose store must not fail each time. No process is assumed to
survive; a job whose task worker is killed without a word to the task backend is
outside these promises (`LocalJobs` has the fault "kill" in `JobsAndFiles`; the
instance of `Ends` has "interrupt").
One condition covers a step of each component because only one component runs.

### Disagreements found

* `LaneUnreadableRecord`: `_read_json` answers None for any OSError and
  `_reclaim_holder` unlinks the file, so a momentary read error takes the record of
  a running inference away; README.md:1149 says live holders retain capacity until
  release.
* `LaneOrphanedInference`: a dead process's record is reclaimed while the inference
  subprocess it started may still run, so two non-interactive inferences share the
  one slot README.md:1140-1141 promises to cap.
* `RemoteLateHeartbeat`: the heartbeat's update compares the lease with the time
  sampled before it waited for the write lock and may extend a lease that has run
  out; README.md:1035 says expired leases still fail. With such a delay a worker
  may also end up with one lease more than its capacity, which is why the instance
  `lease` has StaleTicks = 0 and `LeasesWithinCapacity` says so.

### Divergences

Met while modelling; the models follow the code, and no run is spent on them.

* Negative zero: two requests that differ in -0.0 against 0.0 compare equal
  (`services.py:870`) and have different fingerprints, while fingerprints.py:3-4
  says that "two submissions that would deduplicate to the same job always share
  a fingerprint". `MCJobs` leaves the value out of its payloads, and `JobRequests`
  has it.
* A late upload below the prefix of an attempt whose record was removed
  (`retention.py:412`) has nobody to find it; models.py:221-224 describes the
  record as what makes such uploads cleanable. `Retention` has it as the fault
  "late", which no run grants: `AttemptObjectsFound` is checked for uploads that end
  before their job does.
* A DELETE that fails with 409 may have deleted part of the job's artifacts
  (`retention.py:385`), where views.py:184-186 says nothing was deleted.
* With VOXHELM_TTS_BACKEND=kokoro a request routed to a Piper voice by language is
  sent to Kokoro (`synthesis/service.py:243`), against
  specs/2026-07-24_kokoro_backend_language_routing.md:96-99; and the model name
  "kokoro" is overridden by the name of a Piper voice (`synthesis/service.py:85`),
  where config/settings.py:608-609 says the model decides. The instance `routing`
  has Piper as the default back end.

Conditions of use rather than errors, seen in the same places: a clock that is set
back lets later calls of the scheduler sort before earlier ones, and services
started with different slot settings decide by different limits; a whisper.cpp
child of a call without a cancel event has no time limit (`service.py:636`); the
identity of the engine in a profile's result is read after the run
(`profiles.py:271`); one malformed voice configuration fails every dispatch by
voice (`synthesis/service.py:518`); a worker with another drift rule uses up the
attempts of a job it cannot complete (`remote_workers.py:885`).

## The proofs

The theorems hold for every value of the constants that satisfies the assumption
of the module, which TLC evaluates on the values of the runs:
`LaneSchedulerAssumption` (finitely many calls, at least one non-interactive slot),
`RemoteLeaseAssumption` (finitely many jobs, at least one attempt, a delay shorter
than the lease), `LocalJobsAssumption` (a synchronous job has one execution and no
upload; no key is NoKey), `StagingAssumption` (a limit of at least one upload per
cleanup), `SubmissionAssumption` (jobs are 1 .. n, in the order of their ids) and
`RetentionAssumption` (rows, attempts and calls name objects and jobs there are).
`MediaAssumption` and `InstancesAssumption` collect the assumptions of the services
for their instances: the kinds of the constants, that "nobody" and "no voice" are
none of the real ones, limits of at least one where the code has a positive
default, a list of shifts and of marks that is not empty, voices whose keys mean
themselves, and, for `reads`, no loss of power. A theorem that needs one more says
so in its ASSUME, and below. Each invariant was checked by TLC on the runs before
it was proved.

`LaneSchedulerProofs`
* `TypeCorrect`.
* `RecordsNeverOverbook`: records of live processes fit the slots, under all
  faults. `RecordsFit` counts records, not calls, and is inductive with the type
  invariant alone: a record is written only under `IsAdmissible`, and everything
  else shrinks the set or lets a process die.
* `RunningInferencesAreCounted`, `CapacityIsRespected`, `ReservationIsRespected`:
  these speak of calls. They need that a holding call has its record and a live
  process, which is inductive unless a read may fail, hence the assumption
  "read_error" \notin Faults; `LaneUnreadableRecord` shows it is needed.
* `SchedulerImplementsAdmission`: every step maps to `Ask`, `Admit`, `Quit` or a
  stutter of `LaneAdmission`; `Admit` uses the invariant above, since the abstract
  guard counts calls and the concrete one counts records.
* `NobodyOvertakes`: `SelectNextWaiter` chooses among records; that it is fair to
  calls needs that every waiting call has its waiter record and no call in
  `acquire` a holder record (`QueueOnDisk`), which again fails with "read_error".
* `NoSlotIsLost`: a record without a call is that of a dead process, since only a
  death separates the two; and a dead process stays dead if its id is not used
  again (`KnownProcesses`). Hence the assumptions on "pid_reuse" and "write_error".

`RemoteLeaseProofs`
* `TypeCorrect`, with what makes it inductive: a process at work knows its job, and
  a running job's token is its attempt count.
* `SettledForGood`, `LeaseIsKept`: by the actions that change a row at all
  (`OnlyTheseSettle`). `LeaseIsKept` uses that a claim sampled earlier sees a lease
  as longer than it is, never shorter.
* `LeasesFollowBeats`: lease and latest beat move together.
* `WinnerKeepsItsObjects`: no state records who was granted which attempt. The
  invariant says what the row still shows of a grant (`Granted`): the attempt is at
  most `attempts`, and if the row names it, it names its worker. Every grant keeps
  that for ever, because new tokens are larger; work and objects only come from
  grants; and a job that succeeds names an attempt whose objects are stored.
* `LeasesImplementLifecycle`.
* `UploadsAreKept`: inductive with the type invariant; only a completion takes an
  upload and only a failure frees one, each in the step that settles its job.
* `FailuresHaveReasons`: whoever fails a job does so for one of the reasons
  (`NoFailureWithoutReason`), and a reason, once there, lasts (`ReasonsLast`).
* `CapacityOfWorkers`: for StaleTicks = 0. Only a claim adds a lease in force
  (`OnlyClaimsAddLeases`), and it counts the others at the very time it writes.

`LocalJobsProofs`
* The argument is that of the keys. Every put draws a fresh one, so until its row
  is committed a key is known to one invocation only (`KeysAreFresh`), and nobody
  else can delete its object. From this follow `RowsKeepTheirObjects` (through
  compensation, replacement, draining of the queue and dying executions) and, with
  the place of each invocation (`Placed`) and the rows behind it (`Progress`),
  `SuccessIsComplete`.
* `UploadsAreKept`; `NoObjectIsForgotten`: without "kill", "interrupt" and
  "db_error", an object is named, queued, or about to be published or discarded.
* `SettledStays` and `LivesAsPromised`: the fences of `mark_job_*` and the
  conditional update of the reconciliation map to `JobLifecycle` with one attempt.

`SubmissionProofs`
* An upload's row is committed before its object and removed after it. Both orders
  leave a gap, closed by the expiry: nobody cleans up an upload that is being
  stored. So the theorems about uploads alone assume `Steady`: a store is not as
  slow as the in-progress expiry of a day, or else no statement fails and no
  request dies.
* `StagedObjectsAreFound`, `SubmittableIsComplete`, `BusyUploadsAreKept`; each by
  what the stage of a request says about its row, object and expiry
  (`Progressing`), with the recheck in `delete_staged_media` for the last.
* `OneLiveJob`: two live jobs of one request would have passed the unique
  constraint, in either order. `OneAnswer`: a submission has found or inserted a job
  of its own request (`Asked`).
* `RefusedForCause`: a live job of the request stops an insertion at the
  constraint, before anybody asks whether the upload is free.
* `TwoFailures` (without "db_error"): what each place of the retry loop implies
  about jobs that failed meanwhile (`Beaten`). Jobs are ordered by their ids; that
  there is a first and a last one of a set is the well-foundedness of finite sets.
* `UploadsStayWithJobs` (without "db_error"): a row that says "complete" has its
  object (`Backed`).

`RetentionProofs`
* `NothingWantedGoes`: whatever removes an object, no other row may name it
  (`Referenced`), and the row itself is not wanted: a DELETE under way is about a
  profile job that is over (`Admissible`) and stays over, and the sweep asks again.
  `Outcomes` reduces sweep and calls to three kinds of deletion, once for all
  theorems of the module.
* `NothingOutsideGoes`: the list of a DELETE was checked against the layout when it
  was made, and a key does not change.
* `GoneForGood`: a job whose row goes owns nothing, and a job that is over gains
  nothing: artifacts belong to their first job for good (`Owned`), and only uploads
  change hands, towards running jobs.
* `AttemptsAreTraced`: the prefix of a running job's attempt is on record
  (`Recorded`), and what a running job replaces lies below no prefix (`Local`). It
  assumes `Punctual`: no upload comes in after its job is over, see "Divergences",
  and no object outside the layout lies below a prefix.

`MCProofs` proves the properties of `JobsAndFiles` (but `RepetitionIsFound`) and of
`Deletion` from these theorems: the hypotheses hold of the instances
(`InstancesAssumption`, `DeletionAssumption` and their fault sets), a step of the
bundle is a step of the instance that runs (`ReplayRuns`, ...), and its invariant
holds while it runs. The only assumptions are those two, on the few constants of the
bundles.

`MediaProofs` and `ServicesProofs` prove all properties of `Services` but
`WordsAreKept`, for every value of the constants of `MCMedia` and `MCServices`. Each
component has its inductive invariant, `IInv` in its module under "What every step
preserves" (`StoreInv` in `ArtifactStore`); `MediaInv` is their conjunction under
`running = ...`. What each adds to the properties:
* `CallsAlwaysToThemselves`: a call at work is at a place in its chain, and all
  back ends before that place were unavailable (`WithinChain`, `RefusedBefore`).
  Without the second, nothing keeps a call from having skipped one.
* `ProfileAlwaysComplete`: what lies in x.wav and x.json is of the current mark and
  shift when it is read (`FilesOfThisClip`: the directory is shared by all clips),
  the windows done are those of the marks before the current one
  (`WindowsBefore`), and the grid windows seen are the first ones (`RecordsOfGrid`).
  `CancelledSoon` follows from where a child that worked unseen may have been
  followed by none (`WorkedLast`) and where a version may be asked for after a
  cancellation (`IdentifiedLast`). A step of the chapter windows inside the profile
  is a step of `ChapterWindows`, so both components share their lemmas.
* `ConnectionsAlwaysBounded`: what the client said is what is held (`HeardIsHeld`),
  the files of each phase (`FilesOfPhase`), and speech is cut only by the end of the
  connection (`SpeechOfPhase`).
* `SpeechAlwaysAsRequested`: for the caches, every version between a look at a file
  and now was there while the lock was held (`SeenWhileLooking`), and an entry is no
  older than its identity (`EntriesNoOlder`), whatever replaces files at any time;
  for routing, what was decided is what would be decided now, as long as nobody
  touches the voices (`RoutedAsItStands`, ...); for synthesis, nobody switches
  espeak-ng under a sentence (`SpokenInOwn`) and the files of each place
  (`FilesOfPlace`).
* `ResultsAreAsAsked`, `HonestyIsRewarded`: a worker tells what it has and is given
  what it told (`TellsWhatItHas`, `GivenWhatItTold`), the engine it runs was named
  to it (`EngineAsAsked`), what was accepted was valid when it was
  (`AcceptedIsValid`), and a refusal is of an old release or another rule
  (`RefusedForARelease`).
* `GuardsAlwaysHold`: for sign-ins, only running checks hold reservations, and all
  of them do until the cache drops an entry (`ChecksReserve`), and a failure of this
  second lies in an open window (`WindowsOpen`); the bound on checks needs sums over
  finite sets of attempts. For fetches, the addresses a connection goes to were
  checked for the host of an allowed URL (`Checked`).
* `DryRunsTellTheTruth`: the rows ahead are the same ones the dry run saw
  (`RowsAsTold`, `JobsAsTold`), phase by phase, while nothing else happens (`told`).
* `ObjectsAreWhole`, `StoreKeepsItsWord`: `StoreInv` is the argument of the code:
  data fsync has returned for is whole and no longer written to (`OnDisk`); names,
  in memory and on the disk, are given only to such data of their own key
  (`NamesOnDisk`); a reader holds a file that had such a name (`ReadersOnDisk`). A
  loss of power takes names back to those on the disk, which is why the invariant
  speaks of both. A rename is `Put`, opening a file is `Get`, anything else is
  `Delete`, `Obstruct` or a stutter; this is for no losses, since after one a name
  may go back to an older put, which `ObjectStore` does not allow. A temporary name
  belongs to a writer that still writes or was cut down (`Tidy`).
* `StepsAlwaysHonest`: action properties from the same invariants; the instance
  `tokens` has fixed times, see `MCMedia`.

Only model-checked: `RepetitionIsFound` and `WordsAreKept`, which say what an
algorithm over rows, words or chunks computes for every input and need induction
over data, out of the prover's reach; and everything about liveness, out of its
reach together with ENABLED.

## What next

Models worth having: the turn arithmetic of diarization; a remote worker's HTTP
budgets; the drift check with its real language scores. Proofs worth having: the
retry loop of `Submission` under "db_error", and the word algorithms, once a prover
for induction over sequences is at hand.

## Not modelled

Diarization and known-speaker recognition (clustering and embeddings: numerical,
without state); transcript formats, sanitizer and observability (rendering and
logging); German text rules and the tokenizer table; ffmpeg and ffprobe beyond
their outcomes; HTML, authentication and range requests; settings; the evaluation
scripts; the HTTP client's budgets in the remote worker. They keep no state that
outlives a call, or are numerical beyond TLC. What each other component lacks is
said in `PROJECT.json`.

Left out in modules that are otherwise complete:
* the time between a heartbeat's update and the reading of the row it answers with
  (`EndBeat` is one step);
* empty tokens, and white space without a leading space, on which the two back ends
  cut differently (`service.py:523`): `SameCut` is about tokens with text;
* the joining of several retry words in one window (`MaxRetry` is 1 in `drift`).
