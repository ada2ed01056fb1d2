----------------------------- MODULE LocalJobs -----------------------------
(***************************************************************************)
(* Jobs executed on the control plane's own host (execute_* and            *)
(* replace_artifact in jobs/services.py, jobs/tasks.py): batch jobs run by *)
(* Django Tasks workers, and an operator's synchronous transcription.      *)
(*                                                                         *)
(* The task backend delivers a task, perhaps more than once; an invocation *)
(* claims the queued job, stores objects under fresh keys, publishes a row *)
(* for each, and settles the job.  Whoever looks at a job reconciles it    *)
(* with the task backend first, between any two of these steps.  Every     *)
(* transaction takes SQLite's write lock with its first statement, and is  *)
(* one step; object and row of an artifact are written in two.             *)
(***************************************************************************)
EXTENDS Naturals, Sequences, FiniteSets

CONSTANTS
  Job, SyncJob,     \* all jobs, and those of dispatch_mode "sync"
  Invocation,       \* deliveries of tasks; the one execution of a sync job
  JobOf,            \* JobOf[e]: the job an invocation is for
  Uploaded,         \* jobs whose input is a staged upload
  Video,            \* jobs whose input is a video
  Speech,           \* synthesis jobs, whose input is text
  SourceName,       \* SourceName[j]: the file name of the input
  Formats,          \* Formats[j]: the requested output formats
  NoKey,
  Faults            \* what goes wrong, see Fault

(***************************************************************************)
(* error:    a call of an execution fails: a download, ffmpeg, inference,  *)
(*           a put or delete of the store, a transaction.                  *)
(* db_error: a transaction that would repair or settle fails as well.      *)
(* replay:   the task backend delivers a task more than once.              *)
(* interrupt: a signal raises a BaseException in the task worker, which    *)
(*           reports the task as failed.                                   *)
(* kill:     the worker dies and the task backend never hears of it.       *)
(***************************************************************************)
Fault == {"error", "db_error", "replay", "interrupt", "kill"}

(* What an execution may publish, in the order in which it does, and the names. *)
FormatOrder == <<"text", "json", "vtt", "dote", "podlove", "speakers", "words", "windows",
                 "wav", "mp3", "ogg">>
FormatName == [text |-> "transcript.txt", json |-> "transcript.json",
               vtt |-> "transcript.vtt", dote |-> "transcript.dote.json",
               podlove |-> "transcript.podlove.json",
               speakers |-> "transcript.speakers.json", words |-> "words.json",
               windows |-> "chapter_windows.json",
               wav |-> "speech.wav", mp3 |-> "speech.mp3", ogg |-> "speech.ogg"]

VARIABLES
  state,      \* Job.state
  task,       \* the status of the job's task result, "none" for a sync job
  rows,       \* rows[j]: artifact name |-> storage_key, the JobArtifact rows
  pending,    \* keys of the PendingArtifactDeletion rows
  objects,    \* keys present in the artifact store
  upload,     \* upload[j]: "none", "kept", or "gone"
  pc, pos,    \* where an invocation is, and in which artifact of its plan
  claimed,    \* invocations whose claim succeeded
  staged,     \* invocations whose staged_media is not None
  outcome,    \* how an invocation is about to return: "ok" or "raised"
  previous,   \* the replaced key an invocation is about to delete, or NoKey
  readers     \* reconciliations between their read and their update

jobVars == <<state, task, upload>>
storeVars == <<rows, pending, objects>>
execVars == <<pc, pos, claimed, staged, outcome, previous>>
vars == <<jobVars, storeVars, execVars, readers>>

-----------------------------------------------------------------------------

(* The artifacts stored for the execution itself, then those for the producer. *)
Inputs(j) ==
  IF j \in SyncJob \cup Speech THEN <<>>
  ELSE <<SourceName[j]>> \o IF j \in Video THEN <<"extracted-audio.wav">> ELSE <<>>

(* The places in FormatOrder of the formats a job asks for. *)
Places(j) == {i \in 1 .. Len(FormatOrder) : FormatOrder[i] \in Formats[j]}

Outputs(j) ==
  [n \in 1 .. Cardinality(Places(j)) |->
     LET place == CHOOSE i \in Places(j) : Cardinality({k \in Places(j) : k <= i}) = n
     IN  FormatName[FormatOrder[place]]]

Plan(j) == Inputs(j) \o Outputs(j)
Named(j) == {Plan(j)[i] : i \in 1 .. Len(Plan(j))}

(* build_artifact_key draws a fresh allocation for every put. *)
Key(e) == <<e, pos[e]>>
KeyOf(j) == {<<e, i>> : e \in {d \in Invocation : JobOf[d] = j}, i \in 1 .. Len(Plan(j))}
AnyKey == UNION {KeyOf(j) : j \in Job}

(* What an instance may give the constants. *)
LocalJobsAssumption ==
  /\ SyncJob \subseteq Job /\ Speech \subseteq Job \ SyncJob
  /\ Uploaded \subseteq Job \ (SyncJob \cup Speech) /\ Video \subseteq Job \ (SyncJob \cup Speech)
  /\ JobOf \in [Invocation -> Job]
  /\ \A d, e \in Invocation : JobOf[d] = JobOf[e] /\ JobOf[d] \in SyncJob => d = e
  /\ SourceName \in [Job -> STRING]
  /\ Formats \in [Job -> SUBSET DOMAIN FormatName]
  /\ Faults \subseteq Fault
  /\ NoKey \notin AnyKey

Open == {"queued", "running"}
Settled == {"succeeded", "failed"}
Ended == {"ended", "dead"}

Can(fault) == fault \in Faults

TypeOK ==
  /\ state \in [Job -> Open \cup Settled]
  /\ task \in [Job -> {"none", "ready", "running", "successful", "failed"}]
  /\ \A j \in Job : rows[j] \in [Named(j) -> KeyOf(j) \cup {NoKey}]
  /\ pending \subseteq AnyKey
  /\ objects \subseteq AnyKey
  /\ upload \in [Job -> {"none", "kept", "gone"}]
  /\ pc \in [Invocation -> {"idle", "called", "prepare", "put", "publish", "tidy", "discard",
                            "drop", "infer", "succeed", "fail", "finally"} \cup Ended]
  /\ \A e \in Invocation : pos[e] \in 1 .. Len(Plan(JobOf[e])) + 1
  /\ claimed \subseteq Invocation
  /\ staged \subseteq Invocation
  /\ outcome \in [Invocation -> {"ok", "raised"}]
  /\ previous \in [Invocation -> AnyKey \cup {NoKey}]
  /\ readers \subseteq Job \X Open

Init ==
  /\ state = [j \in Job |-> IF j \in SyncJob THEN "running" ELSE "queued"]
  /\ task = [j \in Job |-> IF j \in SyncJob THEN "none" ELSE "ready"]
  /\ rows = [j \in Job |-> [n \in Named(j) |-> NoKey]]
  /\ pending = {}
  /\ objects = {}
  /\ upload = [j \in Job |-> IF j \in Uploaded THEN "kept" ELSE "none"]
  /\ pc = [e \in Invocation |-> IF JobOf[e] \in SyncJob THEN "infer" ELSE "idle"]
  /\ pos = [e \in Invocation |-> 1]
  /\ claimed = {e \in Invocation : JobOf[e] \in SyncJob}
  /\ staged = {}
  /\ outcome = [e \in Invocation |-> "ok"]
  /\ previous = [e \in Invocation |-> NoKey]
  /\ readers = {}

-----------------------------------------------------------------------------
(* Helpers of the steps *)

At(e, label) == pc[e] = label
Goto(e, label) == pc' = [pc EXCEPT ![e] = label]

(* local_execution_queryset: the job is still this execution's to settle. *)
OwnsExecution(j) == state[j] = "running"

(* Variant with a fault, for comparison only: no fence. *)
MayAlwaysPublish(j) == j \in Job

(* The fence in replace_artifact; a job without a task id is not fenced. *)
MayPublish(j) == j \in SyncJob \/ state[j] = "running"

Referenced(k) == \E j \in Job : \E n \in Named(j) : rows[j][n] = k

(* process_pending_artifact_deletion: delete the object unless a row names it, *)
(* then the entry.  A failing store keeps both, a failing transaction at least *)
(* the entry.                                                                  *)
Processed(k) ==
  \/ /\ objects' = IF Referenced(k) THEN objects ELSE objects \ {k}
     /\ pending' = pending \ {k}
  \/ /\ Can("error")
     /\ pending' = pending \cup {k}
     /\ objects' = objects \/ (~Referenced(k) /\ objects' = objects \ {k})

(* What comes after the artifact at pos[e] is published. *)
After(e) ==
  IF pos[e] = 1 /\ e \in staged THEN "drop"
  ELSE IF pos[e] = Len(Inputs(JobOf[e])) THEN "infer"
  ELSE IF pos[e] = Len(Plan(JobOf[e])) THEN "succeed" ELSE "put"

Afterwards(e) ==
  /\ Goto(e, After(e))
  /\ pos' = [pos EXCEPT ![e] = @ + 1]

-----------------------------------------------------------------------------
(* The task backend and the claim *)

(* The backend starts an invocation of a task. *)
Deliver(e) ==
  /\ At(e, "idle")
  /\ task[JobOf[e]] = "ready" \/ Can("replay")
  /\ Goto(e, "called")
  /\ task' = [task EXCEPT ![JobOf[e]] = "running"]
  /\ UNCHANGED <<state, upload, storeVars, pos, claimed, staged, outcome, previous, readers>>

(* Whether initialize_running_job's conditional update finds the job. *)
Claimable(j) == state[j] = "queued"

Claim(e) ==
  LET j == JobOf[e] IN
  /\ At(e, "called")
  /\ Claimable(j)
  /\ state' = [state EXCEPT ![j] = "running"]
  /\ claimed' = claimed \cup {e}
  /\ Goto(e, IF Inputs(j) = <<>> THEN "infer" ELSE "prepare")
  /\ UNCHANGED <<task, upload, storeVars, pos, staged, outcome, previous, readers>>

(* "not_claimed": the invocation returns at once, and its task counts as successful. *)
Decline(e) ==
  /\ At(e, "called")
  /\ ~Claimable(JobOf[e])
  /\ Goto(e, "ended")
  /\ task' = [task EXCEPT ![JobOf[e]] = "successful"]
  /\ UNCHANGED <<state, upload, storeVars, pos, claimed, staged, outcome, previous, readers>>

-----------------------------------------------------------------------------
(* One execution *)

(* Download the input, or fetch the staged upload, which must still be there. *)
Prepare(e) ==
  LET j == JobOf[e] IN
  /\ At(e, "prepare")
  /\ upload[j] # "gone"
  /\ staged' = IF j \in Uploaded THEN staged \cup {e} ELSE staged
  /\ Goto(e, "put")
  /\ UNCHANGED <<jobVars, storeVars, pos, claimed, outcome, previous, readers>>

PrepareFails(e) ==
  /\ At(e, "prepare")
  /\ Can("error") \/ upload[JobOf[e]] = "gone"
  /\ Goto(e, "fail")
  /\ UNCHANGED <<jobVars, storeVars, pos, claimed, staged, outcome, previous, readers>>

(* store.put_file or put_bytes under a fresh key. *)
Put(e) ==
  /\ At(e, "put")
  /\ objects' = objects \cup {Key(e)}
  /\ Goto(e, "publish")
  /\ UNCHANGED <<jobVars, rows, pending, pos, claimed, staged, outcome, previous, readers>>

(* The store raises, with or without having stored the object. *)
PutFails(e) ==
  /\ At(e, "put")
  /\ Can("error")
  /\ objects' \in {objects, objects \cup {Key(e)}}
  /\ Goto(e, "discard")
  /\ UNCHANGED <<jobVars, rows, pending, pos, claimed, staged, outcome, previous, readers>>

(* Variant with a fault, for comparison only: the replaced object is deleted      *)
(* before the row is switched.                                                    *)
PublishAfterDelete(e) ==
  LET j == JobOf[e]
      name == Plan(j)[pos[e]]
      old == rows[j][name]
  IN
  /\ At(e, "publish")
  /\ MayPublish(j)
  /\ IF old # NoKey /\ old \in objects
     THEN /\ objects' = objects \ {old}
          /\ UNCHANGED <<rows, pending, previous, pc, pos>>
     ELSE /\ rows' = [rows EXCEPT ![j][name] = Key(e)]
          /\ Afterwards(e)
          /\ UNCHANGED <<pending, previous, objects>>
  /\ UNCHANGED <<jobVars, claimed, staged, outcome, readers>>

(* The transaction of replace_artifact: fence, row, entry for the replaced object. *)
Publish(e) ==
  LET j == JobOf[e]
      name == Plan(j)[pos[e]]
      old == rows[j][name]
  IN
  /\ At(e, "publish")
  /\ MayPublish(j)
  /\ rows' = [rows EXCEPT ![j][name] = Key(e)]
  /\ IF old = NoKey
     THEN Afterwards(e) /\ UNCHANGED <<pending, previous>>
     ELSE /\ pending' = pending \cup {old}
          /\ previous' = [previous EXCEPT ![e] = old]
          /\ Goto(e, "tidy")
          /\ UNCHANGED pos
  /\ UNCHANGED <<jobVars, objects, claimed, staged, outcome, readers>>

PublishFails(e) ==
  /\ At(e, "publish")
  /\ Can("error") \/ ~MayPublish(JobOf[e])
  /\ Goto(e, "discard")
  /\ UNCHANGED <<jobVars, storeVars, pos, claimed, staged, outcome, previous, readers>>

(* The on_commit hook: the replaced object goes once nothing names it. *)
Tidy(e) ==
  /\ At(e, "tidy")
  /\ Processed(previous[e])
  /\ previous' = [previous EXCEPT ![e] = NoKey]
  /\ Afterwards(e)
  /\ UNCHANGED <<jobVars, rows, claimed, staged, outcome, readers>>

(* replace_artifact's except branch: its own allocation is queued and deleted. *)
Discard(e) ==
  /\ At(e, "discard")
  /\ \/ Processed(Key(e))
     \/ Can("db_error") /\ UNCHANGED <<objects, pending>>
  /\ Goto(e, "fail")
  /\ UNCHANGED <<jobVars, rows, pos, claimed, staged, outcome, previous, readers>>

(* The input is stored: delete_staged_media, object and row, or neither.  If only *)
(* the row cannot be deleted, the execution fails.                                 *)
DropUpload(e) ==
  LET j == JobOf[e] IN
  /\ At(e, "drop")
  /\ \/ /\ upload' = [upload EXCEPT ![j] = "gone"] \/ (Can("error") /\ UNCHANGED upload)
        /\ staged' = staged \ {e}
        /\ Goto(e, IF Len(Inputs(j)) = 1 THEN "infer" ELSE "put")
     \/ /\ Can("error")
        /\ upload' = [upload EXCEPT ![j] = "gone"]
        /\ Goto(e, "fail")
        /\ UNCHANGED staged
  /\ UNCHANGED <<state, task, storeVars, pos, claimed, outcome, previous, readers>>

(* Extraction, transcription, diarization, rendering. *)
Infer(e) ==
  /\ At(e, "infer")
  /\ Goto(e, IF pos[e] > Len(Plan(JobOf[e])) THEN "succeed" ELSE "put")
  /\ UNCHANGED <<jobVars, storeVars, pos, claimed, staged, outcome, previous, readers>>

InferFails(e) ==
  /\ At(e, "infer")
  /\ Can("error")
  /\ Goto(e, "fail")
  /\ UNCHANGED <<jobVars, storeVars, pos, claimed, staged, outcome, previous, readers>>

(* A conditional update that settles the job if it is still this execution's. *)
Settle(j, final) ==
  state' = IF OwnsExecution(j) THEN [state EXCEPT ![j] = final] ELSE state

(* mark_job_succeeded, whose result nobody looks at. *)
Succeed(e) ==
  /\ At(e, "succeed")
  /\ Settle(JobOf[e], "succeeded")
  /\ Goto(e, "finally")
  /\ UNCHANGED <<task, upload, storeVars, pos, claimed, staged, outcome, previous, readers>>

SucceedFails(e) ==
  /\ At(e, "succeed")
  /\ Can("error")
  /\ Goto(e, "fail")
  /\ UNCHANGED <<jobVars, storeVars, pos, claimed, staged, outcome, previous, readers>>

(* mark_job_failed, then the exception goes on. *)
Fail(e) ==
  /\ At(e, "fail")
  /\ \/ Settle(JobOf[e], "failed")
     \/ Can("db_error") /\ UNCHANGED state
  /\ outcome' = [outcome EXCEPT ![e] = "raised"]
  /\ Goto(e, "finally")
  /\ UNCHANGED <<task, upload, storeVars, pos, claimed, staged, previous, readers>>

(* The finally block, and the return to the task worker or the request. *)
Finally(e) ==
  LET j == JobOf[e] IN
  /\ At(e, "finally")
  /\ \/ upload' = IF e \in staged THEN [upload EXCEPT ![j] = "gone"] ELSE upload
     \/ Can("error") /\ UNCHANGED upload
  /\ task' = IF j \in SyncJob THEN task
             ELSE [task EXCEPT ![j] = IF outcome[e] = "ok" THEN "successful" ELSE "failed"]
  /\ Goto(e, "ended")
  /\ UNCHANGED <<state, storeVars, pos, claimed, staged, outcome, previous, readers>>

(* Only Exception is caught: neither the job nor the allocation is repaired. *)
Interrupt(e) ==
  /\ Can("interrupt")
  /\ pc[e] \notin {"idle", "finally"} \cup Ended
  /\ JobOf[e] \notin SyncJob
  /\ outcome' = [outcome EXCEPT ![e] = "raised"]
  /\ Goto(e, "finally")
  /\ UNCHANGED <<jobVars, storeVars, pos, claimed, staged, previous, readers>>

Kill(e) ==
  /\ Can("kill")
  /\ pc[e] \notin {"idle"} \cup Ended
  /\ Goto(e, "dead")
  /\ UNCHANGED <<jobVars, storeVars, pos, claimed, staged, outcome, previous, readers>>

-----------------------------------------------------------------------------
(* Everyone else *)

(* Variant with a fault, for comparison only: a queued job is not looked at. *)
PollRunning(j) ==
  /\ state[j] = "running"
  /\ task[j] = "failed"
  /\ readers' = readers \cup {<<j, state[j]>>}
  /\ UNCHANGED <<jobVars, storeVars, execVars>>

(* reconcile_job_state, first half: the job is open and its task has failed. *)
Poll(j) ==
  /\ state[j] \in Open
  /\ task[j] = "failed"
  /\ readers' = readers \cup {<<j, state[j]>>}
  /\ UNCHANGED <<jobVars, storeVars, execVars>>

(* Second half: the update is conditional on the state that was read. *)
Resolve(j, prior) ==
  /\ <<j, prior>> \in readers
  /\ readers' = readers \ {<<j, prior>>}
  /\ state' = IF state[j] = prior THEN [state EXCEPT ![j] = "failed"] ELSE state
  /\ UNCHANGED <<task, upload, storeVars, execVars>>

(* prune_job_artifacts drains the queue at any time. *)
Drain(k) ==
  /\ k \in pending
  /\ Processed(k)
  /\ UNCHANGED <<jobVars, rows, execVars, readers>>

(* cleanup_expired_staged_media: an expired upload whose job has finished. *)
ExpireUpload(j) ==
  /\ upload[j] = "kept"
  /\ state[j] \in Settled
  /\ upload' = [upload EXCEPT ![j] = "gone"]
  /\ UNCHANGED <<state, task, storeVars, execVars, readers>>

Step(e) ==
  \/ Claim(e) \/ Decline(e) \/ Prepare(e) \/ PrepareFails(e)
  \/ Put(e) \/ PutFails(e) \/ Publish(e) \/ PublishFails(e) \/ Tidy(e) \/ Discard(e)
  \/ DropUpload(e) \/ Infer(e) \/ InferFails(e)
  \/ Succeed(e) \/ SucceedFails(e) \/ Fail(e) \/ Finally(e)

Next ==
  \/ \E e \in Invocation : Deliver(e) \/ Step(e) \/ Interrupt(e) \/ Kill(e)
  \/ \E j \in Job : Poll(j) \/ ExpireUpload(j) \/ (\E prior \in Open : Resolve(j, prior))
  \/ \E k \in AnyKey : Drain(k)

Spec == Init /\ [][Next]_vars

-----------------------------------------------------------------------------
(* Properties *)

(* A job that succeeded has a row for its input and for every format that was  *)
(* asked for (execute_transcription_job persists before mark_job_succeeded).   *)
SucceededIsComplete ==
  \A j \in Job : state[j] = "succeeded" => \A n \in Named(j) : rows[j][n] # NoKey

(* The object of every row is in the store, whatever is compensated, replaced  *)
(* or drained meanwhile (replace_artifact, process_pending_artifact_deletion). *)
RowsHaveObjects ==
  \A j \in Job : \A n \in Named(j) : rows[j][n] # NoKey => rows[j][n] \in objects

(* Unless executions are cut down, an object that no row names is queued for   *)
(* deletion, or its execution is about to publish or discard it.               *)
UnnamedObjectsAccountedFor ==
  Faults \subseteq {"error", "replay"} =>
    \A k \in objects :
      \/ Referenced(k)
      \/ k \in pending
      \/ \E e \in Invocation : pc[e] \in {"publish", "discard"} /\ k = Key(e)

(* The staged upload of an unfinished job is kept until its copy is published  *)
(* or its execution has given up (delete_staged_media, expiry cleanup).        *)
UploadKeptUntilCopied ==
  \A j \in Job : state[j] \in Open /\ upload[j] = "gone" =>
    \/ rows[j][SourceName[j]] # NoKey
    \/ \E e \in claimed : JobOf[e] = j /\ pc[e] \in Ended

(* Nothing changes what a producer was told of a settled job: neither its      *)
(* state nor the artifacts it lists (mark_job_*, the fence, reconciliation).   *)
SettledIsFinal ==
  \A j \in Job : state[j] \in Settled => state'[j] = state[j] /\ rows'[j] = rows[j]

(* Batch jobs live as producers are promised, with a single attempt.           *)
Attempts(j) == IF \E e \in claimed : JobOf[e] = j THEN 1 ELSE 0

Lifecycle == INSTANCE JobLifecycle WITH
  Job <- Job \ SyncJob,
  MaxAttempts <- 1,
  state <- [j \in Job \ SyncJob |-> state[j]],
  attempts <- [j \in Job \ SyncJob |-> Attempts(j)],
  result <- [j \in Job \ SyncJob |-> IF state[j] = "succeeded" THEN 1 ELSE 0]

LifecycleStep == [Lifecycle!Next]_(Lifecycle!vars)

=============================================================================
