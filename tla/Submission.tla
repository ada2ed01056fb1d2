----------------------------- MODULE Submission -----------------------------
(***************************************************************************)
(* Job submission (create_job_from_payload_for_actor in jobs/services.py)  *)
(* together with the staged uploads of module Staging.  A submission looks *)
(* for a live job with its task_ref and request, cleans up expired uploads *)
(* and inserts a job in one transaction that claims its upload; when it    *)
(* finds the upload claimed or the unique constraint violated, it looks    *)
(* again.  The insertion may be tried twice.                               *)
(***************************************************************************)
EXTENDS Staging

CONSTANTS
  Submitter,        \* requests that submit a job; those with one key are retries
  Ref,              \* Ref[s]: task_ref and request fingerprint, or NoRef
  NoRef,
  Input,            \* Input[s]: the upload submitted, or NoUpload
  NoUpload,
  RemotePull,       \* the execution mode of transcriptions
  NoJob

(* What an instance may give the constants. *)
SubmissionAssumption ==
  /\ StagingAssumption
  /\ Submitter \subseteq Cleaner \ Upload
  /\ IsFiniteSet(Job) /\ Job = 1 .. Cardinality(Job)
  /\ NoJob \notin Job
  /\ Input \in [Submitter -> Upload \cup {NoUpload}] /\ NoUpload \notin Upload
  /\ RemotePull \in BOOLEAN

VARIABLES
  state,      \* Job.state: "absent", "open", "succeeded", "failed" or "deleted"
  key,        \* the Ref of a job
  lapsed,     \* open remote jobs whose last lease has run out
  releasing,  \* jobs failed by a reconciliation that has yet to release their upload
  at, found, attempt, reason, answer    \* the submissions

jobVars == <<state, key, lapsed, releasing>>
submitVars == <<at, found, attempt, reason, answer>>
vars == <<stagingVars, jobVars, submitVars>>

TypeOK ==
  /\ StagingTypeOK
  /\ state \in [Job -> {"absent", "open", "succeeded", "failed", "deleted"}]
  /\ key \in [Job -> {Ref[s] : s \in Submitter} \cup {NoRef}]
  /\ \A j \in lapsed : state[j] = "open"
  /\ \A j \in releasing : state[j] \in {"failed", "deleted"}
  /\ finished = {j \in Job : state[j] \in {"succeeded", "failed", "deleted"}}
  /\ at \in [Submitter -> {"idle", "find", "check", "insert", "answered", "refused", "dead"}]
  /\ found \in [Submitter -> Job \cup {NoJob}]
  /\ attempt \in [Submitter -> 1 .. 2]
  /\ reason \in [Submitter -> {"first", "claimed", "unique"}]
  /\ answer \in [Submitter -> Job \cup {NoJob}]

Init ==
  /\ StagingInit
  /\ state = [j \in Job |-> "absent"]
  /\ key = [j \in Job |-> NoRef]
  /\ lapsed = {} /\ releasing = {}
  /\ at = [s \in Submitter |-> "idle"]
  /\ found = [s \in Submitter |-> NoJob]
  /\ attempt = [s \in Submitter |-> 1]
  /\ reason = [s \in Submitter |-> "first"]
  /\ answer = [s \in Submitter |-> NoJob]

-----------------------------------------------------------------------------
Existing == {j \in Job : state[j] \notin {"absent", "deleted"}}
Live(r) == {j \in Existing : state[j] # "failed" /\ key[j] = r}

Proceed(s, label) == at' = [at EXCEPT ![s] = label]

(* A parsed request arrives, naming an upload only once its id is known. *)
Submit(s) ==
  /\ at[s] = "idle"
  /\ Input[s] # NoUpload => stage[Input[s]] = "done"
  /\ Proceed(s, "find")
  /\ UNCHANGED <<stagingVars, jobVars, found, attempt, reason, answer>>

(* find_reusable_job: read the live jobs of the task_ref that match, newest first. *)
Find(s) ==
  /\ at[s] = "find"
  /\ found' = [found EXCEPT ![s] =
                 IF Ref[s] = NoRef \/ Live(Ref[s]) = {} THEN NoJob
                 ELSE CHOOSE j \in Live(Ref[s]) : \A i \in Live(Ref[s]) : i <= j]
  /\ Proceed(s, "check")
  /\ UNCHANGED <<stagingVars, jobVars, attempt, reason, answer>>

(* Variant with a fault, for comparison only: the insertion is not tried again. *)
NotFoundAtOnce(s) ==
  CASE reason[s] = "first" ->
         /\ Proceed(s, "insert")
         /\ IF Input[s] = NoUpload THEN UNCHANGED listed
            ELSE \E L \in MayList({Input[s]}) : listed' = [listed EXCEPT ![s] = L]
         /\ UNCHANGED attempt
    [] OTHER ->
         /\ Proceed(s, "refused")
         /\ UNCHANGED <<listed, attempt>>

(* Nothing to reuse: go on to cleanup and insertion, try it again, or give up. *)
NotFound(s) ==
  CASE reason[s] = "first" ->
         /\ Proceed(s, "insert")
         /\ IF Input[s] = NoUpload THEN UNCHANGED listed
            ELSE \E L \in MayList({Input[s]}) : listed' = [listed EXCEPT ![s] = L]
         /\ UNCHANGED attempt
    [] reason[s] = "unique" /\ attempt[s] = 1 ->
         /\ Proceed(s, "insert")
         /\ attempt' = [attempt EXCEPT ![s] = 2]
         /\ UNCHANGED listed
    [] OTHER ->
         /\ Proceed(s, "refused")
         /\ UNCHANGED <<listed, attempt>>

(* The job that was read is reconciled: it may have failed, or fail now (Reconcile). *)
CheckFound(s) ==
  LET j == found[s] IN
  /\ at[s] = "check" /\ j # NoJob
  /\ state[j] \in {"open", "succeeded"} /\ j \notin lapsed
  /\ answer' = [answer EXCEPT ![s] = j]
  /\ Proceed(s, "answered")
  /\ UNCHANGED <<stagingVars, jobVars, found, attempt, reason>>

CheckFailed(s) ==
  LET j == found[s] IN
  /\ at[s] = "check"
  /\ j # NoJob => state[j] = "failed"
  /\ NotFound(s)
  /\ UNCHANGED <<uploadVars, finished, stage, jobVars, found, reason, answer>>

(* The row is gone: refresh_from_db raises, and so does the request. *)
CheckDeleted(s) ==
  /\ at[s] = "check" /\ found[s] # NoJob
  /\ state[found[s]] = "deleted"
  /\ Proceed(s, "refused")
  /\ UNCHANGED <<stagingVars, jobVars, found, attempt, reason, answer>>

-----------------------------------------------------------------------------
(* insert_batch_job, one transaction *)

(* reconcile_remote_staged_upload_claim_for_submission: the job that holds the   *)
(* upload has failed, or fails now, and lets go of it.                           *)
Recovered(u) == RemotePull /\ (claim[u] \in lapsed \/ (claim[u] # Unclaimed /\ state[claim[u]] = "failed"))

Reconciled(s) ==
  IF Input[s] # NoUpload /\ Recovered(Input[s]) THEN {claim[Input[s]]} ELSE {}

(* The partial unique constraint of non-failed jobs. *)
Conflict(s) == Ref[s] # NoRef /\ Live(Ref[s]) \ Reconciled(s) # {}

(* An unclaimed upload that is still to be had, or a claim that reconciliation ends. *)
UploadFree(u) == u \in rows /\ (claim[u] = Unclaimed \/ Recovered(u))

Look(s, why) ==
  /\ Proceed(s, "find")
  /\ reason' = [reason EXCEPT ![s] = why]
  /\ UNCHANGED <<stagingVars, jobVars, found, attempt, answer>>

Inserting(s) == at[s] = "insert" /\ listed[s] = {}

Insert(s) ==
  LET u == Input[s]
      gone == Reconciled(s)
      new == CHOOSE j \in Job : state[j] = "absent" /\ \A i \in Job : i < j => state[i] # "absent"
  IN
  /\ Inserting(s)
  /\ \E j \in Job : state[j] = "absent"
  /\ u # NoUpload => UploadFree(u) /\ expiry[u] # "past"
  /\ ~Conflict(s)
  /\ state' = [j \in Job |-> IF j = new THEN "open" ELSE IF j \in gone THEN "failed" ELSE state[j]]
  /\ key' = [key EXCEPT ![new] = Ref[s]]
  /\ finished' = finished \cup gone
  /\ lapsed' = lapsed \ gone
  /\ claim' = [v \in Upload |-> IF v = u THEN new ELSE IF claim[v] \in gone THEN Unclaimed ELSE claim[v]]
  /\ answer' = [answer EXCEPT ![s] = new]
  /\ Proceed(s, "answered")
  /\ UNCHANGED <<rows, objects, expiry, stage, listed, releasing, found, attempt, reason>>

(* The transaction is rolled back, reconciliation included. *)

(* StagedMediaAlreadyClaimed *)
InsertClaimed(s) ==
  /\ Inserting(s)
  /\ Input[s] # NoUpload
  /\ Input[s] \in rows /\ ~UploadFree(Input[s])
  /\ Look(s, "claimed")

(* IntegrityError *)
InsertConflict(s) ==
  /\ Inserting(s)
  /\ Input[s] # NoUpload => UploadFree(Input[s]) /\ expiry[Input[s]] # "past"
  /\ Conflict(s)
  /\ Look(s, "unique")

(* Unknown or expired upload, or a database that gives up. *)
InsertRefused(s) ==
  /\ Inserting(s)
  /\ \/ Input[s] # NoUpload /\ Input[s] \notin rows
     \/ Input[s] # NoUpload /\ UploadFree(Input[s]) /\ expiry[Input[s]] = "past"
     \/ Can("db_error")
  /\ Proceed(s, "refused")
  /\ UNCHANGED <<stagingVars, jobVars, found, attempt, reason, answer>>

KillSubmitter(s) ==
  /\ Can("kill")
  /\ at[s] \notin {"idle", "answered", "refused", "dead"}
  /\ Proceed(s, "dead")
  /\ listed' = [listed EXCEPT ![s] = {}]
  /\ UNCHANGED <<uploadVars, finished, stage, jobVars, found, attempt, reason, answer>>

SubmitStep(s) ==
  \/ Submit(s) \/ Find(s) \/ CheckFound(s) \/ CheckFailed(s) \/ CheckDeleted(s)
  \/ Insert(s) \/ InsertClaimed(s) \/ InsertConflict(s) \/ InsertRefused(s)
  \/ KillSubmitter(s)

-----------------------------------------------------------------------------
(* The life of a job, as far as submissions see it *)

Settled(j, final) ==
  /\ state' = [state EXCEPT ![j] = final]
  /\ finished' = finished \cup {j}
  /\ lapsed' = lapsed \ {j}
  /\ UNCHANGED <<expiry, stage, listed, key, submitVars>>

(* A worker completes, and the upload is deleted if the store agrees. *)
JobSucceeds(j) ==
  /\ state[j] = "open" /\ j \notin lapsed
  /\ Settled(j, "succeeded")
  /\ UNCHANGED <<rows, objects, claim, releasing>>

(* A local job fails and keeps its claim; a remote one releases its upload. *)
JobFails(j) ==
  /\ state[j] = "open" /\ j \notin lapsed
  /\ Settled(j, "failed")
  /\ IF RemotePull THEN ReleaseClaims(j) ELSE UNCHANGED claim
  /\ UNCHANGED <<rows, objects, releasing>>

(* delete_staged_media once the input was copied, or after the completion. *)
JobConsumes(j) ==
  /\ state[j] = IF RemotePull THEN "succeeded" ELSE "open"
  /\ \E u \in Upload : claim[u] = j /\ Deleted(u)
  /\ UNCHANGED <<expiry, finished, stage, listed, jobVars, submitVars>>

LeaseLapses(j) ==
  /\ RemotePull /\ state[j] = "open"
  /\ lapsed' = lapsed \cup {j}
  /\ UNCHANGED <<stagingVars, state, key, releasing, submitVars>>

(* reconcile_remote_job_state by anyone who looks: fail, then release the upload. *)
Reconcile(j) ==
  /\ j \in lapsed
  /\ Settled(j, "failed")
  /\ releasing' = releasing \cup {j}
  /\ UNCHANGED <<rows, objects, claim>>

ReleaseUpload(j) ==
  /\ j \in releasing
  /\ releasing' = releasing \ {j}
  /\ \/ ReleaseClaims(j)
     \/ Can("kill") /\ UNCHANGED claim
  /\ UNCHANGED <<rows, objects, expiry, finished, stage, listed, state, key, lapsed, submitVars>>

(* A producer deletes a finished job that has let go of its upload. *)
JobDeleted(j) ==
  /\ state[j] \in {"succeeded", "failed"}
  /\ \A u \in Upload : claim[u] # j
  /\ state' = [state EXCEPT ![j] = "deleted"]
  /\ UNCHANGED <<stagingVars, key, lapsed, releasing, submitVars>>

JobStep(j) ==
  \/ JobSucceeds(j) \/ JobFails(j) \/ JobConsumes(j) \/ LeaseLapses(j)
  \/ Reconcile(j) \/ ReleaseUpload(j) \/ JobDeleted(j)

UploadStep ==
  /\ CleanupStep \/ \E u \in Upload : StagingStep(u)
  /\ UNCHANGED <<jobVars, submitVars>>

Next ==
  \/ UploadStep
  \/ \E s \in Submitter : SubmitStep(s)
  \/ \E j \in Job : JobStep(j)

Spec == Init /\ [][Next]_vars

-----------------------------------------------------------------------------
(* Properties *)

(* However many submissions race, a task_ref and request have one live job     *)
(* (TASK_REF_CREATE_ATTEMPTS, the unique constraint).                          *)
OneLiveJobPerRequest ==
  \A i, j \in Job : i # j /\ key[i] = key[j] /\ key[i] # NoRef =>
    ~({state[i], state[j]} \subseteq {"open", "succeeded"})

(* Two producers that were answered with different jobs for one request may    *)
(* both go on waiting only if one of the jobs has failed or is deleted.        *)
SameAnswerWhileAlive ==
  \A s, t \in Submitter :
    /\ Ref[s] = Ref[t] /\ Ref[s] # NoRef
    /\ at[s] = "answered" /\ at[t] = "answered" /\ answer[s] # answer[t]
    => \E j \in {answer[s], answer[t]} : state[j] \in {"failed", "deleted"}

(* From submission until its job makes a copy, the upload of an open job stays *)
(* its own, row and object, through cleanups, lapses and other submissions.    *)
JobKeepsUpload ==
  \A u \in Upload : Busy(u) =>
    \/ claim'[u] = claim[u] /\ u \in rows' \cap objects'
    \/ claim[u] \in finished'
    \/ ~RemotePull /\ listed' = listed /\ u \notin objects'

(* A submission is not turned away because its own job has taken the upload:   *)
(* its producer would give up a job that is alive.                             *)
NoFalseRefusal ==
  \A s \in Submitter :
    at[s] = "insert" /\ at'[s] = "refused" /\ ~Can("db_error") /\ Input[s] # NoUpload =>
      claim[Input[s]] \notin Live(Ref[s]) \ lapsed

(* A submission gives up the race for the constraint only after two winners    *)
(* failed before it could find them (TASK_REF_CREATE_ATTEMPTS).                *)
GivesUpAfterTwoFailures ==
  \A s \in Submitter :
    at[s] = "refused" /\ reason[s] = "unique" /\ Input[s] = NoUpload =>
      LET its(final) == {j \in Job : key[j] = Ref[s] /\ state[j] = final}
      IN  its("deleted") # {} \/ Cardinality(its("failed")) >= 2

=============================================================================
