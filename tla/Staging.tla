------------------------------ MODULE Staging ------------------------------
(***************************************************************************)
(* Staged uploads (jobs/staging.py).  A request that stages an upload      *)
(* first cleans up a few expired ones, commits the row of its own with an  *)
(* expiry a day away, stores the object, and then sets the real expiry.    *)
(* When storing or that update fails, it removes object and row again, or  *)
(* leaves a row that cleanup will find.  A submission claims an upload for *)
(* a job.  Database transactions hold SQLite's write lock and are one      *)
(* step; the artifact store takes no part in them.                         *)
(***************************************************************************)
EXTENDS Naturals, FiniteSets

CONSTANTS
  Upload,
  Job,
  Unclaimed,        \* the claimed_by_job of an upload without a job
  Cleaner,          \* the requests that clean up: those that stage, and others
  CleanupLimit,     \* ADMISSION_CLEANUP_LIMIT
  Faults            \* what goes wrong, see StagingFault

(***************************************************************************)
(* error:    the store refuses a call.                                     *)
(* db_error: a statement or its commit fails.                              *)
(* kill:     the process dies.                                             *)
(* slow:     storing an object takes longer than the in-progress expiry.   *)
(***************************************************************************)
StagingFault == {"error", "db_error", "kill", "slow"}

(* What an instance may give the constants. *)
StagingAssumption ==
  /\ Upload \subseteq Cleaner
  /\ Unclaimed \notin Job
  /\ CleanupLimit \in Nat \ {0}
  /\ Faults \subseteq StagingFault

VARIABLES
  rows,       \* uploads with a StagedMedia row
  objects,    \* uploads whose object is in the store
  expiry,     \* "progress": a day ahead, "retained": the retention ahead, "past"
  claim,      \* claim[u]: claimed_by_job
  finished,   \* jobs with finished_at
  stage,      \* stage[u]: where the request that stages u is
  listed      \* listed[c]: the expired uploads c has yet to look at

uploadVars == <<rows, objects, expiry, claim>>
stagingVars == <<uploadVars, finished, stage, listed>>

Can(fault) == fault \in Faults

Storing == {"put", "update", "discard", "keep"}

StagingTypeOK ==
  /\ rows \subseteq Upload
  /\ objects \subseteq Upload
  /\ expiry \in [Upload -> {"progress", "retained", "past"}]
  /\ claim \in [Upload -> Job \cup {Unclaimed}]
  /\ \A u \in Upload : claim[u] # Unclaimed => u \in rows
  /\ finished \subseteq Job
  /\ stage \in [Upload -> {"idle", "clean", "done", "refused", "dead"} \cup Storing]
  /\ listed \in [Cleaner -> SUBSET Upload]

StagingInit ==
  /\ rows = {} /\ objects = {}
  /\ expiry = [u \in Upload |-> "progress"]
  /\ claim = [u \in Upload |-> Unclaimed]
  /\ finished = {}
  /\ stage = [u \in Upload |-> "idle"]
  /\ listed = [c \in Cleaner |-> {}]

-----------------------------------------------------------------------------
(* cleanup_expired_staged_media *)

Busy(u) == claim[u] \in Job \ finished

(* Variant with a fault, for comparison only: a claim does not protect an upload. *)
RemovableThoughClaimed(u) == u \in rows /\ expiry[u] = "past"

(* An expired upload nobody needs, as the listing and the check under lock see it. *)
Removable(u) == u \in rows /\ expiry[u] = "past" /\ ~Busy(u)

(* Up to the limit, the request lists what looks expired, its own upload excluded. *)
MayList(excluded) ==
  {L \in SUBSET {u \in Upload \ excluded : Removable(u)} :
     Cardinality(L) <= CleanupLimit}

(* Row and claim of a deleted upload. *)
RowGone(u) ==
  /\ rows' = rows \ {u}
  /\ claim' = [claim EXCEPT ![u] = Unclaimed]

(* delete_staged_media: the object, then the row; either call may fail. *)
Deleted(u) ==
  \/ /\ objects' = objects \ {u}
     /\ RowGone(u)
  \/ /\ Can("db_error")
     /\ objects' = objects \ {u}
     /\ UNCHANGED <<rows, claim>>
  \/ /\ Can("error")
     /\ UNCHANGED <<objects, rows, claim>>

(* One listed upload: whatever has changed since the listing is seen under the lock. *)
CleanOne(c, u) ==
  /\ u \in listed[c]
  /\ listed' = [listed EXCEPT ![c] = @ \ {u}]
  /\ IF Removable(u) THEN Deleted(u) ELSE UNCHANGED <<objects, rows, claim>>
  /\ UNCHANGED <<expiry, finished, stage>>

(* Cleanup by anyone else who runs it, such as the maintenance command. *)
Clean(c) ==
  /\ c \notin Upload
  /\ listed[c] = {}
  /\ \E L \in MayList({}) : L # {} /\ listed' = [listed EXCEPT ![c] = L]
  /\ UNCHANGED <<uploadVars, finished, stage>>

-----------------------------------------------------------------------------
(* stage_uploaded_audio *)

Enter(u, label) == stage' = [stage EXCEPT ![u] = label]

StartStaging(u) ==
  /\ stage[u] = "idle"
  /\ Enter(u, "clean")
  /\ \E L \in MayList({}) : listed' = [listed EXCEPT ![u] = L]
  /\ UNCHANGED <<uploadVars, finished>>

(* Variant with a fault, for comparison only: the row is written with the object stored. *)
RegisterStored(u) ==
  /\ stage[u] = "clean" /\ listed[u] = {}
  /\ IF u \in objects THEN rows' = rows \cup {u} /\ Enter(u, "update") /\ UNCHANGED objects
     ELSE objects' = objects \cup {u} /\ UNCHANGED <<rows, stage>>
  /\ UNCHANGED <<expiry, claim, finished, listed>>

(* The durable registration. *)
Register(u) ==
  /\ stage[u] = "clean" /\ listed[u] = {}
  /\ rows' = rows \cup {u}
  /\ Enter(u, "put")
  /\ UNCHANGED <<objects, expiry, claim, finished, listed>>

(* Too large, not audio, or the transaction fails. *)
Refuse(u) ==
  /\ stage[u] = "clean" /\ listed[u] = {}
  /\ Enter(u, "refused")
  /\ UNCHANGED <<uploadVars, finished, listed>>

Put(u) ==
  /\ stage[u] = "put"
  /\ objects' = objects \cup {u}
  /\ Enter(u, "update")
  /\ UNCHANGED <<rows, expiry, claim, finished, listed>>

(* put_file raises, with or without having stored the object. *)
PutFails(u) ==
  /\ stage[u] = "put"
  /\ Can("error")
  /\ objects' \in {objects, objects \cup {u}}
  /\ Enter(u, "discard")
  /\ UNCHANGED <<rows, expiry, claim, finished, listed>>

(* The final update; the upload's id is only now told to the producer. *)
Update(u) ==
  /\ stage[u] = "update"
  /\ u \in rows
  /\ expiry' = [expiry EXCEPT ![u] = "retained"]
  /\ Enter(u, "done")
  /\ UNCHANGED <<rows, objects, claim, finished, listed>>

(* save(update_fields) fails when the row has been cleaned up meanwhile. *)
UpdateFails(u) ==
  /\ stage[u] = "update"
  /\ u \notin rows \/ Can("db_error")
  /\ Enter(u, "discard")
  /\ UNCHANGED <<uploadVars, finished, listed>>

(* discard_unfinished_staged_media: the deletion succeeds whole, ... *)
Discard(u) ==
  /\ stage[u] = "discard"
  /\ objects' = objects \ {u}
  /\ RowGone(u)
  /\ Enter(u, "refused")
  /\ UNCHANGED <<expiry, finished, listed>>

(* ... or fails at the object or at the row, ... *)
DiscardFails(u) ==
  /\ stage[u] = "discard"
  /\ \/ Can("error") /\ UNCHANGED objects
     \/ Can("db_error") /\ objects' = objects \ {u}
  /\ Enter(u, "keep")
  /\ UNCHANGED <<rows, expiry, claim, finished, listed>>

(* ... and the row is saved again for cleanup to find, unless that fails too. *)
Keep(u) ==
  /\ stage[u] = "keep"
  /\ \/ rows' = rows \cup {u} /\ expiry' = [expiry EXCEPT ![u] = "past"]
     \/ Can("db_error") /\ UNCHANGED <<rows, expiry>>
  /\ Enter(u, "refused")
  /\ UNCHANGED <<objects, claim, finished, listed>>

KillStaging(u) ==
  /\ Can("kill")
  /\ stage[u] \in Storing \cup {"clean"}
  /\ Enter(u, "dead")
  /\ listed' = [listed EXCEPT ![u] = {}]
  /\ UNCHANGED <<uploadVars, finished>>

(* An expiry passes: the in-progress one only while nothing else happens for a day. *)
Lapse(u) ==
  /\ u \in rows
  /\ \/ expiry[u] = "retained"
     \/ expiry[u] = "progress" /\ (Can("slow") \/ stage[u] \notin Storing)
  /\ expiry' = [expiry EXCEPT ![u] = "past"]
  /\ UNCHANGED <<rows, objects, claim, finished, stage, listed>>

StagingStep(u) ==
  \/ StartStaging(u) \/ Register(u) \/ Refuse(u) \/ Put(u) \/ PutFails(u)
  \/ Update(u) \/ UpdateFails(u) \/ Discard(u) \/ DiscardFails(u) \/ Keep(u)
  \/ KillStaging(u) \/ Lapse(u)

CleanupStep == \E c \in Cleaner : Clean(c) \/ \E u \in Upload : CleanOne(c, u)

-----------------------------------------------------------------------------
(* Jobs, as far as uploads see them; Submission has them in full.            *)

(* get_staged_media_for_submission and claim_staged_media_for_job *)
Submittable(u) == u \in rows /\ claim[u] = Unclaimed /\ expiry[u] # "past"

Claim(u, j) ==
  /\ stage[u] = "done" /\ Submittable(u)
  /\ j \notin finished /\ \A v \in Upload : claim[v] # j
  /\ claim' = [claim EXCEPT ![u] = j]
  /\ UNCHANGED <<rows, objects, expiry, finished, stage, listed>>

Finish(j) ==
  /\ \E u \in Upload : claim[u] = j
  /\ finished' = finished \cup {j}
  /\ UNCHANGED <<uploadVars, stage, listed>>

(* release_staged_media_claims_for_job *)
ReleaseClaims(j) == claim' = [u \in Upload |-> IF claim[u] = j THEN Unclaimed ELSE claim[u]]

Release(j) ==
  /\ j \in finished
  /\ ReleaseClaims(j)
  /\ UNCHANGED <<rows, objects, expiry, finished, stage, listed>>

StagingNext ==
  \/ CleanupStep
  \/ \E u \in Upload : StagingStep(u) \/ \E j \in Job : Claim(u, j)
  \/ \E j \in Job : Finish(j) \/ Release(j)

StagingSpec == StagingInit /\ [][StagingNext]_stagingVars

-----------------------------------------------------------------------------
(* Properties *)

(* A stored object has a row that cleanup can find, or a request that is about *)
(* to discard it (the docstring of stage_uploaded_audio).                      *)
ObjectsFindable ==
  \A u \in objects : u \in rows \/ stage[u] \in {"put", "update", "discard", "keep"}

(* The upload of an unfinished job is there, row and object: no cleanup that   *)
(* listed it before the claim takes it away (cleanup_expired_staged_media).    *)
BusyUploadsKept ==
  \A u \in Upload : Busy(u) => u \in rows' \cap objects' /\ claim'[u] = claim[u]

(* What a producer was given an id for is complete: cleanup never takes an     *)
(* object and leaves a row that could still be submitted.                      *)
SubmittableUploadsComplete ==
  \A u \in Upload : stage[u] = "done" /\ Submittable(u) => u \in objects

(* What has to be removed in the end (MCEnds): the object of an upload whose   *)
(* request or job is over.                                                     *)
Lost(u) == u \in objects /\ (stage[u] \in {"dead", "refused"} \/ claim[u] \in finished)

=============================================================================
