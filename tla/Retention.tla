------------------------------ MODULE Retention ------------------------------
(***************************************************************************)
(* Deletion of what jobs stored (jobs/retention.py): the backstop of       *)
(* prune_job_artifacts, the queue of pending deletions and DELETE          *)
(* /v1/jobs/{id}, beside the workers that upload and the submissions that  *)
(* take over a released upload.  Every deletion is one transaction under   *)
(* the write lock, but the object store takes no part in it: the object    *)
(* goes first and its row second.                                          *)
(***************************************************************************)
EXTENDS Naturals, FiniteSets

CONSTANTS
  Job, Profile,     \* all jobs and those of a transcription profile
  Nobody,           \* the owner of an upload no job has claimed
  Attempt,          \* attempts of remote jobs
  AttemptOf,        \* AttemptOf[a]: the job of an attempt
  Object,
  Below,            \* Below[o]: the attempt whose prefix the key of o is below, or NoAttempt
  NoAttempt,
  Outside,          \* objects whose key is no layout voxhelm generates (or is a link)
  Row,              \* rows that name an object
  Names,            \* Names[r]: the object of a row
  Sort,             \* Sort[r]: "final", "intermediate" or "upload"
  First,            \* First[r]: the job a row belongs to at first
  Caller, Target,   \* calls of DELETE and the job each one names
  Faults            \* subset of {"error", "half", "list", "late", "kill"}

(* What an instance may give the constants. *)
RetentionAssumption ==
  /\ Profile \subseteq Job /\ Nobody \notin Job /\ NoAttempt \notin Attempt
  /\ AttemptOf \in [Attempt -> Job]
  /\ Below \in [Object -> Attempt \cup {NoAttempt}]
  /\ Outside \subseteq Object
  /\ Names \in [Row -> Object]
  /\ Sort \in [Row -> {"final", "intermediate", "upload"}]
  /\ First \in [Row -> Job]
  /\ Target \in [Caller -> Job]
  /\ Row \cap Attempt = {}

VARIABLES
  state,     \* "running", "settled" or "gone"
  aged,      \* settled jobs past the backstop of their profile or the metadata retention
  leased,    \* attempts a worker was given
  prefixes,  \* attempts with a RemoteAttemptPrefix row
  rows,      \* JobArtifact and StagedMedia rows
  owner,     \* the job of a row
  old,       \* uploads past their expiry
  pending,   \* rows that were replaced and whose object is queued for deletion
  objects,   \* the artifact store
  at, todo         \* the calls: where, and what is left of the lists read first

jobVars == <<state, aged, leased>>
dataVars == <<prefixes, rows, owner, old, pending, objects>>
callVars == <<at, todo>>
vars == <<jobVars, dataVars, callVars>>

Can(fault) == fault \in Faults
Steps == {"artifacts", "pending", "prefixes", "staged", "finish"}
Answers == {"deleted", "missing", "conflict", "retry"}

TypeOK ==
  /\ state \in [Job -> {"running", "settled", "gone"}]
  /\ aged \subseteq {j \in Job : state[j] # "running"}
  /\ prefixes \subseteq leased /\ leased \subseteq Attempt
  /\ rows \subseteq Row /\ pending \subseteq Row \ rows /\ old \subseteq Row
  /\ owner \in [Row -> Job \cup {Nobody}]
  /\ objects \subseteq Object
  /\ at \in [Caller -> {"idle"} \cup Steps \cup Answers]
  /\ todo \in [Caller -> SUBSET (Row \cup Attempt)]

(* Uploads are there from the submission on; an object outside the layout may be there too. *)
Init ==
  /\ state = [j \in Job |-> "running"]
  /\ aged = {} /\ leased = {} /\ prefixes = {} /\ pending = {} /\ old = {}
  /\ rows = {r \in Row : Sort[r] = "upload"}
  /\ owner = First
  /\ objects = Outside \cup {Names[r] : r \in rows}
  /\ at = [c \in Caller |-> "idle"]
  /\ todo = [c \in Caller |-> {}]

-----------------------------------------------------------------------------
(* What jobs and submissions do *)

(* A claim: the prefix of a profile job's attempt is recorded before anything is stored. *)
Lease(a) ==
  /\ state[AttemptOf[a]] = "running" /\ a \notin leased
  /\ leased' = leased \cup {a}
  /\ prefixes' = IF AttemptOf[a] \in Profile THEN prefixes \cup {a} ELSE prefixes
  /\ UNCHANGED <<state, aged, rows, owner, old, pending, objects, callVars>>

(* A worker stores an object below its prefix, late if nobody told it that the job is over. *)
Upload(o) ==
  /\ Below[o] \in leased /\ o \notin objects
  /\ state[AttemptOf[Below[o]]] = "running" \/ Can("late")
  /\ objects' = objects \cup {o}
  /\ UNCHANGED <<jobVars, prefixes, rows, owner, old, pending, callVars>>

Artifacts(j) == {r \in rows : owner[r] = j /\ Sort[r] # "upload"}

(* Local execution stores an object and its row; an intermediate row it replaces is  *)
(* queued, unless the new row or a replaced final one is about the same object.       *)
Replace(r) ==
  LET j == First[r]
      before == Artifacts(j)
      queued == {q \in before : /\ Sort[q] = "intermediate" /\ Names[q] \notin Outside
                               /\ Names[q] # Names[r]
                               /\ \A p \in before : Sort[p] = "final" => Names[p] # Names[q]}
      gone == {q \in before : Sort[q] = "intermediate"} IN
  /\ state[j] = "running"
  /\ r \in Row \ (rows \cup pending) /\ Sort[r] # "upload" /\ Below[Names[r]] = NoAttempt
  /\ \A a \in leased : AttemptOf[a] # j
  /\ objects' = objects \cup {Names[r]}
  /\ rows' = (rows \ gone) \cup {r}
  /\ pending' = pending \cup queued
  /\ UNCHANGED <<jobVars, prefixes, owner, old, callVars>>

(* A completion registers what the attempt uploaded and the job has succeeded. *)
Complete(a) ==
  LET j == AttemptOf[a] IN
  /\ a \in leased /\ state[j] = "running"
  /\ \E R \in SUBSET {r \in Row : First[r] = j /\ Sort[r] # "upload" /\ Names[r] \in objects
                                  /\ Below[Names[r]] = a} :
       rows' = rows \cup R
  /\ state' = [state EXCEPT ![j] = "settled"]
  /\ UNCHANGED <<aged, leased, prefixes, owner, old, pending, objects, callVars>>

(* A failure, a reconciled lapse, or the end of a local job. *)
Settle(j) ==
  /\ state[j] = "running"
  /\ state' = [state EXCEPT ![j] = "settled"]
  /\ UNCHANGED <<aged, leased, dataVars, callVars>>

Age(j) ==
  /\ state[j] = "settled" /\ j \notin aged
  /\ aged' = aged \cup {j}
  /\ UNCHANGED <<state, leased, dataVars, callVars>>

(* release_staged_media_claims_for_job, after the job has failed *)
ReleaseUpload(r) ==
  /\ r \in rows /\ Sort[r] = "upload" /\ owner[r] # Nobody
  /\ state[owner[r]] # "running"
  /\ owner' = [owner EXCEPT ![r] = Nobody]
  /\ UNCHANGED <<jobVars, prefixes, rows, old, pending, objects, callVars>>

(* A submission takes over a released upload that has not expired. *)
ClaimUpload(r, j) ==
  /\ r \in rows \ old /\ Sort[r] = "upload" /\ owner[r] = Nobody
  /\ state[j] = "running"
  /\ owner' = [owner EXCEPT ![r] = j]
  /\ UNCHANGED <<jobVars, prefixes, rows, old, pending, objects, callVars>>

Expire(r) ==
  /\ Sort[r] = "upload" /\ r \notin old
  /\ old' = old \cup {r}
  /\ UNCHANGED <<jobVars, prefixes, rows, owner, pending, objects, callVars>>

JobStep ==
  \/ \E a \in Attempt : Lease(a) \/ Complete(a)
  \/ \E o \in Object : Upload(o)
  \/ \E r \in Row : Replace(r) \/ ReleaseUpload(r) \/ Expire(r)
  \/ \E r \in Row, j \in Job : ClaimUpload(r, j)
  \/ \E j \in Job : Settle(j) \/ Age(j)

-----------------------------------------------------------------------------
(* One deletion *)

(* Variant with a fault, for comparison only: nobody asks who else points at the object. *)
NeverReferenced(o, self) == o \notin Object

(* object_is_referenced: an artifact or staged upload, other than the one that goes. *)
Referenced(o, self) == \E r \in rows \ self : Names[r] = o

(* job_key_is_deletable, staged_key_is_deletable: the layout of this job, and a plain file. *)
Deletable(o, j) ==
  /\ o \notin Outside
  /\ Below[o] # NoAttempt => AttemptOf[Below[o]] = j

Freed(o, self) == IF Referenced(o, self) THEN {} ELSE {o} \cap objects

(* Variant with a fault, for comparison only: the row goes although its object stays. *)
RowFirst(r) ==
  /\ rows' = rows \ {r}
  /\ objects' = objects \ Freed(Names[r], {r}) \/ objects' = objects
  /\ UNCHANGED <<prefixes, owner, old, pending>>

(* A row and its object. *)
Remove(r) ==
  /\ rows' = rows \ {r}
  /\ objects' = objects \ Freed(Names[r], {r})
  /\ UNCHANGED <<prefixes, owner, old, pending>>

(* The transaction fails after the object has gone. *)
HalfRemove(r) ==
  /\ Can("half")
  /\ objects' = objects \ Freed(Names[r], {r})
  /\ UNCHANGED <<prefixes, rows, owner, old, pending>>

(* process_pending_artifact_deletion *)
Drain(r) ==
  /\ r \in pending /\ Deletable(Names[r], First[r])
  /\ pending' = pending \ {r}
  /\ objects' = objects \ Freed(Names[r], {})
  /\ UNCHANGED <<prefixes, rows, owner, old>>

(* ... its transaction fails after the object has gone: the entry stays. *)
HalfDrain(r) ==
  /\ Can("half")
  /\ r \in pending /\ Deletable(Names[r], First[r])
  /\ objects' = objects \ Freed(Names[r], {})
  /\ UNCHANGED <<prefixes, rows, owner, old, pending>>

KeysBelow(a) == {o \in objects : Below[o] = a}

(* clean_attempt_prefix: all that no row points at, and then the record. *)
CleanPrefix(a) ==
  /\ a \in prefixes /\ state[AttemptOf[a]] # "running"
  /\ KeysBelow(a) \cap Outside = {}
  /\ prefixes' = prefixes \ {a}
  /\ objects' = objects \ UNION {Freed(o, {}) : o \in KeysBelow(a)}
  /\ UNCHANGED <<rows, owner, old, pending>>

(* A deletion fails, after some of the objects have gone. *)
HalfCleanPrefix(a) ==
  /\ Can("half")
  /\ a \in prefixes /\ state[AttemptOf[a]] # "running"
  /\ KeysBelow(a) \cap Outside = {}
  /\ \E O \in SUBSET KeysBelow(a) : objects' = objects \ UNION {Freed(o, {}) : o \in O}
  /\ UNCHANGED <<prefixes, rows, owner, old, pending>>

-----------------------------------------------------------------------------
(* prune_job_artifacts; each transaction asks again whether its row is due *)

BackstopPassed(j) == j \in Profile \cap aged

(* expired_intermediate_artifacts *)
ArtifactDue(r) ==
  /\ r \in rows /\ Sort[r] # "upload"
  /\ state[owner[r]] = "settled"
  /\ Sort[r] = "intermediate" \/ BackstopPassed(owner[r])

(* staged_candidates *)
UploadDue(r) ==
  /\ r \in rows /\ Sort[r] = "upload"
  /\ IF owner[r] = Nobody THEN r \in old
     ELSE BackstopPassed(owner[r]) \/ (r \in old /\ state[owner[r]] # "running")

PruneRow(r) ==
  /\ ArtifactDue(r) \/ UploadDue(r)
  /\ Deletable(Names[r], First[r])
  /\ Remove(r) \/ HalfRemove(r)

PrunePrefix(a) ==
  /\ BackstopPassed(AttemptOf[a])
  /\ CleanPrefix(a) \/ HalfCleanPrefix(a)

Owns(j) ==
  \/ \E r \in rows : owner[r] = j
  \/ \E r \in pending : First[r] = j
  \/ \E a \in prefixes : AttemptOf[a] = j

(* expired_job_metadata *)
PruneJob(j) ==
  /\ state[j] = "settled" /\ j \in aged /\ ~Owns(j)
  /\ state' = [state EXCEPT ![j] = "gone"]

Sweep ==
  \/ /\ \/ \E r \in Row : PruneRow(r) \/ Drain(r) \/ HalfDrain(r)
        \/ \E a \in Attempt : PrunePrefix(a)
     /\ UNCHANGED <<jobVars, callVars>>
  \/ /\ \E j \in Job : PruneJob(j)
     /\ UNCHANGED <<aged, leased, dataVars, callVars>>

-----------------------------------------------------------------------------
(* delete_job_for_producer *)

Goto(c, label) == at' = [at EXCEPT ![c] = label]

RowsOf(j) == {r \in rows : owner[r] = j}
PrefixesOf(j) == {a \in prefixes : AttemptOf[a] = j}

Refusable(j) ==
  \/ \E r \in RowsOf(j) : ~Deletable(Names[r], First[r])
  \/ \E a \in PrefixesOf(j) : KeysBelow(a) \cap Outside # {}

(* The checks up front; the lists of rows and prefixes are read only here. *)
Admitted(j) == state[j] = "settled" /\ j \in Profile /\ ~Refusable(j)

Call(c) ==
  LET j == Target[c] IN
  /\ at[c] \in {"idle", "retry"}
  /\ todo' = [todo EXCEPT ![c] = RowsOf(j) \cup PrefixesOf(j)]
  /\ \/ state[j] = "gone" /\ Goto(c, "missing")
     \/ state[j] # "gone" /\ ~Admitted(j) /\ Goto(c, "conflict")
     \/ Admitted(j) /\ Goto(c, "artifacts")
     \/ Admitted(j) /\ Can("list") /\ PrefixesOf(j) # {} /\ Goto(c, "conflict")
  /\ UNCHANGED <<jobVars, dataVars>>

Done(c, x) == todo' = [todo EXCEPT ![c] = @ \ {x}]

(* delete_job_artifact, delete_claimed_staged_upload: gone or given away is as good. *)
DeleteRow(c, r) ==
  /\ at[c] = IF Sort[r] = "upload" THEN "staged" ELSE "artifacts"
  /\ r \in todo[c]
  /\ IF r \in rows /\ owner[r] = Target[c]
     THEN Deletable(Names[r], First[r]) /\ Remove(r)
     ELSE UNCHANGED dataVars
  /\ Done(c, r)
  /\ UNCHANGED <<jobVars, at>>

DeletePending(c, r) ==
  /\ at[c] = "pending" /\ First[r] = Target[c]
  /\ Drain(r)
  /\ UNCHANGED <<jobVars, at, todo>>

DeletePrefix(c, a) ==
  /\ at[c] = "prefixes" /\ a \in todo[c]
  /\ IF a \in prefixes THEN CleanPrefix(a) ELSE UNCHANGED dataVars
  /\ Done(c, a)
  /\ UNCHANGED <<jobVars, at>>

(* An object or a transaction fails: the call gives up, what is left stays recorded. *)
DeleteFails(c) ==
  /\ at[c] \in Steps
  /\ \/ Can("error") /\ UNCHANGED dataVars
     \/ \E r \in todo[c] \cap rows :
          /\ at[c] = IF Sort[r] = "upload" THEN "staged" ELSE "artifacts"
          /\ owner[r] = Target[c]
          /\ HalfRemove(r)
     \/ \E r \in pending : at[c] = "pending" /\ First[r] = Target[c] /\ HalfDrain(r)
     \/ (at[c] = "prefixes" /\ \E a \in todo[c] \cap Attempt : HalfCleanPrefix(a))
  /\ Goto(c, "retry")
  /\ UNCHANGED <<jobVars, todo>>

(* The prefix was listed up front and cannot be listed now: RefusedDeletion. *)
ListFails(c) ==
  /\ Can("list")
  /\ at[c] = "prefixes" /\ todo[c] \cap prefixes # {}
  /\ Goto(c, "conflict")
  /\ UNCHANGED <<jobVars, dataVars, todo>>

Following(label) == CASE label = "artifacts" -> "pending" [] label = "pending" -> "prefixes"
                      [] label = "prefixes" -> "staged" [] label = "staged" -> "finish"

Left(c) ==
  CASE at[c] = "artifacts" -> {r \in todo[c] \cap Row : Sort[r] # "upload"}
    [] at[c] = "pending" -> {r \in pending : First[r] = Target[c]}
    [] at[c] = "prefixes" -> todo[c] \cap Attempt
    [] OTHER -> todo[c]

Go(c) ==
  /\ at[c] \in Steps \ {"finish"} /\ Left(c) = {}
  /\ Goto(c, Following(at[c]))
  /\ UNCHANGED <<jobVars, dataVars, todo>>

(* Nothing must have come in meanwhile; then the row goes, if nobody was faster. *)
FinishDelete(c) ==
  LET j == Target[c] IN
  /\ at[c] = "finish"
  /\ IF Owns(j) THEN Goto(c, "retry") /\ UNCHANGED state
     ELSE Goto(c, "deleted") /\ state' = [state EXCEPT ![j] = "gone"]
  /\ UNCHANGED <<aged, leased, dataVars, todo>>

KillCall(c) ==
  /\ Can("kill") /\ at[c] \in Steps
  /\ Goto(c, "retry")
  /\ UNCHANGED <<jobVars, dataVars, todo>>

DeleteStep(c) ==
  \/ \E r \in Row : DeleteRow(c, r) \/ DeletePending(c, r)
  \/ \E a \in Attempt : DeletePrefix(c, a)
  \/ Go(c) \/ FinishDelete(c)

CallStep(c) == Call(c) \/ DeleteStep(c) \/ DeleteFails(c) \/ ListFails(c) \/ KillCall(c)

Next == JobStep \/ Sweep \/ \E c \in Caller : CallStep(c)

Spec == Init /\ [][Next]_vars

-----------------------------------------------------------------------------
(* Properties *)

(* Somebody still wants what this row names: its job runs, it is a result that   *)
(* is kept for good, or an upload that waits for its submission.                 *)
Wanted(r) ==
  /\ r \in rows
  /\ IF owner[r] = Nobody THEN r \notin old
     ELSE state[owner[r]] = "running" \/ (owner[r] \notin Profile /\ Sort[r] = "final")

(* No deletion, however late it comes after its list was read, takes the object  *)
(* of a row that is still wanted, an artifact of another job, a final artifact   *)
(* that shares its object with an intermediate one, or an upload that changed    *)
(* hands (object_is_referenced and the recheck under the lock).                  *)
WantedObjectsKept ==
  \A r \in Row : Wanted(r) /\ Names[r] \in objects => Names[r] \in objects'

(* Everything the attempts of a profile job stored can still be found by somebody *)
(* who must delete it: below a recorded prefix or through a row (the purpose of    *)
(* RemoteAttemptPrefix, models.py:221-224).                                        *)
AttemptObjectsFound ==
  \A o \in objects : Below[o] # NoAttempt /\ AttemptOf[Below[o]] \in Profile =>
    \/ Below[o] \in prefixes
    \/ \E r \in rows \cup pending : Names[r] = o

(* A job whose row is gone has left nothing behind that only its row could lead to. *)
GoneOwnsNothing ==
  \A j \in Job : state[j] = "gone" =>
    /\ RowsOf(j) = {} /\ PrefixesOf(j) = {}
    /\ \A r \in pending : First[r] # j

(* An object the layout check does not vouch for is never deleted, whichever     *)
(* rows point at it.                                                             *)
OutsideKept == Outside \subseteq objects

=============================================================================
