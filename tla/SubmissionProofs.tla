-------------------------- MODULE SubmissionProofs --------------------------
(***************************************************************************)
(* Proofs about staged uploads and submissions, for any number of          *)
(* requests, jobs and uploads.                                             *)
(*                                                                         *)
(* An upload's row and object are kept in step by the order of the code:   *)
(* the row is committed before the object is stored, and cleanup removes   *)
(* the object before the row.  Either order leaves a gap, which the expiry *)
(* of a day closes: nobody cleans up an upload that is being stored.       *)
(*                                                                         *)
(* Submissions are kept apart by the unique constraint alone: a live job   *)
(* of the request, other than one the insertion itself fails, stops it.    *)
(* Cleanup and staging leave claimed uploads alone.                        *)
(***************************************************************************)
EXTENDS Submission, FiniteSetTheorems, WellFoundedInduction, TLAPS

-----------------------------------------------------------------------------
(* Staged uploads *)

(* A store as slow as the in-progress expiry lets cleanup take the row of  *)
(* an upload that is being stored; then the request has to finish, and its *)
(* statements have to succeed.                                             *)
Steady == "slow" \notin Faults \/ {"db_error", "kill"} \cap Faults = {}

(* What the place of a staging request says about its upload. *)
Progressing(u) ==
  /\ stage[u] \in {"idle", "clean"} => u \notin rows /\ u \notin objects /\ expiry[u] = "progress"
  /\ stage[u] \in Storing /\ "slow" \notin Faults => u \in rows /\ expiry[u] = "progress"
  /\ u \in rows /\ (stage[u] = "update" \/ (stage[u] = "done" /\ expiry[u] # "past")) => u \in objects
  /\ claim[u] # Unclaimed => stage[u] = "done"

BusyComplete == \A u \in Upload : Busy(u) => u \in objects

(* A submission may name an upload only once its id is known. *)
ClaimedAreDone == \A u \in Upload : claim[u] # Unclaimed => stage[u] = "done"

StagingInv ==
  /\ StagingTypeOK /\ (\A u \in Upload : Progressing(u))
  /\ ObjectsFindable /\ BusyComplete

(* Cleanup and staging, which go on whatever becomes of the jobs. *)
Upkeep == CleanupStep \/ \E u \in Upload : StagingStep(u)

LEMMA DeletedFacts ==
  ASSUME StagingTypeOK, NEW v \in Upload, Deleted(v)
  PROVE  /\ rows' \subseteq rows /\ objects' \subseteq objects /\ claim' \in [Upload -> Job \cup {Unclaimed}]
         /\ \A u \in Upload \ {v} : /\ (u \in rows' <=> u \in rows) /\ (u \in objects' <=> u \in objects)
                                    /\ claim'[u] = claim[u]
         /\ \/ v \notin rows' /\ v \notin objects' /\ claim'[v] = Unclaimed
            \/ UNCHANGED <<rows, claim>> /\ (objects' = objects \/ Can("db_error"))
  BY DEF StagingTypeOK, Deleted, RowGone

LEMMA UpkeepTypes ==
  ASSUME StagingAssumption, StagingTypeOK, Upkeep
  PROVE  StagingTypeOK'
<1>1. ASSUME NEW c \in Cleaner, NEW u \in Upload, CleanOne(c, u) PROVE StagingTypeOK'
  <2>1. CASE Removable(u)
    <3>1. Deleted(u) /\ UNCHANGED <<expiry, finished, stage>> /\ listed' = [listed EXCEPT ![c] = @ \ {u}]
      BY <1>1, <2>1 DEF CleanOne
    <3>2. /\ rows' \subseteq rows /\ objects' \subseteq objects /\ claim' \in [Upload -> Job \cup {Unclaimed}]
          /\ \A v \in Upload : claim'[v] # Unclaimed => v \in rows'
      BY <3>1, DeletedFacts DEF StagingTypeOK
    <3>3. listed' \in [Cleaner -> SUBSET Upload]
      BY <3>1 DEF StagingTypeOK
    <3>. QED  BY <3>1, <3>2, <3>3 DEF StagingTypeOK
  <2>2. CASE ~Removable(u)
    BY <1>1, <2>2 DEF CleanOne, StagingTypeOK
  <2>. QED  BY <2>1, <2>2
<1>2. ASSUME NEW c \in Cleaner, Clean(c) PROVE StagingTypeOK'
  BY <1>2 DEF Clean, MayList, StagingTypeOK, uploadVars
<1>3. ASSUME NEW u \in Upload, StartStaging(u) \/ Refuse(u) \/ KillStaging(u) \/ UpdateFails(u)
      PROVE  StagingTypeOK'
  BY <1>3 DEF StartStaging, Refuse, KillStaging, UpdateFails, Enter, MayList, StagingTypeOK, uploadVars,
              StagingAssumption, Storing
<1>4. ASSUME NEW u \in Upload, Register(u) \/ Put(u) \/ PutFails(u) \/ Update(u) PROVE StagingTypeOK'
  BY <1>4 DEF Register, Put, PutFails, Update, Enter, StagingTypeOK, Storing
<1>5. ASSUME NEW u \in Upload, Discard(u) \/ DiscardFails(u) \/ Keep(u) \/ Lapse(u) PROVE StagingTypeOK'
  BY <1>5 DEF Discard, DiscardFails, Keep, Lapse, RowGone, Enter, StagingTypeOK, Storing
<1>. QED  BY <1>1, <1>2, <1>3, <1>4, <1>5 DEF Upkeep, CleanupStep, StagingStep

LEMMA UpkeepProgresses ==
  ASSUME StagingAssumption, StagingTypeOK, Steady, \A u \in Upload : Progressing(u), Upkeep
  PROVE  \A u \in Upload : Progressing(u)'
<1> SUFFICES ASSUME NEW u \in Upload PROVE Progressing(u)'
  OBVIOUS
<1>0. Progressing(u)
  OBVIOUS
<1>1. ASSUME NEW c \in Cleaner, NEW v \in Upload, CleanOne(c, v) PROVE Progressing(u)'
  <2>1. CASE Removable(v)
    <3>1. Deleted(v) /\ UNCHANGED <<expiry, finished, stage>> /\ expiry[v] = "past"
      BY <1>1, <2>1 DEF CleanOne, Removable
    <3>2. stage[v] \in Storing => "slow" \in Faults /\ ~Can("db_error")
      BY <3>1 DEF Progressing, Steady, Can
    <3>. QED  BY <1>0, <3>1, <3>2, DeletedFacts DEF Progressing, Storing
  <2>2. CASE ~Removable(v)
    BY <1>0, <1>1, <2>2 DEF CleanOne, Progressing
  <2>. QED  BY <2>1, <2>2
<1>2. ASSUME NEW c \in Cleaner, Clean(c) PROVE Progressing(u)'
  BY <1>0, <1>2 DEF Clean, Progressing, uploadVars
<1>3. ASSUME NEW v \in Upload, StartStaging(v) \/ Refuse(v) \/ KillStaging(v) \/ UpdateFails(v)
      PROVE  Progressing(u)'
  BY <1>0, <1>3 DEF StartStaging, Refuse, KillStaging, UpdateFails, Enter, Progressing, StagingTypeOK,
                    uploadVars, Storing
<1>4. ASSUME NEW v \in Upload, Register(v) \/ Put(v) \/ PutFails(v) \/ Update(v) PROVE Progressing(u)'
  BY <1>0, <1>4 DEF Register, Put, PutFails, Update, Enter, Progressing, StagingTypeOK, Storing
<1>5. ASSUME NEW v \in Upload, Discard(v) \/ DiscardFails(v) \/ Keep(v) \/ Lapse(v) PROVE Progressing(u)'
  BY <1>0, <1>5 DEF Discard, DiscardFails, Keep, Lapse, RowGone, Enter, Progressing, StagingTypeOK,
                    Storing, Can
<1>. QED  BY <1>1, <1>2, <1>3, <1>4, <1>5 DEF Upkeep, CleanupStep, StagingStep

(* An object without a row is one whose request has not finished. *)
LEMMA UpkeepFinds ==
  ASSUME StagingAssumption, StagingTypeOK, Steady, \A u \in Upload : Progressing(u), ObjectsFindable,
         Upkeep
  PROVE  ObjectsFindable'
<1> SUFFICES ASSUME NEW u \in objects' PROVE u \in rows' \/ stage'[u] \in Storing
  BY DEF ObjectsFindable, Storing
<1>0. u \in Upload /\ Progressing(u)
  BY UpkeepTypes DEF StagingTypeOK
<1>1. ASSUME NEW c \in Cleaner, NEW v \in Upload, CleanOne(c, v) PROVE u \in rows' \/ stage'[u] \in Storing
  <2>1. CASE Removable(v)
    <3>1. Deleted(v) /\ UNCHANGED <<expiry, finished, stage>>
      BY <1>1, <2>1 DEF CleanOne
    <3>. QED  BY <1>0, <3>1, DeletedFacts DEF ObjectsFindable, Storing
  <2>2. CASE ~Removable(v)
    BY <1>0, <1>1, <2>2 DEF CleanOne, ObjectsFindable, Storing
  <2>. QED  BY <2>1, <2>2
<1>2. ASSUME NEW c \in Cleaner, Clean(c) PROVE u \in rows' \/ stage'[u] \in Storing
  BY <1>2 DEF Clean, ObjectsFindable, Storing, uploadVars
<1>3. ASSUME NEW v \in Upload, StartStaging(v) \/ Refuse(v) \/ UpdateFails(v)
      PROVE  u \in rows' \/ stage'[u] \in Storing
  BY <1>0, <1>3 DEF StartStaging, Refuse, UpdateFails, Enter, ObjectsFindable, StagingTypeOK,
                    uploadVars, Storing
<1>4. ASSUME NEW v \in Upload, Register(v) \/ Put(v) \/ PutFails(v) \/ Update(v)
      PROVE  u \in rows' \/ stage'[u] \in Storing
  BY <1>0, <1>4 DEF Register, Put, PutFails, Update, Enter, ObjectsFindable, StagingTypeOK, Storing
<1>5. ASSUME NEW v \in Upload, Discard(v) \/ DiscardFails(v) \/ Lapse(v)
      PROVE  u \in rows' \/ stage'[u] \in Storing
  BY <1>0, <1>5 DEF Discard, DiscardFails, Lapse, RowGone, Enter, ObjectsFindable, StagingTypeOK, Storing
<1>6. ASSUME NEW v \in Upload, Keep(v) \/ KillStaging(v) PROVE u \in rows' \/ stage'[u] \in Storing
  <2>1. u \in objects /\ (u # v => stage'[u] = stage[u]) /\ rows \subseteq rows'
    BY <1>0, <1>6 DEF Keep, KillStaging, Enter, StagingTypeOK, uploadVars
  <2>2. CASE u # v
    BY <2>1, <2>2 DEF ObjectsFindable, Storing
  <2>3. CASE u = v /\ stage[u] \in Storing /\ ~(Keep(v) /\ v \in rows')
    <3>1. "slow" \notin Faults
      BY <1>6, <2>3 DEF Keep, KillStaging, Steady, Can
    <3>. QED  BY <1>0, <2>1, <2>3, <3>1 DEF Progressing
  <2>4. CASE u = v /\ stage[u] \notin Storing
    BY <1>0, <1>6, <2>1, <2>4 DEF Keep, KillStaging, Progressing, Storing
  <2>. QED  BY <2>2, <2>3, <2>4
<1>. QED  BY <1>1, <1>2, <1>3, <1>4, <1>5, <1>6 DEF Upkeep, CleanupStep, StagingStep

(* The upload of a busy job keeps its row and its claim, and its object. *)
LEMMA UpkeepSparesBusy ==
  ASSUME StagingAssumption, StagingTypeOK, ClaimedAreDone, Upkeep
  PROVE  /\ \A u \in Upload : claim'[u] \in {claim[u], Unclaimed}
         /\ \A u \in Upload : Busy(u) => (u \in rows' /\ claim'[u] = claim[u] /\ (u \in objects => u \in objects'))
<1>. DEFINE Goal == /\ \A u \in Upload : claim'[u] \in {claim[u], Unclaimed}
                    /\ \A u \in Upload : Busy(u) => /\ u \in rows' /\ claim'[u] = claim[u]
                                                    /\ u \in objects => u \in objects'
<1>0. \A u \in Upload : Busy(u) => u \in rows /\ stage[u] = "done" /\ claim[u] # Unclaimed
  BY DEF Busy, StagingTypeOK, StagingAssumption, ClaimedAreDone
<1>1. ASSUME NEW c \in Cleaner, NEW v \in Upload, CleanOne(c, v) PROVE Goal
  <2>1. CASE Removable(v)
    <3>1. Deleted(v) /\ ~Busy(v)
      BY <1>1, <2>1 DEF CleanOne, Removable
    <3>. QED  BY <1>0, <3>1, DeletedFacts
  <2>2. CASE ~Removable(v)
    BY <1>0, <1>1, <2>2 DEF CleanOne
  <2>. QED  BY <2>1, <2>2
<1>2. ASSUME NEW c \in Cleaner, Clean(c) PROVE Goal
  BY <1>0, <1>2 DEF Clean, uploadVars
<1>3. ASSUME NEW v \in Upload, StartStaging(v) \/ Refuse(v) \/ KillStaging(v) \/ UpdateFails(v) PROVE Goal
  BY <1>0, <1>3 DEF StartStaging, Refuse, KillStaging, UpdateFails, uploadVars
<1>4. ASSUME NEW v \in Upload, Register(v) \/ Put(v) \/ PutFails(v) \/ Update(v) PROVE Goal
  BY <1>0, <1>4 DEF Register, Put, PutFails, Update
<1>5. ASSUME NEW v \in Upload, Discard(v) \/ DiscardFails(v) \/ Keep(v) \/ Lapse(v) PROVE Goal
  BY <1>0, <1>5 DEF Discard, RowGone, DiscardFails, Keep, Lapse, StagingTypeOK
<1>. QED  BY <1>1, <1>2, <1>3, <1>4, <1>5 DEF Upkeep, CleanupStep, StagingStep

LEMMA StagingInvNext ==
  ASSUME StagingAssumption, Steady, StagingInv, [StagingNext]_stagingVars
  PROVE  StagingInv' /\ BusyUploadsKept
<1>. DEFINE Goal == StagingInv' /\ BusyUploadsKept
<1>0. StagingTypeOK /\ (\A u \in Upload : Progressing(u)) /\ ObjectsFindable /\ BusyComplete
  BY DEF StagingInv
<1>a. \A u \in Upload : Busy(u) => /\ u \in rows /\ u \in objects /\ stage[u] = "done"
                                  /\ claim[u] # Unclaimed /\ claim[u] \notin finished
  BY <1>0 DEF Busy, StagingTypeOK, StagingAssumption, Progressing, BusyComplete
<1>b. ClaimedAreDone
  BY <1>0 DEF ClaimedAreDone, Progressing
<1>1. CASE Upkeep
  <2>1. finished' = finished
    BY <1>1 DEF Upkeep, CleanupStep, Clean, CleanOne, StagingStep, StartStaging, Register, Refuse, Put, PutFails,
                Update, UpdateFails, Discard, DiscardFails, Keep, KillStaging, Lapse
  <2>2. \A u \in Upload : Busy(u) => u \in rows' \cap objects' /\ claim'[u] = claim[u]
    BY <1>0, <1>1, <1>a, <1>b, UpkeepSparesBusy
  <2>3. BusyComplete'
    <3> SUFFICES ASSUME NEW u \in Upload, Busy(u)' PROVE u \in objects'
      BY DEF BusyComplete
    <3>1. claim'[u] # Unclaimed => claim'[u] = claim[u]
      BY <1>0, <1>1, <1>b, UpkeepSparesBusy
    <3>2. Busy(u)
      BY <2>1, <3>1 DEF Busy, StagingAssumption
    <3>. QED  BY <2>2, <3>2
  <2>. QED  BY <1>0, <1>1, <2>2, <2>3, UpkeepTypes, UpkeepProgresses, UpkeepFinds
       DEF StagingInv, BusyUploadsKept
<1>2. ASSUME NEW u \in Upload, NEW j \in Job, Claim(u, j) PROVE Goal
  <2>1. u \in rows /\ u \in objects /\ stage[u] = "done" /\ claim[u] = Unclaimed
    BY <1>0, <1>2 DEF Claim, Submittable, Progressing
  <2>2. StagingTypeOK'
    BY <1>0, <1>2, <2>1 DEF Claim, StagingTypeOK
  <2>3. \A v \in Upload : Progressing(v)'
    BY <1>0, <1>2, <2>1 DEF Claim, Progressing, StagingTypeOK
  <2>4. ObjectsFindable'
    BY <1>0, <1>2 DEF Claim, ObjectsFindable
  <2>5. BusyComplete' /\ BusyUploadsKept
    BY <1>0, <1>2, <1>a, <2>1 DEF Claim, Busy, BusyComplete, BusyUploadsKept, StagingTypeOK
  <2>. QED  BY <2>2, <2>3, <2>4, <2>5 DEF StagingInv
<1>3. ASSUME NEW j \in Job, Finish(j) PROVE Goal
  BY <1>0, <1>3, <1>a DEF Finish, uploadVars, StagingInv, StagingTypeOK, Progressing, ObjectsFindable,
                    BusyComplete, Busy, BusyUploadsKept
<1>4. ASSUME NEW j \in Job, Release(j) PROVE Goal
  <2>1. claim' = [u \in Upload |-> IF claim[u] = j THEN Unclaimed ELSE claim[u]]
        /\ j \in finished /\ UNCHANGED <<rows, objects, expiry, finished, stage, listed>>
    BY <1>4 DEF Release, ReleaseClaims
  <2>2. StagingTypeOK' /\ \A u \in Upload : Progressing(u)'
    BY <1>0, <2>1 DEF StagingTypeOK, Progressing
  <2>3. ObjectsFindable' /\ BusyComplete' /\ BusyUploadsKept
    BY <1>0, <1>a, <2>1 DEF ObjectsFindable, BusyComplete, Busy, BusyUploadsKept, StagingAssumption
  <2>. QED  BY <2>2, <2>3 DEF StagingInv
<1>5. CASE UNCHANGED stagingVars
  BY <1>0, <1>a, <1>5 DEF stagingVars, uploadVars, StagingInv, StagingTypeOK, Progressing, ObjectsFindable,
                    BusyComplete, Busy, BusyUploadsKept
<1>. QED  BY <1>1, <1>2, <1>3, <1>4, <1>5 DEF StagingNext, Upkeep

LEMMA StagingInvInit == ASSUME StagingAssumption, StagingInit PROVE StagingInv
  BY DEF StagingInit, StagingInv, StagingTypeOK, Progressing, ObjectsFindable, BusyComplete, Busy, Storing,
         StagingAssumption

LEMMA StagingAlways == ASSUME StagingAssumption, Steady PROVE StagingSpec => []StagingInv
<1>1. StagingInit => StagingInv
  BY StagingInvInit
<1>2. StagingInv /\ [StagingNext]_stagingVars => StagingInv'
  BY StagingInvNext
<1>. QED  BY <1>1, <1>2, PTL DEF StagingSpec

(* Every stored object has a row, or a request about to give it one or to   *)
(* discard it: whatever the store refuses, and wherever a process dies      *)
(* (the docstring of stage_uploaded_audio).                                 *)
THEOREM StagedObjectsAreFound == ASSUME StagingAssumption, Steady PROVE StagingSpec => []ObjectsFindable
<1>1. StagingInv => ObjectsFindable
  BY DEF StagingInv
<1>. QED  BY <1>1, StagingAlways, PTL

LEMMA SubmittableHasObject == ASSUME StagingInv PROVE SubmittableUploadsComplete
  BY DEF StagingInv, SubmittableUploadsComplete, Submittable, Progressing

(* An upload that may be submitted has its object: cleanup never leaves a   *)
(* row behind that a submission could still use (delete_staged_media).      *)
THEOREM SubmittableIsComplete ==
  ASSUME StagingAssumption, Steady PROVE StagingSpec => []SubmittableUploadsComplete
<1>1. StagingInv => SubmittableUploadsComplete
  BY SubmittableHasObject
<1>. QED  BY <1>1, StagingAlways, PTL

(* A listing made before an upload was claimed does not take it away from   *)
(* its job (cleanup_expired_staged_media looks again under the lock).       *)
THEOREM BusyUploadsAreKept ==
  ASSUME StagingAssumption, Steady PROVE StagingSpec => [][BusyUploadsKept]_stagingVars
<1>1. StagingInv /\ [StagingNext]_stagingVars => [BusyUploadsKept]_stagingVars
  BY StagingInvNext
<1>. QED  BY <1>1, StagingAlways, PTL DEF StagingSpec

-----------------------------------------------------------------------------
(* Jobs in the order of their ids                                          *)

(* The smaller of two jobs has the smaller set of jobs below it, and finite *)
(* sets are well-founded.                                                   *)
LEMMA FirstJob ==
  ASSUME SubmissionAssumption, NEW A \in SUBSET Job, A # {}
  PROVE  \E j \in A : \A i \in A : ~(i < j)
<1>. DEFINE N == Cardinality(Job)
            Below(j) == {i \in Job : i < j}
            T == {Below(j) : j \in A}
<1>1. N \in Nat /\ Job = 1 .. N /\ IsFiniteSet(Job)
  BY FS_CardinalityType DEF SubmissionAssumption
<1>. HIDE DEF N
<1>2. T \subseteq FiniteSubsetsOf(Job) /\ T # {}
  <2>1. \A j \in A : Below(j) \in SUBSET Job
    OBVIOUS
  <2>2. FiniteSubsetsOf(Job) = SUBSET Job
    BY <1>1, FS_FiniteSubsetsOfFinite
  <2>3. T \subseteq SUBSET Job /\ T # {}
    BY <2>1
  <2>. QED  BY <2>2, <2>3
<1>3. PICK x \in T : \A y \in T : <<y, x>> \notin StrictSubsetOrdering(Job)
  BY <1>2, FS_StrictSubsetOrderingWellFounded, WFMin
<1>4. PICK j \in A : x = Below(j)
  OBVIOUS
<1>5. ASSUME NEW i \in A, i < j PROVE FALSE
  <2>1. Below(i) \subseteq Below(j) /\ i \in Below(j) /\ i \notin Below(i)
    BY <1>1, <1>5
  <2>2. <<Below(i), Below(j)>> \in StrictSubsetOrdering(Job)
    BY <2>1 DEF StrictSubsetOrdering
  <2>. QED  BY <1>3, <1>4, <2>2
<1>. HIDE DEF T, Below
<1>6. \A i \in A : ~(i < j)
  BY <1>5
<1>. QED  BY <1>4, <1>6

LEMMA LastJob ==
  ASSUME SubmissionAssumption, NEW A \in SUBSET Job, A # {}
  PROVE  \E j \in A : \A i \in A : i <= j
<1>. DEFINE N == Cardinality(Job)
            Above(j) == {i \in Job : i > j}
            T == {Above(j) : j \in A}
<1>1. N \in Nat /\ Job = 1 .. N /\ IsFiniteSet(Job)
  BY FS_CardinalityType DEF SubmissionAssumption
<1>. HIDE DEF N
<1>2. T \subseteq FiniteSubsetsOf(Job) /\ T # {}
  <2>1. \A j \in A : Above(j) \in SUBSET Job
    OBVIOUS
  <2>2. FiniteSubsetsOf(Job) = SUBSET Job
    BY <1>1, FS_FiniteSubsetsOfFinite
  <2>3. T \subseteq SUBSET Job /\ T # {}
    BY <2>1
  <2>. QED  BY <2>2, <2>3
<1>3. PICK x \in T : \A y \in T : <<y, x>> \notin StrictSubsetOrdering(Job)
  BY <1>2, FS_StrictSubsetOrderingWellFounded, WFMin
<1>4. PICK j \in A : x = Above(j)
  OBVIOUS
<1>5. ASSUME NEW i \in A, ~(i <= j) PROVE FALSE
  <2>1. Above(i) \subseteq Above(j) /\ i \in Above(j) /\ i \notin Above(i)
    BY <1>1, <1>5
  <2>2. <<Above(i), Above(j)>> \in StrictSubsetOrdering(Job)
    BY <2>1 DEF StrictSubsetOrdering
  <2>. QED  BY <1>3, <1>4, <2>2
<1>. HIDE DEF T, Above
<1>6. \A i \in A : i <= j
  BY <1>5
<1>. QED  BY <1>4, <1>6

-----------------------------------------------------------------------------
(* Types of submissions                                                    *)

Types == TypeOK /\ lapsed \subseteq Job /\ releasing \subseteq Job

(* Jobs whose upload an insertion takes over. *)
LEMMA GoneFacts ==
  ASSUME SubmissionAssumption, Types, NEW s \in Submitter
  PROVE  /\ Reconciled(s) \subseteq Job
         /\ \A j \in Reconciled(s) : state[j] \in {"open", "failed"}
         /\ Input[s] = NoUpload => Reconciled(s) = {}
         /\ Input[s] # NoUpload => Input[s] \in Upload
<1>1. Input[s] # NoUpload => Input[s] \in Upload /\ claim[Input[s]] \in Job \cup {Unclaimed}
  BY DEF SubmissionAssumption, Types, TypeOK, StagingTypeOK
<1>. QED  BY <1>1 DEF Types, TypeOK, Reconciled, Recovered

LEMMA InsertFacts ==
  ASSUME SubmissionAssumption, Types, NEW s \in Submitter, Insert(s)
  PROVE  \E new \in Job :
           /\ state[new] = "absent"
           /\ state' = [j \in Job |-> IF j = new THEN "open"
                                      ELSE IF j \in Reconciled(s) THEN "failed" ELSE state[j]]
           /\ key' = [key EXCEPT ![new] = Ref[s]]
           /\ claim' = [v \in Upload |-> IF v = Input[s] THEN new
                                         ELSE IF claim[v] \in Reconciled(s) THEN Unclaimed ELSE claim[v]]
           /\ answer' = [answer EXCEPT ![s] = new]
<1>. DEFINE Unused == {j \in Job : state[j] = "absent"}
            new == CHOOSE j \in Job : state[j] = "absent" /\ \A i \in Job : i < j => state[i] # "absent"
<1>1. \E j \in Job : state[j] = "absent" /\ \A i \in Job : i < j => state[i] # "absent"
  <2>1. Unused # {} /\ Unused \in SUBSET Job
    BY DEF Insert
  <2>2. PICK j \in Unused : \A i \in Unused : ~(i < j)
    BY <2>1, FirstJob
  <2>. QED  BY <2>2
<1>2. new \in Job /\ state[new] = "absent"
  BY <1>1
<1>3. /\ state' = [j \in Job |-> IF j = new THEN "open"
                                 ELSE IF j \in Reconciled(s) THEN "failed" ELSE state[j]]
      /\ key' = [key EXCEPT ![new] = Ref[s]]
      /\ claim' = [v \in Upload |-> IF v = Input[s] THEN new
                                    ELSE IF claim[v] \in Reconciled(s) THEN Unclaimed ELSE claim[v]]
      /\ answer' = [answer EXCEPT ![s] = new]
  BY DEF Insert
<1>. HIDE DEF new
<1>. QED  BY <1>2, <1>3

LEMMA NextTypes ==
  ASSUME SubmissionAssumption, Types, [Next]_vars
  PROVE  Types'
<1>0. TypeOK /\ StagingTypeOK /\ StagingAssumption /\ lapsed \subseteq Job /\ releasing \subseteq Job
  BY DEF Types, TypeOK, SubmissionAssumption
<1>1. CASE UploadStep
  <2>1. Upkeep /\ UNCHANGED <<jobVars, submitVars>>
    BY <1>1 DEF UploadStep, Upkeep
  <2>2. StagingTypeOK' /\ finished' = finished
    BY <1>0, <2>1, UpkeepTypes
    DEF Upkeep, CleanupStep, Clean, CleanOne, StagingStep, StartStaging, Register, Refuse, Put, PutFails,
        Update, UpdateFails, Discard, DiscardFails, Keep, KillStaging, Lapse
  <2>. QED  BY <1>0, <2>1, <2>2 DEF Types, TypeOK, jobVars, submitVars
<1>2. ASSUME NEW s \in Submitter, Submit(s) \/ CheckDeleted(s) \/ InsertClaimed(s) \/ InsertConflict(s) \/ InsertRefused(s)
      PROVE  Types'
  BY <1>0, <1>2 DEF Types, TypeOK, StagingTypeOK, Submit, CheckDeleted, InsertClaimed, InsertConflict,
                    InsertRefused, Look, Proceed, stagingVars, uploadVars, jobVars
<1>3. ASSUME NEW s \in Submitter, Find(s) PROVE Types'
  <2>1. found'[s] \in Job \cup {NoJob}
    <3>1. CASE Ref[s] = NoRef \/ Live(Ref[s]) = {}
      BY <1>0, <1>3, <3>1 DEF Find, TypeOK
    <3>2. CASE ~(Ref[s] = NoRef \/ Live(Ref[s]) = {})
      <4>1. Live(Ref[s]) \in SUBSET Job
        BY DEF Live, Existing
      <4>2. \E j \in Live(Ref[s]) : \A i \in Live(Ref[s]) : i <= j
        BY <3>2, <4>1, LastJob
      <4>. QED  BY <1>0, <1>3, <3>2, <4>1, <4>2 DEF Find, TypeOK
    <3>. QED  BY <3>1, <3>2
  <2>2. found' \in [Submitter -> Job \cup {NoJob}]
    BY <1>0, <1>3, <2>1 DEF Find, TypeOK
  <2>3. at' \in [Submitter -> {"idle", "find", "check", "insert", "answered", "refused", "dead"}]
    BY <1>0, <1>3 DEF Find, Proceed, TypeOK
  <2>. QED  BY <1>0, <1>3, <2>2, <2>3 DEF Find, Types, TypeOK, StagingTypeOK, stagingVars, uploadVars, jobVars
<1>4. ASSUME NEW s \in Submitter, CheckFound(s) PROVE Types'
  BY <1>0, <1>4 DEF Types, TypeOK, StagingTypeOK, CheckFound, Proceed, stagingVars, uploadVars, jobVars
<1>5. ASSUME NEW s \in Submitter, CheckFailed(s) \/ KillSubmitter(s) PROVE Types'
  <2>1. listed' \in [Cleaner -> SUBSET Upload]
    <3>1. s \in Cleaner
      BY DEF SubmissionAssumption
    <3>. QED  BY <1>0, <1>5, <3>1 DEF StagingTypeOK, CheckFailed, KillSubmitter, NotFound, MayList
  <2>2. at' \in [Submitter -> {"idle", "find", "check", "insert", "answered", "refused", "dead"}]
        /\ attempt' \in [Submitter -> 1 .. 2]
    BY <1>0, <1>5 DEF TypeOK, CheckFailed, KillSubmitter, NotFound, Proceed
  <2>3. UNCHANGED <<uploadVars, finished, stage, jobVars, found, reason, answer>>
    BY <1>5 DEF CheckFailed, KillSubmitter
  <2>. QED  BY <1>0, <2>1, <2>2, <2>3 DEF Types, TypeOK, StagingTypeOK, uploadVars, jobVars
<1>6. ASSUME NEW s \in Submitter, Insert(s) PROVE Types'
  <2>. DEFINE gone == Reconciled(s)
  <2>1. PICK new \in Job :
           /\ state[new] = "absent"
           /\ state' = [j \in Job |-> IF j = new THEN "open" ELSE IF j \in gone THEN "failed" ELSE state[j]]
           /\ key' = [key EXCEPT ![new] = Ref[s]]
           /\ claim' = [v \in Upload |-> IF v = Input[s] THEN new
                                         ELSE IF claim[v] \in gone THEN Unclaimed ELSE claim[v]]
           /\ answer' = [answer EXCEPT ![s] = new]
    BY <1>6, InsertFacts
  <2>2. gone \subseteq Job /\ \A j \in gone : state[j] \in {"open", "failed"}
    BY GoneFacts
  <2>. HIDE DEF gone
  <2>3. /\ finished' = finished \cup gone /\ lapsed' = lapsed \ gone
        /\ UNCHANGED <<rows, objects, expiry, stage, listed, releasing, found, attempt, reason>>
        /\ at' = [at EXCEPT ![s] = "answered"]
        /\ Input[s] # NoUpload => Input[s] \in rows
    BY <1>6 DEF Insert, UploadFree, Proceed, gone
  <2>4. StagingTypeOK'
    <3>1. claim' \in [Upload -> Job \cup {Unclaimed}] /\ \A u \in Upload : claim'[u] # Unclaimed => u \in rows
      BY <1>0, <2>1, <2>3 DEF StagingTypeOK, SubmissionAssumption
    <3>. QED  BY <1>0, <2>2, <2>3, <3>1 DEF StagingTypeOK
  <2>5. state' \in [Job -> {"absent", "open", "succeeded", "failed", "deleted"}]
        /\ key' \in [Job -> {Ref[t] : t \in Submitter} \cup {NoRef}]
    BY <1>0, <2>1, <2>2 DEF TypeOK
  <2>6. /\ \A j \in lapsed' : state'[j] = "open"
        /\ \A j \in releasing' : state'[j] \in {"failed", "deleted"}
    BY <1>0, <2>1, <2>2, <2>3 DEF TypeOK
  <2>7. finished' = {j \in Job : state'[j] \in {"succeeded", "failed", "deleted"}}
    BY <1>0, <2>1, <2>2, <2>3 DEF TypeOK
  <2>8. /\ at' \in [Submitter -> {"idle", "find", "check", "insert", "answered", "refused", "dead"}]
        /\ answer' \in [Submitter -> Job \cup {NoJob}]
    BY <1>0, <2>1, <2>3 DEF TypeOK
  <2>. QED  BY <1>0, <2>3, <2>4, <2>5, <2>6, <2>7, <2>8 DEF Types, TypeOK
<1>7. ASSUME NEW j \in Job, JobSucceeds(j) \/ JobFails(j) \/ Reconcile(j) PROVE Types'
  <2>1. PICK final \in {"succeeded", "failed"} :
          /\ state[j] = "open" /\ state' = [state EXCEPT ![j] = final] /\ finished' = finished \cup {j}
          /\ lapsed' = lapsed \ {j} /\ UNCHANGED <<rows, objects, expiry, stage, listed, key, submitVars>>
    BY <1>0, <1>7 DEF JobSucceeds, JobFails, Reconcile, Settled, TypeOK
  <2>2. claim' \in [Upload -> Job \cup {Unclaimed}] /\ \A u \in Upload : claim'[u] # Unclaimed => u \in rows
    BY <1>0, <1>7 DEF StagingTypeOK, JobSucceeds, JobFails, Reconcile, ReleaseClaims
  <2>3. releasing' \subseteq Job /\ \A i \in releasing' : state'[i] \in {"failed", "deleted"}
    BY <1>0, <1>7, <2>1 DEF TypeOK, JobSucceeds, JobFails, Reconcile, Settled
  <2>4. finished' = {i \in Job : state'[i] \in {"succeeded", "failed", "deleted"}}
    BY <1>0, <2>1 DEF TypeOK
  <2>5. StagingTypeOK'
    BY <1>0, <2>1, <2>2 DEF StagingTypeOK
  <2>6. state' \in [Job -> {"absent", "open", "succeeded", "failed", "deleted"}]
        /\ \A i \in lapsed' : state'[i] = "open"
    BY <1>0, <2>1 DEF TypeOK
  <2>. QED  BY <1>0, <2>1, <2>3, <2>4, <2>5, <2>6 DEF Types, TypeOK, submitVars
<1>8. ASSUME NEW j \in Job, JobConsumes(j) PROVE Types'
  <2>1. PICK u \in Upload : Deleted(u)
    BY <1>8 DEF JobConsumes
  <2>2. StagingTypeOK'
    BY <1>0, <1>8, <2>1, DeletedFacts DEF JobConsumes, StagingTypeOK
  <2>. QED  BY <1>0, <1>8, <2>2 DEF Types, TypeOK, JobConsumes, jobVars, submitVars
<1>9. ASSUME NEW j \in Job, LeaseLapses(j) \/ ReleaseUpload(j) \/ JobDeleted(j) PROVE Types'
  <2>1. StagingTypeOK'
    BY <1>0, <1>9 DEF StagingTypeOK, LeaseLapses, ReleaseUpload, JobDeleted, ReleaseClaims, stagingVars, uploadVars
  <2>2. /\ state' \in [Job -> {"absent", "open", "succeeded", "failed", "deleted"}]
        /\ lapsed' \subseteq Job /\ \A i \in lapsed' : state'[i] = "open"
        /\ releasing' \subseteq Job /\ \A i \in releasing' : state'[i] \in {"failed", "deleted"}
    BY <1>0, <1>9 DEF TypeOK, LeaseLapses, ReleaseUpload, JobDeleted
  <2>3. finished' = {i \in Job : state'[i] \in {"succeeded", "failed", "deleted"}}
    BY <1>0, <1>9 DEF TypeOK, LeaseLapses, ReleaseUpload, JobDeleted, stagingVars
  <2>4. UNCHANGED <<key, submitVars>>
    BY <1>9 DEF LeaseLapses, ReleaseUpload, JobDeleted
  <2>. QED  BY <1>0, <2>1, <2>2, <2>3, <2>4 DEF Types, TypeOK, submitVars
<1>10. CASE UNCHANGED vars
  BY <1>0, <1>10 DEF vars, stagingVars, uploadVars, jobVars, submitVars, Types, TypeOK, StagingTypeOK
<1>. QED  BY <1>1, <1>2, <1>3, <1>4, <1>5, <1>6, <1>7, <1>8, <1>9, <1>10 DEF Next, SubmitStep, JobStep

-----------------------------------------------------------------------------
(* What steps leave alone                                                  *)

(* Jobs only get older, and only an insertion makes one. *)
LEMMA JobsAge ==
  ASSUME SubmissionAssumption, Types, [Next]_vars, NEW j \in Job
  PROVE  /\ state[j] # "absent" => state'[j] # "absent" /\ key'[j] = key[j]
         /\ state[j] \in {"failed", "deleted"} => state'[j] \in {state[j], "deleted"}
         /\ \/ state[j] = "absent" => state'[j] = "absent"
            \/ \E s \in Submitter : Insert(s)
<1>. DEFINE Older == /\ state[j] # "absent" => state'[j] # "absent" /\ key'[j] = key[j]
                     /\ state[j] \in {"failed", "deleted"} => state'[j] \in {state[j], "deleted"}
                     /\ \/ state[j] = "absent" => state'[j] = "absent"
                        \/ \E s \in Submitter : Insert(s)
<1>0. TypeOK /\ lapsed \subseteq Job
  BY DEF Types
<1>1. CASE UNCHANGED <<state, key>>
  BY <1>1
<1>2. ASSUME NEW s \in Submitter, Insert(s) PROVE Older
  <2>1. PICK new \in Job :
           /\ state[new] = "absent"
           /\ state' = [i \in Job |-> IF i = new THEN "open"
                                      ELSE IF i \in Reconciled(s) THEN "failed" ELSE state[i]]
           /\ key' = [key EXCEPT ![new] = Ref[s]]
    BY <1>2, InsertFacts
  <2>2. \A i \in Reconciled(s) : state[i] \in {"open", "failed"}
    BY GoneFacts
  <2>3. state[j] # "absent" => state'[j] # "absent" /\ key'[j] = key[j]
    BY <1>0, <2>1 DEF TypeOK
  <2>4. state[j] \in {"failed", "deleted"} => state'[j] \in {state[j], "deleted"}
    BY <1>0, <2>1, <2>2 DEF TypeOK
  <2>. QED  BY <1>2, <2>3, <2>4
<1>3. ASSUME NEW i \in Job, JobSucceeds(i) \/ JobFails(i) \/ Reconcile(i) \/ JobDeleted(i) PROVE Older
  BY <1>0, <1>3 DEF JobSucceeds, JobFails, Reconcile, JobDeleted, Settled, TypeOK
<1>4. ASSUME NEW i \in Job, JobConsumes(i) \/ LeaseLapses(i) \/ ReleaseUpload(i) PROVE Older
  BY <1>1, <1>4 DEF JobConsumes, LeaseLapses, ReleaseUpload, jobVars
<1>5. ASSUME NEW s \in Submitter, SubmitStep(s), ~Insert(s) PROVE Older
  BY <1>1, <1>5 DEF SubmitStep, Submit, Find, CheckFound, CheckFailed, CheckDeleted, InsertClaimed,
                    InsertConflict, InsertRefused, Look, KillSubmitter, jobVars
<1>6. CASE UploadStep \/ UNCHANGED vars
  BY <1>1, <1>6 DEF UploadStep, vars, jobVars
<1>. QED  BY <1>2, <1>3, <1>4, <1>5, <1>6 DEF Next, JobStep

(* A request that is told an id has nothing more to do. *)
LEMMA DoneStays ==
  ASSUME SubmissionAssumption, Types, [Next]_vars, NEW u \in Upload, stage[u] = "done"
  PROVE  stage'[u] = "done"
<1>0. stage \in [Upload -> {"idle", "clean", "done", "refused", "dead"} \cup Storing]
  BY DEF Types, TypeOK, StagingTypeOK
<1>1. CASE UploadStep
  <2>1. ASSUME NEW c \in Cleaner, Clean(c) \/ \E v \in Upload : CleanOne(c, v) PROVE stage'[u] = "done"
    BY <2>1 DEF Clean, CleanOne
  <2>2. ASSUME NEW v \in Upload, StagingStep(v) PROVE stage'[u] = "done"
    <3>1. CASE v = u
      BY <2>2, <3>1 DEF StagingStep, StartStaging, Register, Refuse, Put, PutFails, Update, UpdateFails,
                        Discard, DiscardFails, Keep, KillStaging, Lapse, Enter, Storing
    <3>2. CASE v # u
      BY <1>0, <2>2, <3>2 DEF StagingStep, StartStaging, Register, Refuse, Put, PutFails, Update, UpdateFails,
                        Discard, DiscardFails, Keep, KillStaging, Lapse, Enter, Storing
    <3>. QED  BY <3>1, <3>2
  <2>. QED  BY <1>1, <2>1, <2>2 DEF UploadStep, CleanupStep
<1>2. ASSUME NEW s \in Submitter, SubmitStep(s) PROVE stage'[u] = "done"
  BY <1>2 DEF SubmitStep, Submit, Find, CheckFound, CheckFailed, CheckDeleted, Insert, InsertClaimed,
              InsertConflict, InsertRefused, Look, KillSubmitter, stagingVars
<1>3. ASSUME NEW j \in Job, JobStep(j) PROVE stage'[u] = "done"
  BY <1>3 DEF JobStep, JobSucceeds, JobFails, JobConsumes, LeaseLapses, Reconcile, ReleaseUpload,
              JobDeleted, Settled, stagingVars
<1>. QED  BY <1>1, <1>2, <1>3 DEF Next, vars, stagingVars

(* A submission's own state is changed by its own steps. *)
LEMMA OwnSteps ==
  ASSUME SubmissionAssumption, Types, [Next]_vars, NEW s \in Submitter, ~SubmitStep(s)
  PROVE  /\ at'[s] = at[s] /\ found'[s] = found[s] /\ attempt'[s] = attempt[s]
         /\ reason'[s] = reason[s] /\ answer'[s] = answer[s]
<1>0. TypeOK
  BY DEF Types
<1>1. CASE UNCHANGED submitVars
  BY <1>1 DEF submitVars
<1>2. ASSUME NEW t \in Submitter, SubmitStep(t), t # s
      PROVE  /\ at'[s] = at[s] /\ found'[s] = found[s] /\ attempt'[s] = attempt[s]
             /\ reason'[s] = reason[s] /\ answer'[s] = answer[s]
  <2>1. CASE Submit(t) \/ Find(t) \/ CheckFound(t) \/ CheckDeleted(t)
    BY <1>0, <1>2, <2>1 DEF Submit, Find, CheckFound, CheckDeleted, Proceed, TypeOK
  <2>2. CASE CheckFailed(t) \/ KillSubmitter(t)
    BY <1>0, <1>2, <2>2 DEF CheckFailed, NotFound, KillSubmitter, Proceed, TypeOK
  <2>3. CASE Insert(t)
    BY <1>0, <1>2, <2>3 DEF Insert, Proceed, TypeOK
  <2>4. CASE InsertClaimed(t) \/ InsertConflict(t) \/ InsertRefused(t)
    BY <1>0, <1>2, <2>4 DEF InsertClaimed, InsertConflict, InsertRefused, Look, Proceed, TypeOK
  <2>. QED  BY <1>2, <2>1, <2>2, <2>3, <2>4 DEF SubmitStep
<1>3. ASSUME NEW j \in Job, JobStep(j) PROVE UNCHANGED submitVars
  BY <1>3 DEF JobStep, JobSucceeds, JobFails, JobConsumes, LeaseLapses, Reconcile, ReleaseUpload,
              JobDeleted, Settled
<1>. QED  BY <1>1, <1>2, <1>3 DEF Next, UploadStep, vars

-----------------------------------------------------------------------------
(* One job, one answer                                                     *)

(* Jobs of a submission's request, whatever has become of them. *)
Mine(s) == {j \in Job : state[j] # "absent" /\ key[j] = Ref[s]}

(* What a submission holds on to is a job of its request, and its upload's  *)
(* id is known.                                                             *)
Asked(s) ==
  /\ at[s] = "check" /\ found[s] # NoJob => found[s] \in Mine(s) /\ Ref[s] # NoRef
  /\ at[s] = "answered" => answer[s] \in Mine(s)
  /\ Input[s] # NoUpload /\ at[s] # "idle" => stage[Input[s]] = "done"

Sound == Types /\ ClaimedAreDone /\ OneLiveJobPerRequest /\ \A s \in Submitter : Asked(s)

LEMMA OneLiveNext ==
  ASSUME SubmissionAssumption, Types, OneLiveJobPerRequest, [Next]_vars
  PROVE  OneLiveJobPerRequest'
<1> SUFFICES ASSUME NEW i \in Job, NEW j \in Job, i # j, key'[i] = key'[j], key'[i] # NoRef,
                    state'[i] \in {"open", "succeeded"}, state'[j] \in {"open", "succeeded"}
             PROVE  FALSE
  BY DEF OneLiveJobPerRequest
<1>0. TypeOK
  BY DEF Types
<1>1. \A k \in Job : /\ state[k] # "absent" => state'[k] # "absent" /\ key'[k] = key[k]
                     /\ state[k] \in {"failed", "deleted"} => state'[k] \in {state[k], "deleted"}
                     /\ \/ state[k] = "absent" => state'[k] = "absent"
                        \/ \E s \in Submitter : Insert(s)
  BY JobsAge
<1>2. \A k \in Job : state'[k] \in {"open", "succeeded"} => state[k] \in {"absent", "open", "succeeded"}
  BY <1>0, <1>1 DEF TypeOK
<1>3. PICK s \in Submitter : Insert(s)
  <2>1. CASE state[i] # "absent" /\ state[j] # "absent"
    BY <1>1, <1>2, <2>1 DEF OneLiveJobPerRequest
  <2>2. CASE state[i] = "absent" \/ state[j] = "absent"
    BY <1>1, <2>2
  <2>. QED  BY <2>1, <2>2
<1>4. PICK new \in Job :
        /\ state[new] = "absent"
        /\ state' = [k \in Job |-> IF k = new THEN "open"
                                   ELSE IF k \in Reconciled(s) THEN "failed" ELSE state[k]]
        /\ key' = [key EXCEPT ![new] = Ref[s]]
  BY <1>3, InsertFacts
<1>5. PICK old \in {i, j} : old # new
  OBVIOUS
<1>6. /\ old \in Job /\ old \notin Reconciled(s) /\ state[old] = state'[old] /\ key[old] = key'[old]
      /\ state[old] \in {"open", "succeeded"}
  BY <1>0, <1>4, <1>5 DEF TypeOK
<1>7. CASE new \in {i, j}
  <2>1. key[old] = Ref[s] /\ Ref[s] # NoRef
    BY <1>0, <1>4, <1>5, <1>6, <1>7 DEF TypeOK
  <2>2. old \in Live(Ref[s]) \ Reconciled(s)
    BY <1>6, <2>1 DEF Live, Existing
  <2>. QED  BY <1>3, <2>1, <2>2 DEF Insert, Conflict
<1>8. CASE new \notin {i, j}
  BY <1>0, <1>4, <1>8 DEF TypeOK, OneLiveJobPerRequest
<1>. QED  BY <1>7, <1>8

LEMMA AskedNext ==
  ASSUME SubmissionAssumption, Types, [Next]_vars, NEW s \in Submitter, Asked(s)
  PROVE  Asked(s)'
<1>0. TypeOK /\ NoJob \notin Job /\ (Input[s] # NoUpload => Input[s] \in Upload)
  BY DEF Types, SubmissionAssumption
<1>1. Mine(s) \subseteq Mine(s)'
  BY JobsAge DEF Mine
<1>2. Input[s] # NoUpload /\ at[s] # "idle" => stage'[Input[s]] = "done"
  BY <1>0, DoneStays DEF Asked
<1>3. CASE ~SubmitStep(s)
  BY <1>1, <1>2, <1>3, OwnSteps DEF Asked
<1>4. CASE Submit(s)
  <2>1. at'[s] = "find" /\ stage' = stage /\ (Input[s] # NoUpload => stage[Input[s]] = "done")
    BY <1>0, <1>4 DEF Submit, Proceed, TypeOK, stagingVars
  <2>. QED  BY <2>1 DEF Asked
<1>5. CASE Find(s)
  <2>1. at'[s] = "check" /\ at[s] = "find"
    BY <1>0, <1>5 DEF Find, Proceed, TypeOK
  <2>2. found'[s] = NoJob \/ (found'[s] \in Mine(s) /\ Ref[s] # NoRef)
    <3>1. CASE Ref[s] = NoRef \/ Live(Ref[s]) = {}
      BY <1>0, <1>5, <3>1 DEF Find, TypeOK
    <3>2. CASE ~(Ref[s] = NoRef \/ Live(Ref[s]) = {})
      <4>1. Live(Ref[s]) \in SUBSET Job
        BY DEF Live, Existing
      <4>2. \E j \in Live(Ref[s]) : \A i \in Live(Ref[s]) : i <= j
        BY <3>2, <4>1, LastJob
      <4>3. found'[s] \in Live(Ref[s])
        BY <1>0, <1>5, <3>2, <4>2 DEF Find, TypeOK
      <4>. QED  BY <3>2, <4>3 DEF Live, Existing, Mine
    <3>. QED  BY <3>1, <3>2
  <2>. QED  BY <1>1, <1>2, <2>1, <2>2 DEF Asked
<1>6. CASE CheckFound(s)
  <2>1. at'[s] = "answered" /\ at[s] = "check" /\ found[s] # NoJob /\ answer'[s] = found[s]
    BY <1>0, <1>6 DEF CheckFound, Proceed, TypeOK
  <2>. QED  BY <1>1, <1>2, <2>1 DEF Asked
<1>7. CASE CheckFailed(s) \/ CheckDeleted(s) \/ KillSubmitter(s) \/ InsertRefused(s)
  <2>1. at'[s] \in {"insert", "refused", "dead"} /\ at[s] # "idle"
    BY <1>0, <1>7 DEF CheckFailed, NotFound, CheckDeleted, KillSubmitter, InsertRefused, Inserting, Proceed,
                      TypeOK
  <2>. QED  BY <1>2, <2>1 DEF Asked
<1>8. CASE InsertClaimed(s) \/ InsertConflict(s)
  <2>1. at'[s] = "find" /\ at[s] # "idle"
    BY <1>0, <1>8 DEF InsertClaimed, InsertConflict, Look, Inserting, Proceed, TypeOK
  <2>. QED  BY <1>2, <2>1 DEF Asked
<1>9. CASE Insert(s)
  <2>1. at'[s] = "answered" /\ at[s] = "insert"
    BY <1>0, <1>9 DEF Insert, Inserting, Proceed, TypeOK
  <2>2. PICK new \in Job :
          /\ state' = [j \in Job |-> IF j = new THEN "open"
                                     ELSE IF j \in Reconciled(s) THEN "failed" ELSE state[j]]
          /\ key' = [key EXCEPT ![new] = Ref[s]] /\ answer' = [answer EXCEPT ![s] = new]
    BY <1>9, InsertFacts
  <2>3. answer'[s] = new /\ new \in Mine(s)'
    BY <1>0, <2>2 DEF Mine, TypeOK
  <2>. QED  BY <1>2, <2>1, <2>3 DEF Asked
<1>. QED  BY <1>3, <1>4, <1>5, <1>6, <1>7, <1>8, <1>9 DEF SubmitStep

(* Uploads are claimed by insertions only. *)
LEMMA ClaimsNext ==
  ASSUME SubmissionAssumption, Types, ClaimedAreDone, \A s \in Submitter : Asked(s), [Next]_vars
  PROVE  ClaimedAreDone'
<1> SUFFICES ASSUME NEW u \in Upload, claim'[u] # Unclaimed PROVE stage[u] = "done"
  BY DoneStays DEF ClaimedAreDone
<1>0. StagingTypeOK /\ StagingAssumption
  BY DEF Types, TypeOK, SubmissionAssumption
<1>1. CASE claim'[u] = claim[u]
  BY <1>1 DEF ClaimedAreDone
<1>2. CASE UploadStep
  BY <1>0, <1>1, <1>2, UpkeepSparesBusy DEF UploadStep, Upkeep
<1>3. ASSUME NEW s \in Submitter, Insert(s) PROVE stage[u] = "done"
  <2>1. claim'[u] = claim[u] \/ u = Input[s]
    BY <1>3 DEF Insert
  <2>2. u = Input[s] => Input[s] # NoUpload /\ at[s] # "idle"
    BY <1>3 DEF SubmissionAssumption, Insert, Inserting
  <2>. QED  BY <1>1, <2>1, <2>2 DEF Asked
<1>4. ASSUME NEW s \in Submitter, SubmitStep(s), ~Insert(s) PROVE claim' = claim
  BY <1>4 DEF SubmitStep, Submit, Find, CheckFound, CheckFailed, CheckDeleted, InsertClaimed,
              InsertConflict, InsertRefused, Look, KillSubmitter, stagingVars, uploadVars
<1>5. ASSUME NEW j \in Job, JobConsumes(j) PROVE claim'[u] = claim[u]
  BY <1>0, <1>5, DeletedFacts DEF JobConsumes
<1>6. ASSUME NEW j \in Job, JobStep(j), ~JobConsumes(j) PROVE claim'[u] = claim[u]
  BY <1>0, <1>6 DEF JobStep, JobSucceeds, JobFails, LeaseLapses, Reconcile, ReleaseUpload, JobDeleted,
              ReleaseClaims, stagingVars, uploadVars
<1>. QED  BY <1>1, <1>2, <1>3, <1>4, <1>5, <1>6 DEF Next, vars, stagingVars, uploadVars

LEMMA SoundInit == ASSUME SubmissionAssumption, Init PROVE Sound
  BY DEF Init, StagingInit, Sound, Types, TypeOK, StagingTypeOK, ClaimedAreDone, OneLiveJobPerRequest, Asked,
         SubmissionAssumption, StagingAssumption

LEMMA SoundNext == ASSUME SubmissionAssumption, Sound, [Next]_vars PROVE Sound'
  BY NextTypes, ClaimsNext, OneLiveNext, AskedNext DEF Sound

LEMMA SoundAlways == ASSUME SubmissionAssumption PROVE Spec => []Sound
<1>1. Init => Sound
  BY SoundInit
<1>2. Sound /\ [Next]_vars => Sound'
  BY SoundNext
<1>. QED  BY <1>1, <1>2, PTL DEF Spec

(* Type correctness of submissions, staged uploads included. *)
THEOREM TypeCorrect == ASSUME SubmissionAssumption PROVE Spec => []TypeOK
<1>1. Sound => TypeOK
  BY DEF Sound, Types
<1>. QED  BY <1>1, SoundAlways, PTL

(* However many submissions race, a task_ref and request have one live job  *)
(* (the unique constraint of BatchJob, within the transaction that also     *)
(* reconciles the job whose upload is taken over).                          *)
THEOREM OneLiveJob == ASSUME SubmissionAssumption PROVE Spec => []OneLiveJobPerRequest
<1>1. Sound => OneLiveJobPerRequest
  BY DEF Sound
<1>. QED  BY <1>1, SoundAlways, PTL

LEMMA SoundAnswers == ASSUME Sound PROVE SameAnswerWhileAlive
<1> SUFFICES ASSUME NEW s \in Submitter, NEW t \in Submitter, Ref[s] = Ref[t], Ref[s] # NoRef,
                    at[s] = "answered", at[t] = "answered", answer[s] # answer[t]
             PROVE  \E j \in {answer[s], answer[t]} : state[j] \in {"failed", "deleted"}
  BY DEF SameAnswerWhileAlive
<1>1. answer[s] \in Mine(s) /\ answer[t] \in Mine(t)
  BY DEF Sound, Asked
<1>2. ~({state[answer[s]], state[answer[t]]} \subseteq {"open", "succeeded"})
  BY <1>1 DEF Sound, OneLiveJobPerRequest, Mine
<1>. QED  BY <1>1, <1>2 DEF Sound, Types, TypeOK, Mine

(* Producers answered with different jobs for one request: one of the jobs  *)
(* has failed or is deleted (create_job_from_payload_for_actor).            *)
THEOREM OneAnswer == ASSUME SubmissionAssumption PROVE Spec => []SameAnswerWhileAlive
<1>1. Sound => SameAnswerWhileAlive
  BY SoundAnswers
<1>. QED  BY <1>1, SoundAlways, PTL

-----------------------------------------------------------------------------
(* Giving up, and being turned away                                        *)

LEMMA RefusalNext ==
  ASSUME SubmissionAssumption, Sound, [Next]_vars
  PROVE  NoFalseRefusal
<1> SUFFICES ASSUME NEW s \in Submitter, at[s] = "insert", at'[s] = "refused",
                    ~Can("db_error"), Input[s] # NoUpload
             PROVE  claim[Input[s]] \notin Live(Ref[s]) \ lapsed
  BY DEF NoFalseRefusal
<1>0. TypeOK /\ StagingTypeOK /\ Input[s] \in Upload /\ Unclaimed \notin Job
  BY DEF Sound, Types, TypeOK, SubmissionAssumption, StagingAssumption
<1>1. SubmitStep(s)
  BY OwnSteps DEF Sound
<1>2. InsertRefused(s)
  BY <1>0, <1>1 DEF SubmitStep, Submit, Find, CheckFound, CheckFailed, CheckDeleted, Insert, InsertClaimed,
                    InsertConflict, Look, KillSubmitter, Proceed, TypeOK
<1>3. claim[Input[s]] = Unclaimed \/ claim[Input[s]] \in lapsed \/ state[claim[Input[s]]] = "failed"
  BY <1>0, <1>2 DEF InsertRefused, UploadFree, Recovered, StagingTypeOK
<1>. QED  BY <1>0, <1>3 DEF Live, Existing

(* A submission is refused at its insertion for its upload's sake only:     *)
(* the upload is gone or expired, which the upload of a live job never is   *)
(* (insert_batch_job).                                                      *)
THEOREM RefusedForCause == ASSUME SubmissionAssumption PROVE Spec => [][NoFalseRefusal]_vars
<1>1. Sound /\ [Next]_vars => [NoFalseRefusal]_vars
  BY RefusalNext
<1>. QED  BY <1>1, SoundAlways, PTL DEF Spec

Its(s, final) == {j \in Job : key[j] = Ref[s] /\ state[j] = final}

(* Where a submission without an upload stands in the race for the unique   *)
(* constraint: the first violation shows a winner, a second look that finds *)
(* none a winner that failed, and the second violation another winner.      *)
Beaten(s) ==
  /\ at[s] \in {"find", "check"} => Mine(s) # {}
  /\ at[s] = "find" /\ attempt[s] = 2 => \E i \in Its(s, "failed") : \E j \in Mine(s) : i # j
  /\ at[s] = "check" /\ found[s] = NoJob => Its(s, "failed") # {}
  /\ at[s] = "check" /\ attempt[s] = 2 =>
       \E i \in Its(s, "failed") : IF found[s] = NoJob THEN \E j \in Its(s, "failed") : i # j ELSE i # found[s]
  /\ at[s] = "insert" => attempt[s] = 2 /\ Its(s, "failed") # {}
  /\ at[s] = "refused" => \E i \in Its(s, "failed") : \E j \in Its(s, "failed") : i # j

Race(s) ==
  Input[s] = NoUpload =>
    /\ reason[s] # "claimed"
    /\ reason[s] = "first" => attempt[s] = 1
    /\ reason[s] = "unique" => Ref[s] # NoRef /\ at[s] # "idle"
    /\ reason[s] = "unique" /\ Its(s, "deleted") = {} => Beaten(s)

LEMMA RaceNext ==
  ASSUME SubmissionAssumption, "db_error" \notin Faults, Types, [Next]_vars,
         NEW s \in Submitter, Asked(s), Race(s)
  PROVE  Race(s)'
<1> SUFFICES ASSUME Input[s] = NoUpload PROVE Race(s)'
  BY DEF Race
<1>0. TypeOK /\ NoJob \notin Job
  BY DEF Types, SubmissionAssumption
<1>a. /\ reason[s] \in {"first", "unique"}
      /\ reason[s] = "first" => attempt[s] = 1
      /\ reason[s] = "unique" => Ref[s] # NoRef /\ at[s] # "idle"
      /\ reason[s] = "unique" /\ Its(s, "deleted") = {} => Beaten(s)
  BY <1>0 DEF Race, TypeOK
<1>1. \A j \in Job : /\ state[j] # "absent" => state'[j] # "absent" /\ key'[j] = key[j]
                     /\ state[j] \in {"failed", "deleted"} => state'[j] \in {state[j], "deleted"}
  BY JobsAge
<1>2. Mine(s) \subseteq Mine(s)'
  BY <1>1 DEF Mine
<1>3. Its(s, "deleted") \subseteq Its(s, "deleted")'
  BY <1>1 DEF Its
<1>4. Its(s, "deleted")' = {} => Its(s, "failed") \subseteq Its(s, "failed")'
  BY <1>1 DEF Its
<1>5. CASE ~SubmitStep(s)
  <2>1. /\ at'[s] = at[s] /\ found'[s] = found[s] /\ attempt'[s] = attempt[s] /\ reason'[s] = reason[s]
    BY <1>5, OwnSteps
  <2>2. reason[s] = "unique" /\ Its(s, "deleted")' = {} => Beaten(s)'
    <3> SUFFICES ASSUME reason[s] = "unique", Its(s, "deleted")' = {} PROVE Beaten(s)'
      OBVIOUS
    <3>1. Beaten(s) /\ Its(s, "failed") \subseteq Its(s, "failed")'
      BY <1>a, <1>3, <1>4
    <3>. QED  BY <1>2, <2>1, <3>1 DEF Beaten
  <2>. QED  BY <1>a, <2>1, <2>2 DEF Race
<1>6. CASE Submit(s)
  <2>1. at[s] = "idle" /\ reason'[s] = reason[s] /\ attempt'[s] = attempt[s]
    BY <1>6 DEF Submit
  <2>. QED  BY <1>a, <2>1 DEF Race
<1>7. CASE Find(s)
  <2>1. at[s] = "find" /\ at'[s] = "check" /\ reason'[s] = reason[s] /\ attempt'[s] = attempt[s]
        /\ state' = state /\ key' = key
    BY <1>0, <1>7 DEF Find, Proceed, TypeOK, jobVars
  <2>2. reason[s] = "unique" =>
          \/ found'[s] = NoJob /\ Live(Ref[s]) = {}
          \/ found'[s] \in Live(Ref[s])
    <3>1. CASE Live(Ref[s]) = {}
      BY <1>0, <1>7, <3>1 DEF Find, TypeOK
    <3>2. CASE Live(Ref[s]) # {}
      <4>1. \E j \in Live(Ref[s]) : \A i \in Live(Ref[s]) : i <= j
        BY <3>2, LastJob DEF Live, Existing
      <4>. QED  BY <1>0, <1>7, <1>a, <3>2, <4>1 DEF Find, TypeOK
    <3>. QED  BY <3>1, <3>2
  <2>3. Its(s, "deleted") = {} => Mine(s) = Live(Ref[s]) \cup Its(s, "failed")
    BY <1>0 DEF Mine, Live, Existing, Its, TypeOK
  <2>4. \A j \in Live(Ref[s]) : j # NoJob /\ j \notin Its(s, "failed")
    BY <1>0 DEF Live, Existing, Its
  <2>5. Mine(s)' = Mine(s) /\ \A final : Its(s, final)' = Its(s, final)
    BY <2>1 DEF Mine, Its
  <2>6. reason[s] = "unique" /\ Its(s, "deleted") = {} => Beaten(s)'
    <3> SUFFICES ASSUME reason[s] = "unique", Its(s, "deleted") = {} PROVE Beaten(s)'
      OBVIOUS
    <3>1. Mine(s) # {} /\ (attempt[s] = 2 => \E i \in Its(s, "failed") : \E j \in Mine(s) : i # j)
      BY <1>a, <2>1 DEF Beaten
    <3>2. CASE found'[s] = NoJob /\ Live(Ref[s]) = {}
      BY <2>1, <2>3, <2>5, <3>1, <3>2 DEF Beaten
    <3>3. CASE found'[s] \in Live(Ref[s])
      BY <2>1, <2>4, <2>5, <3>1, <3>3 DEF Beaten
    <3>. QED  BY <2>2, <3>2, <3>3
  <2>. QED  BY <1>a, <2>1, <2>5, <2>6 DEF Race
<1>8. CASE CheckFound(s) \/ KillSubmitter(s)
  <2>1. at'[s] \in {"answered", "dead"} /\ reason'[s] = reason[s] /\ attempt'[s] = attempt[s]
    BY <1>0, <1>8 DEF CheckFound, KillSubmitter, Proceed, TypeOK
  <2>. QED  BY <1>a, <2>1 DEF Race, Beaten
<1>9. CASE CheckFailed(s)
  <2>1. /\ at[s] = "check" /\ (found[s] # NoJob => state[found[s]] = "failed")
        /\ reason'[s] = reason[s] /\ state' = state /\ key' = key
    BY <1>9 DEF CheckFailed, jobVars
  <2>2. Mine(s)' = Mine(s) /\ \A final : Its(s, final)' = Its(s, final)
    BY <2>1 DEF Mine, Its
  <2>3. found[s] # NoJob => found[s] \in Its(s, "failed")
    BY <2>1 DEF Asked, Mine, Its
  <2>4. CASE reason[s] = "first"
    <3>1. attempt'[s] = attempt[s]
      BY <1>9, <2>4 DEF CheckFailed, NotFound
    <3>. QED  BY <1>a, <2>1, <2>4, <3>1 DEF Race
  <2>5. CASE reason[s] = "unique" /\ attempt[s] = 1
    <3>1. at'[s] = "insert" /\ attempt'[s] = 2
      BY <1>0, <1>9, <2>5 DEF CheckFailed, NotFound, Proceed, TypeOK
    <3>2. Its(s, "deleted") = {} => Its(s, "failed") # {}
      BY <1>a, <2>1, <2>3, <2>5 DEF Beaten
    <3>3. Its(s, "deleted") = {} => Beaten(s)'
      BY <2>2, <3>1, <3>2 DEF Beaten
    <3>. QED  BY <1>a, <2>1, <2>2, <2>5, <3>1, <3>3 DEF Race
  <2>6. CASE reason[s] = "unique" /\ attempt[s] = 2
    <3>1. at'[s] = "refused"
      BY <1>0, <1>9, <2>6 DEF CheckFailed, NotFound, Proceed, TypeOK
    <3>2. Its(s, "deleted") = {} => \E i \in Its(s, "failed") : \E j \in Its(s, "failed") : i # j
      BY <1>a, <2>1, <2>3, <2>6 DEF Beaten
    <3>3. Its(s, "deleted") = {} => Beaten(s)'
      BY <2>2, <3>1, <3>2 DEF Beaten
    <3>. QED  BY <1>a, <2>1, <2>2, <2>6, <3>1, <3>3 DEF Race
  <2>. QED  BY <1>0, <1>a, <2>4, <2>5, <2>6 DEF TypeOK
<1>10. CASE CheckDeleted(s)
  <2>1. /\ at[s] = "check" /\ found[s] # NoJob /\ state[found[s]] = "deleted" /\ at'[s] = "refused"
        /\ reason'[s] = reason[s] /\ attempt'[s] = attempt[s]
    BY <1>0, <1>10 DEF CheckDeleted, Proceed, TypeOK
  <2>2. Its(s, "deleted") # {}
    BY <2>1 DEF Asked, Mine, Its
  <2>. QED  BY <1>3, <1>a, <2>1, <2>2 DEF Race
<1>11. CASE Insert(s)
  <2>1. at'[s] = "answered" /\ reason'[s] = reason[s] /\ attempt'[s] = attempt[s]
    BY <1>0, <1>11 DEF Insert, Proceed, TypeOK
  <2>. QED  BY <1>a, <2>1 DEF Race, Beaten
<1>12. CASE InsertConflict(s)
  <2>1. /\ at[s] = "insert" /\ at'[s] = "find" /\ reason'[s] = "unique" /\ attempt'[s] = attempt[s]
        /\ state' = state /\ key' = key /\ Conflict(s)
    BY <1>0, <1>12 DEF InsertConflict, Inserting, Look, Proceed, TypeOK, jobVars
  <2>2. Ref[s] # NoRef /\ Live(Ref[s]) # {}
    BY <2>1 DEF Conflict
  <2>3. PICK j \in Live(Ref[s]) : TRUE
    BY <2>2
  <2>4. j \in Mine(s) /\ j \notin Its(s, "failed")
    BY DEF Live, Existing, Mine, Its
  <2>5. Mine(s)' = Mine(s) /\ \A final : Its(s, final)' = Its(s, final)
    BY <2>1 DEF Mine, Its
  <2>6. Its(s, "deleted") = {} /\ attempt[s] = 2 => Its(s, "failed") # {}
    BY <1>a, <2>1 DEF Beaten
  <2>7. Its(s, "deleted") = {} => Beaten(s)'
    BY <2>1, <2>4, <2>5, <2>6 DEF Beaten
  <2>. QED  BY <2>1, <2>2, <2>5, <2>7 DEF Race
<1>13. CASE InsertClaimed(s) \/ InsertRefused(s)
  BY <1>13 DEF InsertClaimed, InsertRefused, Can
<1>. QED  BY <1>5, <1>6, <1>7, <1>8, <1>9, <1>10, <1>11, <1>12, <1>13 DEF SubmitStep

Racing == \A s \in Submitter : Race(s)

LEMMA RacingInit == ASSUME Init PROVE Racing
  BY DEF Init, Racing, Race

LEMMA RacingNext ==
  ASSUME SubmissionAssumption, "db_error" \notin Faults, Sound, Racing, [Next]_vars
  PROVE  Racing'
  BY RaceNext DEF Sound, Racing

LEMMA RacingGivesUp ==
  ASSUME SubmissionAssumption, Racing
  PROVE  GivesUpAfterTwoFailures
<1> SUFFICES ASSUME NEW s \in Submitter, Race(s), at[s] = "refused", reason[s] = "unique",
                    Input[s] = NoUpload, Its(s, "deleted") = {}
             PROVE  Cardinality(Its(s, "failed")) >= 2
  BY DEF GivesUpAfterTwoFailures, Its, Racing
<1>1. PICK i \in Its(s, "failed") : \E j \in Its(s, "failed") : i # j
  BY DEF Race, Beaten
<1>2. PICK j \in Its(s, "failed") : i # j
  BY <1>1
<1>3. PICK One : One = {i}
  OBVIOUS
<1>4. IsFiniteSet(One) /\ Cardinality(One) = 1 /\ j \notin One
  BY <1>2, <1>3, FS_Singleton
<1>5. IsFiniteSet(One \cup {j}) /\ Cardinality(One \cup {j}) = 2
  BY <1>4, FS_AddElement
<1>6. IsFiniteSet(Its(s, "failed"))
  BY FS_Subset DEF Its, SubmissionAssumption
<1>7. One \cup {j} \subseteq Its(s, "failed")
  BY <1>3
<1>. QED  BY <1>5, <1>6, <1>7, FS_Subset, FS_CardinalityType

(* Unless the database fails, a submission gives up the race for the        *)
(* constraint only after two winners failed before it could find them       *)
(* (TASK_REF_CREATE_ATTEMPTS).                                              *)
THEOREM TwoFailures ==
  ASSUME SubmissionAssumption, "db_error" \notin Faults
  PROVE  Spec => []GivesUpAfterTwoFailures
<1>1. Init => Racing
  BY RacingInit
<1>2. Sound /\ Racing /\ [Next]_vars => Racing'
  BY RacingNext
<1>3. Racing => GivesUpAfterTwoFailures
  BY RacingGivesUp
<1>. QED  BY <1>1, <1>2, <1>3, SoundAlways, PTL DEF Spec

-----------------------------------------------------------------------------
(* The upload of a job                                                     *)

(* While the database works, a row that tells its upload complete has the   *)
(* object: deletions take both or neither.                                  *)
Backed == \A u \in Upload : stage[u] \in {"update", "done"} /\ u \in rows => u \in objects

LEMMA BackedInit == ASSUME Init PROVE Backed
  BY DEF Init, StagingInit, Backed

LEMMA BackedNext ==
  ASSUME SubmissionAssumption, "db_error" \notin Faults, Sound, Backed, [Next]_vars
  PROVE  Backed'
<1> SUFFICES ASSUME NEW u \in Upload, stage'[u] \in {"update", "done"}, u \in rows' PROVE u \in objects'
  BY DEF Backed
<1>0. StagingTypeOK /\ ~Can("db_error")
  BY DEF Sound, Types, TypeOK, Can
<1>1. CASE UNCHANGED <<rows, objects, stage>>
  BY <1>1 DEF Backed
<1>2. ASSUME NEW v \in Upload, Deleted(v), stage' = stage PROVE u \in objects'
  BY <1>0, <1>2, DeletedFacts DEF Backed
<1>3. ASSUME NEW c \in Cleaner, NEW v \in Upload, CleanOne(c, v) PROVE u \in objects'
  BY <1>1, <1>2, <1>3 DEF CleanOne
<1>4. ASSUME NEW v \in Upload, StartStaging(v) \/ Refuse(v) \/ KillStaging(v) \/ UpdateFails(v)
      PROVE  u \in objects'
  BY <1>0, <1>4 DEF StartStaging, Refuse, KillStaging, UpdateFails, Enter, Backed, StagingTypeOK, uploadVars
<1>5. ASSUME NEW v \in Upload, Register(v) \/ Put(v) \/ PutFails(v) \/ Update(v) PROVE u \in objects'
  BY <1>0, <1>5 DEF Register, Put, PutFails, Update, Enter, Backed, StagingTypeOK
<1>6. ASSUME NEW v \in Upload, Discard(v) \/ DiscardFails(v) \/ Keep(v) \/ Lapse(v) PROVE u \in objects'
  BY <1>0, <1>6 DEF Discard, DiscardFails, Keep, Lapse, RowGone, Enter, Backed, StagingTypeOK
<1>7. ASSUME NEW c \in Cleaner, Clean(c) PROVE u \in objects'
  BY <1>1, <1>7 DEF Clean, uploadVars
<1>8. ASSUME NEW s \in Submitter, SubmitStep(s) PROVE u \in objects'
  BY <1>1, <1>8 DEF SubmitStep, Submit, Find, CheckFound, CheckFailed, CheckDeleted, Insert, InsertClaimed,
                    InsertConflict, InsertRefused, Look, KillSubmitter, stagingVars, uploadVars
<1>9. ASSUME NEW j \in Job, JobStep(j) PROVE u \in objects'
  BY <1>1, <1>2, <1>9 DEF JobStep, JobSucceeds, JobFails, JobConsumes, LeaseLapses, Reconcile, ReleaseUpload,
                          JobDeleted, Settled, stagingVars, uploadVars
<1>. QED  BY <1>1, <1>3, <1>4, <1>5, <1>6, <1>7, <1>8, <1>9
     DEF Next, UploadStep, CleanupStep, StagingStep, vars, stagingVars, uploadVars

LEMMA KeepsUpload ==
  ASSUME SubmissionAssumption, "db_error" \notin Faults, Sound, Backed, [Next]_vars
  PROVE  JobKeepsUpload
<1> SUFFICES ASSUME NEW u \in Upload, Busy(u)
             PROVE  \/ claim'[u] = claim[u] /\ u \in rows' \cap objects'
                    \/ claim[u] \in finished'
                    \/ ~RemotePull /\ listed' = listed /\ u \notin objects'
  BY DEF JobKeepsUpload
<1>. DEFINE Kept == claim'[u] = claim[u] /\ u \in rows' \cap objects'
<1>0. StagingTypeOK /\ StagingAssumption /\ TypeOK /\ ~Can("db_error") /\ ClaimedAreDone
  BY DEF Sound, Types, TypeOK, Can, SubmissionAssumption
<1>1. u \in rows /\ u \in objects /\ claim[u] \in Job /\ claim[u] # Unclaimed /\ claim[u] \notin finished
  BY <1>0 DEF Busy, StagingTypeOK, StagingAssumption, ClaimedAreDone, Backed
<1>2. CASE UNCHANGED <<rows, objects, claim>>
  BY <1>1, <1>2
<1>3. CASE UploadStep
  BY <1>0, <1>1, <1>3, UpkeepSparesBusy DEF UploadStep, Upkeep
<1>4. ASSUME NEW s \in Submitter, Insert(s) PROVE Kept \/ claim[u] \in finished'
  <2>1. /\ claim'[u] = claim[u] \/ u = Input[s] \/ claim[u] \in Reconciled(s)
        /\ Input[s] # NoUpload => UploadFree(Input[s])
        /\ rows' = rows /\ objects' = objects /\ finished' = finished \cup Reconciled(s)
    BY <1>4 DEF Insert
  <2>2. u = Input[s] => claim[u] \in Reconciled(s)
    BY <1>1, <2>1 DEF UploadFree, Reconciled, SubmissionAssumption
  <2>. QED  BY <1>1, <2>1, <2>2
<1>5. ASSUME NEW s \in Submitter, SubmitStep(s), ~Insert(s) PROVE UNCHANGED <<rows, objects, claim>>
  BY <1>5 DEF SubmitStep, Submit, Find, CheckFound, CheckFailed, CheckDeleted, InsertClaimed,
              InsertConflict, InsertRefused, Look, KillSubmitter, stagingVars, uploadVars
<1>6. ASSUME NEW j \in Job, JobConsumes(j)
      PROVE  Kept \/ (~RemotePull /\ listed' = listed /\ u \notin objects')
  <2>1. PICK v \in Upload : claim[v] = j /\ Deleted(v)
    BY <1>6 DEF JobConsumes
  <2>2. CASE v # u
    BY <1>0, <1>1, <2>1, <2>2, DeletedFacts
  <2>3. CASE v = u
    <3>1. state[j] # "succeeded"
      BY <1>0, <1>1, <2>1, <2>3 DEF TypeOK
    <3>2. ~RemotePull /\ listed' = listed
      BY <1>6, <3>1 DEF JobConsumes
    <3>. QED  BY <1>0, <1>1, <2>1, <2>3, <3>2, DeletedFacts
  <2>. QED  BY <2>2, <2>3
<1>7. ASSUME NEW j \in Job, JobFails(j) PROVE Kept \/ claim[u] \in finished'
  BY <1>0, <1>1, <1>7 DEF JobFails, Settled, ReleaseClaims, StagingTypeOK
<1>8. ASSUME NEW j \in Job, ReleaseUpload(j) PROVE Kept
  <2>1. j \in Job => j # claim[u]
    BY <1>0, <1>1, <1>8 DEF ReleaseUpload, TypeOK
  <2>. QED  BY <1>0, <1>1, <1>8, <2>1 DEF ReleaseUpload, ReleaseClaims
<1>9. ASSUME NEW j \in Job, JobSucceeds(j) \/ LeaseLapses(j) \/ Reconcile(j) \/ JobDeleted(j)
      PROVE  UNCHANGED <<rows, objects, claim>>
  BY <1>9 DEF JobSucceeds, LeaseLapses, Reconcile, JobDeleted, stagingVars, uploadVars
<1>. QED  BY <1>2, <1>3, <1>4, <1>5, <1>6, <1>7, <1>8, <1>9
     DEF Next, SubmitStep, JobStep, vars, stagingVars, uploadVars

(* From submission until its job makes a copy, the upload of an open job    *)
(* stays its own, row and object, through cleanups, lapses and other        *)
(* submissions, as long as the database works.                              *)
THEOREM UploadsStayWithJobs ==
  ASSUME SubmissionAssumption, "db_error" \notin Faults
  PROVE  Spec => [][JobKeepsUpload]_vars
<1>1. Init => Backed
  BY BackedInit
<1>2. Sound /\ Backed /\ [Next]_vars => Backed' /\ [JobKeepsUpload]_vars
  BY BackedNext, KeepsUpload
<1>. QED  BY <1>1, <1>2, SoundAlways, PTL DEF Spec

=============================================================================
