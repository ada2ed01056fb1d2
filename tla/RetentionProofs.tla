--------------------------- MODULE RetentionProofs ---------------------------
(***************************************************************************)
(* Proofs about deletion, for any number of jobs, attempts, objects, rows  *)
(* and calls.                                                              *)
(*                                                                         *)
(* A deletion may come long after its list was read.  What makes it safe   *)
(* is what it asks again under the write lock: who owns the row, whether   *)
(* another row names the object, and, before a job's row goes, whether     *)
(* anything of it is left.  The rest stays true because a settled job      *)
(* gains no rows and no prefixes.                                          *)
(***************************************************************************)
EXTENDS Retention, TLAPS

Stored(r) == Sort[r] # "upload"

(* Only uploads change hands. *)
Owned == \A r \in Row : Stored(r) => owner[r] = First[r]

(* What a running job has stored, and what it has replaced, lies below no attempt's *)
(* prefix: a worker's completion settles the job, local execution has no attempt.   *)
Local ==
  /\ \A r \in rows : Stored(r) /\ state[First[r]] = "running" => Below[Names[r]] = NoAttempt
  /\ \A r \in pending : Below[Names[r]] = NoAttempt

(* A DELETE under way passed the checks up front, for a job that stays over. *)
Admissible ==
  \A c \in Caller : at[c] \in Steps =>
    /\ Target[c] \in Profile /\ state[Target[c]] # "running"
    /\ \A r \in todo[c] \cap Row : Deletable(Names[r], First[r])

IInv == TypeOK /\ Owned /\ Local /\ Admissible

(* What a step of the sweep or of a call does to rows and objects, if anything. *)
Deletion ==
  \/ \E r \in rows : (Remove(r) \/ HalfRemove(r)) /\ ~Wanted(r) /\ Deletable(Names[r], First[r])
  \/ \E r \in Row : Drain(r) \/ HalfDrain(r)
  \/ \E a \in Attempt : CleanPrefix(a) \/ HalfCleanPrefix(a)

(* ... and what it does to the jobs. *)
JobGoes(j) == ~Owns(j) /\ state' = [state EXCEPT ![j] = "gone"] /\ UNCHANGED dataVars

(* A call that is answered was told the truth about the job. *)
Answered == \A c \in Caller : at[c] \in {"deleted", "missing"} => state[Target[c]] = "gone"

-----------------------------------------------------------------------------
(* What a deletion does                                                    *)

LEMMA Outcomes ==
  ASSUME RetentionAssumption, IInv, Sweep \/ \E c \in Caller : CallStep(c)
  PROVE  /\ UNCHANGED <<aged, leased>>
         /\ Deletion \/ UNCHANGED dataVars
         /\ UNCHANGED state \/ \E j \in Job : JobGoes(j)
<1>1. ASSUME NEW r \in Row, PruneRow(r) PROVE Deletion
  <2>1. r \in rows /\ (Remove(r) \/ HalfRemove(r)) /\ Deletable(Names[r], First[r])
    BY <1>1 DEF PruneRow, ArtifactDue, UploadDue
  <2>2. CASE ArtifactDue(r)
    <3>1. owner[r] \in Job /\ owner[r] # Nobody /\ state[owner[r]] = "settled"
      BY <2>2 DEF ArtifactDue, IInv, Owned, Stored, RetentionAssumption
    <3>2. ~Wanted(r)
      BY <2>2, <3>1 DEF ArtifactDue, BackstopPassed, Wanted
    <3>. QED  BY <2>1, <3>2 DEF Deletion
  <2>3. CASE UploadDue(r)
    <3>1. ~Wanted(r)
      BY <2>3 DEF UploadDue, BackstopPassed, Wanted, IInv, TypeOK
    <3>. QED  BY <2>1, <3>1 DEF Deletion
  <2>. QED  BY <1>1, <2>2, <2>3 DEF PruneRow
<1>2. CASE Sweep
  BY <1>1, <1>2 DEF Sweep, PrunePrefix, PruneJob, JobGoes, Deletion, jobVars
<1>3. ASSUME NEW c \in Caller, NEW r \in rows, owner[r] = Target[c], at[c] \in Steps PROVE ~Wanted(r)
  BY <1>3 DEF Wanted, IInv, Admissible, RetentionAssumption
<1>4. ASSUME NEW c \in Caller, NEW r \in Row, DeleteRow(c, r)
      PROVE  (Deletion \/ UNCHANGED dataVars) /\ UNCHANGED jobVars
  <2>1. at[c] \in Steps
    BY <1>4 DEF DeleteRow, Steps
  <2>. QED  BY <1>3, <1>4, <2>1 DEF DeleteRow, Deletion
<1>5. ASSUME NEW c \in Caller, DeleteStep(c)
      PROVE  /\ Deletion \/ UNCHANGED dataVars
             /\ UNCHANGED <<aged, leased>>
             /\ UNCHANGED state \/ \E j \in Job : JobGoes(j)
  <2>1. CASE FinishDelete(c)
    <3>1. Target[c] \in Job
      BY DEF RetentionAssumption
    <3>. QED  BY <2>1, <3>1 DEF FinishDelete, JobGoes
  <2>2. ASSUME NEW r \in Row, DeletePending(c, r) PROVE Deletion /\ UNCHANGED jobVars
    BY <2>2 DEF DeletePending, Deletion
  <2>3. ASSUME NEW a \in Attempt, DeletePrefix(c, a) PROVE (Deletion \/ UNCHANGED dataVars) /\ UNCHANGED jobVars
    BY <2>3 DEF DeletePrefix, Deletion
  <2>4. CASE Go(c)
    BY <2>4 DEF Go, jobVars
  <2>. QED  BY <1>4, <1>5, <2>1, <2>2, <2>3, <2>4 DEF DeleteStep, jobVars
<1>6. ASSUME NEW c \in Caller, DeleteFails(c) PROVE (Deletion \/ UNCHANGED dataVars) /\ UNCHANGED jobVars
  <2>1. CASE \E r \in todo[c] \cap rows : owner[r] = Target[c] /\ HalfRemove(r)
    <3>1. PICK r \in todo[c] \cap rows : owner[r] = Target[c] /\ HalfRemove(r)
      BY <2>1
    <3>2. r \in Row /\ at[c] \in Steps
      BY <1>6 DEF DeleteFails, IInv, TypeOK
    <3>3. ~Wanted(r) /\ Deletable(Names[r], First[r])
      BY <1>3, <3>1, <3>2 DEF IInv, Admissible
    <3>. QED  BY <1>6, <3>1, <3>3 DEF DeleteFails, Deletion
  <2>2. CASE \E a \in Attempt : HalfCleanPrefix(a)
    BY <1>6, <2>2 DEF DeleteFails, Deletion
  <2>3. CASE \E r \in pending : HalfDrain(r)
    <3>1. pending \subseteq Row
      BY DEF IInv, TypeOK
    <3>. QED  BY <1>6, <2>3, <3>1 DEF DeleteFails, Deletion
  <2>. QED  BY <1>6, <2>1, <2>2, <2>3 DEF DeleteFails
<1>7. ASSUME NEW c \in Caller, Call(c) \/ ListFails(c) \/ KillCall(c) PROVE UNCHANGED <<jobVars, dataVars>>
  BY <1>7 DEF Call, ListFails, KillCall
<1>. QED  BY <1>2, <1>5, <1>6, <1>7 DEF CallStep, jobVars

LEMMA DeletionShrinks ==
  ASSUME RetentionAssumption, IInv, Deletion
  PROVE  /\ rows' \subseteq rows /\ pending' \subseteq pending /\ prefixes' \subseteq prefixes
         /\ objects' \subseteq objects /\ UNCHANGED <<owner, old>>
         /\ Outside \cap objects \subseteq objects'
<1>1. ASSUME NEW r \in rows, Remove(r) \/ HalfRemove(r), Deletable(Names[r], First[r])
      PROVE  /\ rows' \subseteq rows /\ pending' \subseteq pending /\ prefixes' \subseteq prefixes
             /\ objects' \subseteq objects /\ UNCHANGED <<owner, old>>
             /\ Outside \cap objects \subseteq objects'
  BY <1>1 DEF Remove, HalfRemove, Freed, Deletable
<1>2. ASSUME NEW r \in Row, Drain(r) \/ HalfDrain(r)
      PROVE  /\ rows' \subseteq rows /\ pending' \subseteq pending /\ prefixes' \subseteq prefixes
             /\ objects' \subseteq objects /\ UNCHANGED <<owner, old>>
             /\ Outside \cap objects \subseteq objects'
  BY <1>2 DEF Drain, HalfDrain, Freed, Deletable
<1>3. ASSUME NEW a \in Attempt, CleanPrefix(a) \/ HalfCleanPrefix(a)
      PROVE  /\ rows' \subseteq rows /\ pending' \subseteq pending /\ prefixes' \subseteq prefixes
             /\ objects' \subseteq objects /\ UNCHANGED <<owner, old>>
             /\ Outside \cap objects \subseteq objects'
  BY <1>3 DEF CleanPrefix, HalfCleanPrefix, Freed, KeysBelow
<1>. QED  BY <1>1, <1>2, <1>3 DEF Deletion

-----------------------------------------------------------------------------
(* The invariant                                                           *)

LEMMA InitIInv ==
  ASSUME RetentionAssumption, Init
  PROVE  IInv
BY DEF RetentionAssumption, Init, IInv, TypeOK, Owned, Local, Admissible, Stored, Steps

LEMMA ReplaceKeeps ==
  ASSUME RetentionAssumption, IInv, NEW r \in Row, Replace(r)
  PROVE  IInv'
<1>. DEFINE j == First[r]
<1>1. /\ Below[Names[r]] = NoAttempt /\ Names[r] \in Object /\ j \in Job
      /\ state[j] = "running" /\ r \notin pending
      /\ UNCHANGED <<jobVars, prefixes, owner, old, callVars>>
  BY DEF Replace, RetentionAssumption
<1>2. PICK queued : /\ queued \subseteq {q \in Artifacts(j) : Sort[q] = "intermediate"}
                    /\ rows' = (rows \ {q \in Artifacts(j) : Sort[q] = "intermediate"}) \cup {r}
                    /\ pending' = pending \cup queued /\ r \notin rows
  BY DEF Replace
<1>3. \A q \in queued : q \in rows /\ Below[Names[q]] = NoAttempt
  BY <1>1, <1>2 DEF Artifacts, IInv, Local, Owned, Stored, TypeOK
<1>4. TypeOK'
  <2>1. objects' \subseteq Object
    BY <1>1 DEF Replace, IInv, TypeOK
  <2>2. rows' \subseteq Row /\ pending' \subseteq Row \ rows'
    BY <1>1, <1>2, <1>3 DEF IInv, TypeOK
  <2>. QED  BY <1>1, <2>1, <2>2 DEF IInv, TypeOK, jobVars, callVars
<1>5. Local'
  BY <1>1, <1>2, <1>3 DEF IInv, Local, jobVars
<1>. QED  BY <1>1, <1>4, <1>5 DEF IInv, Owned, Admissible, jobVars, callVars, Deletable

LEMMA CompleteKeeps ==
  ASSUME RetentionAssumption, IInv, NEW a \in Attempt, Complete(a)
  PROVE  IInv'
<1>. DEFINE j == AttemptOf[a]
<1>1. j \in Job /\ state[j] = "running" /\ UNCHANGED <<aged, leased, prefixes, owner, old, pending, objects, callVars>>
  BY DEF Complete, RetentionAssumption
<1>2. PICK R : /\ R \subseteq {r \in Row : First[r] = j /\ Stored(r) /\ Below[Names[r]] = a}
               /\ rows' = rows \cup R
  BY DEF Complete, Stored
<1>3. state' = [state EXCEPT ![j] = "settled"]
  BY DEF Complete
<1>4. a # NoAttempt
  BY DEF RetentionAssumption
<1>5. TypeOK'
  <2>1. rows' \subseteq Row /\ pending' \subseteq Row \ rows'
    BY <1>1, <1>2, <1>4 DEF IInv, TypeOK, Local
  <2>. QED  BY <1>1, <1>3, <2>1 DEF IInv, TypeOK, callVars
<1>6. Local'
  BY <1>1, <1>2, <1>3 DEF IInv, Local, TypeOK, RetentionAssumption
<1>7. Admissible'
  BY <1>1, <1>3 DEF IInv, Admissible, TypeOK, callVars, Deletable, RetentionAssumption
<1>. QED  BY <1>1, <1>5, <1>6, <1>7 DEF IInv, Owned

LEMMA JobStepKeeps ==
  ASSUME RetentionAssumption, IInv, JobStep
  PROVE  IInv'
<1>1. ASSUME NEW a \in Attempt, Lease(a) PROVE IInv'
  BY <1>1 DEF Lease, IInv, TypeOK, Owned, Local, Admissible, Deletable, callVars
<1>2. ASSUME NEW o \in Object, Upload(o) PROVE IInv'
  BY <1>2 DEF Upload, IInv, TypeOK, Owned, Local, Admissible, Deletable, jobVars, callVars
<1>3. ASSUME NEW r \in Row, ReleaseUpload(r) \/ (\E j \in Job : ClaimUpload(r, j)) PROVE IInv'
  <2>1. /\ Sort[r] = "upload" /\ UNCHANGED <<jobVars, prefixes, rows, old, pending, objects, callVars>>
        /\ \E x \in Job \cup {Nobody} : owner' = [owner EXCEPT ![r] = x]
    BY <1>3 DEF ReleaseUpload, ClaimUpload
  <2>2. TypeOK' /\ Owned'
    BY <2>1 DEF IInv, TypeOK, Owned, Stored, jobVars, callVars
  <2>. QED  BY <2>1, <2>2 DEF IInv, Local, Admissible, Deletable, jobVars, callVars
<1>4. ASSUME NEW r \in Row, Expire(r) PROVE IInv'
  BY <1>4 DEF Expire, IInv, TypeOK, Owned, Local, Admissible, Deletable, jobVars, callVars
<1>5. ASSUME NEW j \in Job, Settle(j) PROVE IInv'
  <2>1. state' = [state EXCEPT ![j] = "settled"] /\ UNCHANGED <<aged, leased, dataVars, callVars>>
    BY <1>5 DEF Settle
  <2>2. TypeOK'
    BY <2>1 DEF IInv, TypeOK, dataVars, callVars
  <2>3. Local' /\ Admissible'
    BY <2>1 DEF IInv, TypeOK, Local, Admissible, Deletable, dataVars, callVars, RetentionAssumption
  <2>. QED  BY <2>1, <2>2, <2>3 DEF IInv, Owned, dataVars
<1>6. ASSUME NEW j \in Job, Age(j) PROVE IInv'
  BY <1>6 DEF Age, IInv, TypeOK, Owned, Local, Admissible, Deletable, dataVars, callVars
<1>. QED  BY <1>1, <1>2, <1>3, <1>4, <1>5, <1>6, ReplaceKeeps, CompleteKeeps DEF JobStep

(* A call is where the code may be, and deletes only what the checks admitted. *)
LEMMA CallPlaces ==
  ASSUME RetentionAssumption, IInv, NEW c \in Caller, CallStep(c)
  PROVE  /\ at' \in [Caller -> {"idle"} \cup Steps \cup Answers]
         /\ todo' \in [Caller -> SUBSET (Row \cup Attempt)]
         /\ \A d \in Caller : at'[d] \in Steps =>
              /\ Target[d] \in Profile /\ state[Target[d]] # "running"
              /\ \A r \in todo'[d] \cap Row : Deletable(Names[r], First[r])
<1>. DEFINE Fine(d, here, left) ==
              here \in Steps => /\ Target[d] \in Profile /\ state[Target[d]] # "running"
                                /\ \A r \in left \cap Row : Deletable(Names[r], First[r])
<1>1. \A d \in Caller : Fine(d, at[d], todo[d])
  BY DEF IInv, Admissible
<1>2. /\ at \in [Caller -> {"idle"} \cup Steps \cup Answers]
      /\ todo \in [Caller -> SUBSET (Row \cup Attempt)]
      /\ rows \subseteq Row /\ prefixes \subseteq Attempt
  BY DEF IInv, TypeOK
<1>3. \E here \in {"idle"} \cup Steps \cup Answers, left \in SUBSET (Row \cup Attempt) :
        /\ at' = [at EXCEPT ![c] = here] /\ todo' = [todo EXCEPT ![c] = left]
        /\ Fine(c, here, left)
  <2>1. CASE Call(c)
    <3>1. PICK here \in {"missing", "conflict", "artifacts"} :
            /\ at' = [at EXCEPT ![c] = here]
            /\ here = "artifacts" => Admitted(Target[c])
      BY <2>1 DEF Call, Goto
    <3>2. PICK left : /\ left = RowsOf(Target[c]) \cup PrefixesOf(Target[c])
                      /\ todo' = [todo EXCEPT ![c] = left]
      BY <2>1 DEF Call
    <3>3. left \in SUBSET (Row \cup Attempt) /\ left \cap Row \subseteq RowsOf(Target[c])
      BY <1>2, <3>2 DEF RowsOf, PrefixesOf, RetentionAssumption
    <3>4. Fine(c, here, left)
      BY <3>1, <3>3 DEF Admitted, Refusable, Steps
    <3>. QED  BY <3>1, <3>2, <3>3, <3>4 DEF Steps, Answers
  <2>2. ASSUME NEW x, at[c] \in Steps, UNCHANGED at, Done(c, x)
        PROVE  \E here \in {"idle"} \cup Steps \cup Answers, left \in SUBSET (Row \cup Attempt) :
                 /\ at' = [at EXCEPT ![c] = here] /\ todo' = [todo EXCEPT ![c] = left]
                 /\ Fine(c, here, left)
    <3>1. at' = [at EXCEPT ![c] = at[c]] /\ todo' = [todo EXCEPT ![c] = todo[c] \ {x}]
      BY <1>2, <2>2 DEF Done
    <3>2. Fine(c, at[c], todo[c] \ {x}) /\ todo[c] \ {x} \in SUBSET (Row \cup Attempt)
      BY <1>1, <1>2
    <3>. QED  BY <1>2, <3>1, <3>2
  <2>3. ASSUME NEW here \in {"idle"} \cup Steps \cup Answers, Goto(c, here), UNCHANGED todo,
               at[c] \in Steps
        PROVE  \E left \in SUBSET (Row \cup Attempt) :
                 /\ at' = [at EXCEPT ![c] = here] /\ todo' = [todo EXCEPT ![c] = left]
                 /\ Fine(c, here, left)
    <3>1. at' = [at EXCEPT ![c] = here] /\ todo' = [todo EXCEPT ![c] = todo[c]]
      BY <1>2, <2>3 DEF Goto
    <3>2. Fine(c, here, todo[c])
      BY <1>1, <2>3
    <3>. QED  BY <1>2, <3>1, <3>2
  <2>4. CASE \E r \in Row : DeleteRow(c, r)
    BY <2>2, <2>4 DEF DeleteRow, Steps
  <2>5. CASE \E a \in Attempt : DeletePrefix(c, a)
    BY <2>2, <2>5 DEF DeletePrefix, Steps
  <2>6. CASE \E r \in Row : DeletePending(c, r)
    <3>1. at[c] \in Steps /\ UNCHANGED <<at, todo>>
      BY <2>6 DEF DeletePending, Steps
    <3>. QED  BY <1>2, <2>3, <3>1 DEF Goto
  <2>7. CASE Go(c)
    <3>1. at[c] \in Steps /\ Following(at[c]) \in Steps
      BY <2>7 DEF Go, Following, Steps
    <3>. QED  BY <2>3, <2>7, <3>1 DEF Go
  <2>8. CASE FinishDelete(c)
    <3>1. PICK here \in {"retry", "deleted"} : Goto(c, here)
      BY <2>8 DEF FinishDelete
    <3>2. at[c] \in Steps /\ UNCHANGED todo
      BY <2>8 DEF FinishDelete, Steps
    <3>. QED  BY <2>3, <3>1, <3>2 DEF Answers
  <2>9. CASE DeleteFails(c) \/ ListFails(c) \/ KillCall(c)
    <3>1. PICK here \in {"retry", "conflict"} : Goto(c, here)
      BY <2>9 DEF DeleteFails, ListFails, KillCall
    <3>2. at[c] \in Steps /\ UNCHANGED todo
      BY <2>9 DEF DeleteFails, ListFails, KillCall, Steps
    <3>. QED  BY <2>3, <3>1, <3>2 DEF Answers
  <2>. QED  BY <2>1, <2>4, <2>5, <2>6, <2>7, <2>8, <2>9 DEF CallStep, DeleteStep
<1>. QED  BY <1>1, <1>2, <1>3

LEMMA DeletingKeeps ==
  ASSUME RetentionAssumption, IInv, Sweep \/ \E c \in Caller : CallStep(c)
  PROVE  IInv'
<1>1. /\ rows' \subseteq rows /\ pending' \subseteq pending /\ prefixes' \subseteq prefixes
      /\ objects' \subseteq objects /\ UNCHANGED <<owner, old, aged, leased>>
  BY Outcomes, DeletionShrinks DEF dataVars
<1>2. \A j \in Job : state'[j] \in {state[j], "gone"}
  BY Outcomes DEF JobGoes, IInv, TypeOK
<1>3. state' \in [Job -> {"running", "settled", "gone"}]
  BY Outcomes DEF JobGoes, IInv, TypeOK
<1>4. /\ at' \in [Caller -> {"idle"} \cup Steps \cup Answers]
      /\ todo' \in [Caller -> SUBSET (Row \cup Attempt)]
      /\ \A d \in Caller : at'[d] \in Steps =>
           /\ Target[d] \in Profile /\ state[Target[d]] # "running"
           /\ \A r \in todo'[d] \cap Row : Deletable(Names[r], First[r])
  <2>1. CASE Sweep
    <3>1. UNCHANGED <<at, todo>>
      BY <2>1 DEF Sweep, callVars
    <3>. QED  BY <3>1 DEF IInv, TypeOK, Admissible
  <2>. QED  BY <2>1, CallPlaces
<1>5. TypeOK'
  <2>1. aged' \subseteq {j \in Job : state'[j] # "running"}
    BY <1>1, <1>2 DEF IInv, TypeOK
  <2>2. pending' \subseteq Row \ rows'
    BY <1>1 DEF IInv, TypeOK
  <2>. QED  BY <1>1, <1>3, <1>4, <2>1, <2>2 DEF IInv, TypeOK
<1>6. Local'
  BY <1>1, <1>2 DEF IInv, TypeOK, Local, RetentionAssumption
<1>7. Admissible'
  BY <1>2, <1>4 DEF Admissible, Deletable, RetentionAssumption
<1>. QED  BY <1>1, <1>5, <1>6, <1>7 DEF IInv, Owned

LEMMA NextIInv ==
  ASSUME RetentionAssumption, IInv, [Next]_vars
  PROVE  IInv'
<1>1. CASE UNCHANGED vars
  BY <1>1 DEF vars, jobVars, dataVars, callVars, IInv, TypeOK, Owned, Local, Admissible, Deletable
<1>. QED  BY <1>1, JobStepKeeps, DeletingKeeps DEF Next

(* Every deletion keeps to jobs, rows and calls the code can have.         *)
THEOREM TypeCorrect ==
  ASSUME RetentionAssumption
  PROVE  Spec => []TypeOK
<1>1. IInv => TypeOK
  BY DEF IInv
<1>. QED  BY <1>1, InitIInv, NextIInv, PTL DEF Spec

-----------------------------------------------------------------------------
(* Nothing that is wanted goes                                             *)

LEMMA WantedStay ==
  ASSUME RetentionAssumption, IInv, [Next]_vars
  PROVE  WantedObjectsKept
<1>1. ASSUME NEW q \in Row, Wanted(q), Names[q] \in objects, Deletion PROVE Names[q] \in objects'
  <2>1. q \in rows
    BY <1>1 DEF Wanted
  <2>2. ASSUME NEW r \in rows, Remove(r) \/ HalfRemove(r), ~Wanted(r) PROVE Names[q] \in objects'
    BY <1>1, <2>1, <2>2 DEF Remove, HalfRemove, Freed, Referenced
  <2>3. ASSUME NEW r \in Row, Drain(r) \/ HalfDrain(r) PROVE Names[q] \in objects'
    BY <1>1, <2>1, <2>3 DEF Drain, HalfDrain, Freed, Referenced
  <2>4. ASSUME NEW a \in Attempt, CleanPrefix(a) \/ HalfCleanPrefix(a) PROVE Names[q] \in objects'
    BY <1>1, <2>1, <2>4 DEF CleanPrefix, HalfCleanPrefix, Freed, Referenced
  <2>. QED  BY <1>1, <2>2, <2>3, <2>4 DEF Deletion
<1>2. CASE JobStep \/ UNCHANGED vars
  <2>1. objects \subseteq objects'
    BY <1>2 DEF JobStep, Lease, Complete, Upload, Replace, ReleaseUpload, Expire, ClaimUpload, Settle, Age,
                vars, dataVars
  <2>. QED  BY <2>1 DEF WantedObjectsKept
<1>3. CASE Sweep \/ \E c \in Caller : CallStep(c)
  BY <1>1, <1>3, Outcomes DEF WantedObjectsKept, dataVars
<1>. QED  BY <1>2, <1>3 DEF Next

(* No deletion, however late it comes after its list was read, takes the   *)
(* object of a row somebody still wants (object_is_referenced and the      *)
(* rechecks under the write lock).                                         *)
THEOREM NothingWantedGoes ==
  ASSUME RetentionAssumption
  PROVE  Spec => [][WantedObjectsKept]_vars
BY InitIInv, NextIInv, WantedStay, PTL DEF Spec

LEMMA OutsideStays ==
  ASSUME RetentionAssumption, IInv, OutsideKept, [Next]_vars
  PROVE  OutsideKept'
<1>1. CASE JobStep \/ UNCHANGED vars
  BY <1>1 DEF JobStep, Lease, Complete, Upload, Replace, ReleaseUpload, Expire, ClaimUpload, Settle, Age,
              vars, dataVars, OutsideKept
<1>2. CASE Sweep \/ \E c \in Caller : CallStep(c)
  BY <1>2, Outcomes, DeletionShrinks DEF OutsideKept, dataVars
<1>. QED  BY <1>1, <1>2 DEF Next

LEMMA OutsideThere ==
  ASSUME Init
  PROVE  OutsideKept
BY DEF Init, OutsideKept

(* No deletion takes an object the layout check does not vouch for, though *)
(* rows point at it and a DELETE asked long before it deletes              *)
(* (job_key_is_deletable, staged_key_is_deletable).                        *)
THEOREM NothingOutsideGoes ==
  ASSUME RetentionAssumption
  PROVE  Spec => []OutsideKept
BY InitIInv, NextIInv, OutsideThere, OutsideStays, PTL DEF Spec

-----------------------------------------------------------------------------
(* Nothing is left behind                                                  *)

(* Gone for good, with all that was the job's. *)
OverAndDone == GoneOwnsNothing /\ Answered

LEMMA InitOver ==
  ASSUME RetentionAssumption, Init
  PROVE  OverAndDone
BY DEF RetentionAssumption, Init, OverAndDone, GoneOwnsNothing, Answered

LEMMA GoneStaysEmpty ==
  ASSUME RetentionAssumption, IInv, GoneOwnsNothing, [Next]_vars
  PROVE  GoneOwnsNothing'
<1> SUFFICES ASSUME NEW j \in Job, state'[j] = "gone"
             PROVE  RowsOf(j)' = {} /\ PrefixesOf(j)' = {} /\ \A r \in pending' : First[r] # j
  BY DEF GoneOwnsNothing
<1>. DEFINE Empty == /\ \A r \in rows : owner[r] # j
                     /\ \A a \in prefixes : AttemptOf[a] # j
                     /\ \A r \in pending : First[r] # j
<1>1. state[j] = "gone" => Empty
  BY DEF GoneOwnsNothing, RowsOf, PrefixesOf
<1>2. Empty => Empty' \/ JobStep
  <2>1. CASE Sweep \/ \E c \in Caller : CallStep(c)
    BY <2>1, Outcomes, DeletionShrinks DEF dataVars
  <2>. QED  BY <2>1 DEF Next, vars, dataVars
<1>3. CASE Sweep \/ \E c \in Caller : CallStep(c)
  <2>1. state[j] = "gone" \/ (~Owns(j) /\ UNCHANGED dataVars)
    BY <1>3, Outcomes DEF JobGoes, IInv, TypeOK
  <2>2. Empty'
    <3>1. CASE state[j] = "gone"
      BY <1>1, <1>3, <3>1, Outcomes, DeletionShrinks DEF dataVars
    <3>2. CASE ~Owns(j) /\ UNCHANGED dataVars
      BY <3>2 DEF Owns, dataVars
    <3>. QED  BY <2>1, <3>1, <3>2
  <2>. QED  BY <2>2 DEF RowsOf, PrefixesOf
<1>4. CASE JobStep
  <2>1. state[j] = "gone"
    BY <1>4 DEF JobStep, Lease, Complete, Upload, Replace, ReleaseUpload, Expire, ClaimUpload, Settle, Age,
                jobVars, IInv, TypeOK
  <2>2. Empty
    BY <1>1, <2>1
  <2>3. ASSUME NEW a \in Attempt, Lease(a) PROVE Empty'
    BY <2>1, <2>2, <2>3 DEF Lease
  <2>4. ASSUME NEW a \in Attempt, Complete(a) PROVE Empty'
    <3>1. AttemptOf[a] # j /\ UNCHANGED <<prefixes, owner, pending>>
      BY <2>1, <2>4 DEF Complete
    <3>2. PICK R : R \subseteq {r \in Row : First[r] = AttemptOf[a] /\ Stored(r)} /\ rows' = rows \cup R
      BY <2>4 DEF Complete, Stored
    <3>. QED  BY <2>2, <3>1, <3>2 DEF IInv, Owned
  <2>5. ASSUME NEW r \in Row, Replace(r) PROVE Empty'
    <3>1. First[r] # j /\ owner[r] = First[r] /\ UNCHANGED <<prefixes, owner>>
      BY <2>1, <2>5 DEF Replace, IInv, Owned, Stored
    <3>2. rows' \subseteq rows \cup {r} /\ pending' \subseteq pending \cup Artifacts(First[r])
      BY <2>5 DEF Replace
    <3>3. \A q \in Artifacts(First[r]) : First[q] = First[r]
      BY DEF Artifacts, IInv, Owned, Stored, TypeOK
    <3>. QED  BY <2>2, <3>1, <3>2, <3>3
  <2>6. ASSUME NEW r \in Row, ReleaseUpload(r) \/ (\E k \in Job : ClaimUpload(r, k)) PROVE Empty'
    <3>1. PICK x \in Job \cup {Nobody} : owner' = [owner EXCEPT ![r] = x] /\ x # j
      BY <2>1, <2>6 DEF ReleaseUpload, ClaimUpload, RetentionAssumption
    <3>2. UNCHANGED <<rows, prefixes, pending>>
      BY <2>6 DEF ReleaseUpload, ClaimUpload
    <3>. QED  BY <2>2, <3>1, <3>2 DEF IInv, TypeOK
  <2>7. ASSUME (\E o \in Object : Upload(o)) \/ (\E r \in Row : Expire(r)) \/ (\E k \in Job : Settle(k) \/ Age(k))
        PROVE  Empty'
    BY <2>2, <2>7 DEF Upload, Expire, Settle, Age, dataVars
  <2>8. Empty'
    BY <1>4, <2>3, <2>4, <2>5, <2>6, <2>7 DEF JobStep
  <2>. QED  BY <2>8 DEF RowsOf, PrefixesOf
<1>5. CASE UNCHANGED vars
  BY <1>1, <1>5 DEF vars, jobVars, dataVars, RowsOf, PrefixesOf
<1>. QED  BY <1>3, <1>4, <1>5 DEF Next

LEMMA AnsweredStay ==
  ASSUME RetentionAssumption, IInv, Answered, [Next]_vars
  PROVE  Answered'
<1>1. \A j \in Job : state[j] = "gone" => state'[j] = "gone"
  <2>1. CASE Sweep \/ \E c \in Caller : CallStep(c)
    BY <2>1, Outcomes DEF JobGoes, IInv, TypeOK
  <2>2. CASE JobStep \/ UNCHANGED vars
    BY <2>2 DEF JobStep, Lease, Complete, Upload, Replace, ReleaseUpload, Expire, ClaimUpload, Settle, Age,
                vars, jobVars, IInv, TypeOK
  <2>. QED  BY <2>1, <2>2 DEF Next
<1>2. ASSUME NEW c \in Caller, at'[c] \in {"deleted", "missing"}
      PROVE  state'[Target[c]] = "gone"
  <2>1. Target[c] \in Job
    BY DEF RetentionAssumption
  <2>2. CASE at[c] \in {"deleted", "missing"}
    BY <1>1, <2>1, <2>2 DEF Answered
  <2>3. CASE \E d \in Caller : CallStep(d)
    <3>1. PICK d \in Caller : CallStep(d)
      BY <2>3
    <3>2. CASE Call(d)
      BY <1>1, <1>2, <2>1, <2>2, <3>2 DEF Call, Goto, IInv, TypeOK
    <3>3. CASE FinishDelete(d)
      BY <1>1, <1>2, <2>1, <2>2, <3>3 DEF FinishDelete, Goto, IInv, TypeOK
    <3>4. CASE Go(d)
      BY <1>2, <2>2, <3>4 DEF Go, Goto, Following, Steps, IInv, TypeOK
    <3>5. CASE DeleteFails(d) \/ ListFails(d) \/ KillCall(d)
      BY <1>2, <2>2, <3>5 DEF DeleteFails, ListFails, KillCall, Goto, IInv, TypeOK
    <3>6. CASE UNCHANGED at
      BY <1>2, <2>2, <3>6
    <3>. QED  BY <3>1, <3>2, <3>3, <3>4, <3>5, <3>6 DEF CallStep, DeleteStep, DeleteRow, DeletePending, DeletePrefix
  <2>4. CASE UNCHANGED at
    BY <1>2, <2>2, <2>4
  <2>5. JobStep \/ Sweep \/ UNCHANGED vars => UNCHANGED at
    BY DEF JobStep, Lease, Complete, Upload, Replace, ReleaseUpload, Expire, ClaimUpload, Settle, Age, Sweep,
           vars, callVars
  <2>. QED  BY <2>3, <2>4, <2>5 DEF Next
<1>. QED  BY <1>2 DEF Answered

LEMMA OverStays ==
  ASSUME RetentionAssumption, IInv, OverAndDone, [Next]_vars
  PROVE  OverAndDone'
BY GoneStaysEmpty, AnsweredStay DEF OverAndDone

(* A job whose row is gone has left no row, no prefix and no queued         *)
(* deletion, and a DELETE is answered "deleted" or "not found" only when it *)
(* is gone, whatever the sweep, other calls and failures do in between      *)
(* (delete_job_for_producer, expired_job_metadata).                         *)
THEOREM GoneForGood ==
  ASSUME RetentionAssumption
  PROVE  Spec => [](GoneOwnsNothing /\ Answered)
<1>1. OverAndDone => GoneOwnsNothing /\ Answered
  BY DEF OverAndDone
<1>. QED  BY <1>1, InitIInv, NextIInv, InitOver, OverStays, PTL DEF Spec

(* No upload comes in late, and no object outside the layout lies below a  *)
(* prefix; otherwise there are objects nobody has a record of.             *)
Punctual == "late" \notin Faults /\ \A o \in Outside : Below[o] = NoAttempt

(* The prefix of a running job's attempt is on record. *)
Recorded == \A a \in leased : AttemptOf[a] \in Profile /\ state[AttemptOf[a]] = "running" => a \in prefixes

Traced == Recorded /\ AttemptObjectsFound

LEMMA InitTraced ==
  ASSUME RetentionAssumption, Punctual, Init
  PROVE  Traced
BY DEF RetentionAssumption, Punctual, Init, Traced, Recorded, AttemptObjectsFound

LEMMA RecordedNext ==
  ASSUME RetentionAssumption, IInv, Recorded, [Next]_vars
  PROVE  Recorded'
<1>1. ASSUME NEW a \in prefixes, AttemptOf[a] \in Profile, state[AttemptOf[a]] = "running", Deletion PROVE a \in prefixes'
  BY <1>1 DEF Deletion, Remove, HalfRemove, Drain, HalfDrain, CleanPrefix, HalfCleanPrefix
<1>2. CASE Sweep \/ \E c \in Caller : CallStep(c)
  <2>1. UNCHANGED leased /\ \A j \in Job : state'[j] = "running" => state[j] = "running"
    BY <1>2, Outcomes DEF JobGoes, IInv, TypeOK
  <2>2. Deletion \/ UNCHANGED prefixes
    BY <1>2, Outcomes DEF dataVars
  <2>. QED  BY <1>1, <2>1, <2>2 DEF Recorded, IInv, TypeOK, RetentionAssumption
<1>3. CASE JobStep
  <2>1. \A j \in Job : state'[j] = "running" => state[j] = "running"
    BY <1>3 DEF JobStep, Lease, Complete, Upload, Replace, ReleaseUpload, Expire, ClaimUpload, Settle, Age,
                jobVars, IInv, TypeOK
  <2>2. \/ UNCHANGED <<leased, prefixes>>
        \/ \E a \in Attempt : leased' = leased \cup {a}
                              /\ prefixes' = IF AttemptOf[a] \in Profile THEN prefixes \cup {a} ELSE prefixes
    BY <1>3 DEF JobStep, Lease, Complete, Upload, Replace, ReleaseUpload, Expire, ClaimUpload, Settle, Age,
                jobVars, dataVars
  <2>. QED  BY <2>1, <2>2 DEF Recorded, IInv, TypeOK, RetentionAssumption
<1>4. CASE UNCHANGED vars
  BY <1>4 DEF vars, jobVars, dataVars, Recorded
<1>. QED  BY <1>2, <1>3, <1>4 DEF Next

LEMMA FoundNext ==
  ASSUME RetentionAssumption, Punctual, IInv, Traced, [Next]_vars
  PROVE  AttemptObjectsFound'
<1> SUFFICES ASSUME NEW o \in objects', Below[o] # NoAttempt, AttemptOf[Below[o]] \in Profile
             PROVE  Below[o] \in prefixes' \/ \E r \in rows' \cup pending' : Names[r] = o
  BY DEF AttemptObjectsFound
<1>1. o \in objects => Below[o] \in prefixes \/ \E r \in rows \cup pending : Names[r] = o
  BY DEF Traced, AttemptObjectsFound
<1>2. CASE Deletion
  <2>1. o \in objects /\ o \in Object
    BY <1>2, DeletionShrinks DEF IInv, TypeOK
  <2>2. ASSUME NEW r \in rows, Remove(r) \/ HalfRemove(r)
        PROVE  Below[o] \in prefixes' \/ \E q \in rows' \cup pending' : Names[q] = o
    BY <1>1, <2>1, <2>2 DEF Remove, HalfRemove, Freed, Referenced
  <2>3. ASSUME NEW r \in Row, Drain(r) \/ HalfDrain(r)
        PROVE  Below[o] \in prefixes' \/ \E q \in rows' \cup pending' : Names[q] = o
    BY <1>1, <2>1, <2>3 DEF Drain, HalfDrain, Freed, Referenced
  <2>4. ASSUME NEW a \in Attempt, CleanPrefix(a) \/ HalfCleanPrefix(a)
        PROVE  Below[o] \in prefixes' \/ \E q \in rows' \cup pending' : Names[q] = o
    <3>1. CASE CleanPrefix(a) /\ Below[o] = a
      BY <2>1, <3>1 DEF CleanPrefix, Freed, Referenced, KeysBelow
    <3>. QED  BY <1>1, <2>1, <2>4, <3>1 DEF CleanPrefix, HalfCleanPrefix
  <2>. QED  BY <1>2, <2>2, <2>3, <2>4 DEF Deletion
<1>3. CASE Sweep \/ \E c \in Caller : CallStep(c)
  BY <1>1, <1>2, <1>3, Outcomes DEF dataVars
<1>4. CASE JobStep
  <2>1. ASSUME NEW p \in Object, Upload(p) PROVE Below[o] \in prefixes'
                                              \/ \E r \in rows' \cup pending' : Names[r] = o
    BY <1>1, <2>1 DEF Upload, Traced, Recorded, Punctual, Can
  <2>2. ASSUME NEW r \in Row, Replace(r)
        PROVE  Below[o] \in prefixes' \/ \E q \in rows' \cup pending' : Names[q] = o
    <3>1. o \in objects /\ UNCHANGED prefixes /\ pending \subseteq pending'
      BY <2>2 DEF Replace
    <3>2. \A q \in rows \ rows' : Below[Names[q]] = NoAttempt
      BY <2>2 DEF Replace, Artifacts, IInv, Local, Owned, Stored, TypeOK
    <3>. QED  BY <1>1, <3>1, <3>2
  <2>3. ASSUME NEW a \in Attempt, Lease(a) \/ Complete(a)
        PROVE  o \in objects /\ prefixes \subseteq prefixes' /\ rows \subseteq rows' /\ UNCHANGED pending
    BY <2>3 DEF Lease, Complete
  <2>4. ASSUME NEW r \in Row, ReleaseUpload(r) \/ Expire(r) \/ \E j \in Job : ClaimUpload(r, j)
        PROVE  UNCHANGED <<objects, prefixes, rows, pending>>
    BY <2>4 DEF ReleaseUpload, ClaimUpload, Expire
  <2>5. ASSUME NEW j \in Job, Settle(j) \/ Age(j)
        PROVE  UNCHANGED <<objects, prefixes, rows, pending>>
    BY <2>5 DEF Settle, Age, dataVars
  <2>. QED  BY <1>1, <1>4, <2>1, <2>2, <2>3, <2>4, <2>5 DEF JobStep
<1>5. CASE UNCHANGED vars
  BY <1>1, <1>5 DEF vars, dataVars
<1>. QED  BY <1>3, <1>4, <1>5 DEF Next

LEMMA TracedNext ==
  ASSUME RetentionAssumption, Punctual, IInv, Traced, [Next]_vars
  PROVE  Traced'
<1>1. Recorded'
  BY RecordedNext DEF Traced
<1>. QED  BY <1>1, FoundNext DEF Traced

(* What the attempts of a profile job have stored stays below a recorded   *)
(* prefix or behind a row until somebody deletes it, unless a worker       *)
(* uploads after its job is over (RemoteAttemptPrefix, models.py:221-224). *)
THEOREM AttemptsAreTraced ==
  ASSUME RetentionAssumption, Punctual
  PROVE  Spec => []AttemptObjectsFound
<1>1. Traced => AttemptObjectsFound
  BY DEF Traced
<1>. QED  BY <1>1, InitIInv, NextIInv, InitTraced, TracedNext, PTL DEF Spec

=============================================================================
