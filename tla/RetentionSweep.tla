---------------------------- MODULE RetentionSweep ----------------------------
(***************************************************************************)
(* The bounded maintenance sweep: each run of "manage.py                   *)
(* prune_job_artifacts" takes one batch of every phase, in the order of    *)
(* the primary keys, and saves where it stopped.  A row that is refused or *)
(* fails keeps its place; the next sweep comes back to it.  Deletions      *)
(* themselves are those of module Retention, one step here.                *)
(***************************************************************************)
EXTENDS Integers, FiniteSets, Sequences

CONSTANTS
  Row,           \* primary keys, 1 .. n, of the rows a job can own, in every table
  Phase,         \* Phase[k]: the table of row k: "artifacts", "pending", "prefixes" or "staged"
  Job, OwnerOf,  \* jobs, 1 .. m, and OwnerOf[k]: the job that owns row k
  Refused,       \* rows whose key is no layout voxhelm generates
  Stuck,         \* rows whose object cannot be deleted for now
  BatchSize,
  MaxKills       \* bound on kills of the command

(* What an instance may give the constants. *)
SweepAssumption ==
  /\ Row \subseteq Nat /\ Job \subseteq Nat
  /\ Phase \in [Row -> {"artifacts", "pending", "prefixes", "staged"}]
  /\ OwnerOf \in [Row -> Job]
  /\ Refused \subseteq Row /\ Stuck \subseteq Row
  /\ BatchSize \in Nat \ {0} /\ MaxKills \in Nat

Phases == <<"artifacts", "pending", "prefixes", "staged", "jobs">>
PhaseSet == {Phases[i] : i \in 1 .. Len(Phases)}

(* A cursor: where each phase stopped, the start, or the end of this sweep. *)
Start == 0
Exhausted == -1

VARIABLES
  due,       \* rows that are past their retention
  jobs,      \* rows of jobs that are past theirs
  broken,    \* stuck rows whose store still fails
  saved,     \* RetentionProgress.cursor
  next,      \* next_cursor of the run under way
  phase,     \* the phase the run is at, 0 between runs
  batch,     \* the rows of the phase that are still to be tried
  deleted,   \* what this run has deleted
  predicted, \* what the dry run before it said, if nothing has happened since
  told,      \* whether there was one
  removed,   \* rows that have been deleted
  kills      \* how often the command was killed

vars == <<due, jobs, broken, saved, next, phase, batch, deleted, predicted, told, removed, kills>>
dueVars == <<due, jobs, broken, removed>>
tellVars == <<predicted, told, kills>>

TypeOK ==
  /\ due \subseteq Row /\ jobs \subseteq Job /\ broken \subseteq Stuck
  /\ saved \in [PhaseSet -> {Exhausted} \cup Nat]
  /\ next \in [PhaseSet -> {Exhausted} \cup Nat]
  /\ \E p \in PhaseSet : saved[p] # Exhausted
  /\ phase \in 0 .. Len(Phases)
  /\ phase = 0 => batch = {}
  /\ told \in BOOLEAN /\ removed \subseteq Row \ due /\ kills \in 0 .. MaxKills

Fresh == [p \in PhaseSet |-> Start]

Init ==
  /\ due = {} /\ jobs = Job
  /\ broken = Stuck
  /\ saved = Fresh /\ next = Fresh
  /\ phase = 0 /\ batch = {}
  /\ deleted = {} /\ predicted = {} /\ told = FALSE
  /\ removed = {} /\ kills = 0

-----------------------------------------------------------------------------
(* batch(query, phase): the first rows beyond the cursor, and the new cursor *)

Beyond(S, p) == IF saved[p] = Exhausted THEN {} ELSE {k \in S : k > saved[p]}

Selected(S, p) ==
  {k \in Beyond(S, p) : Cardinality({i \in Beyond(S, p) : i < k}) < BatchSize}

Highest(S) == CHOOSE k \in S : \A i \in S : i <= k

StopAt(S, p) ==
  IF Cardinality(Beyond(S, p)) > BatchSize THEN Highest(Selected(S, p)) ELSE Exhausted

In(p, rows) == {k \in rows : Phase[k] = p}

(* expired_job_metadata: terminal jobs past retention that own nothing any more. *)
Free(rows) == {j \in jobs : \A k \in rows : OwnerOf[k] # j}

-----------------------------------------------------------------------------
(* A row comes past its retention, in no order of the primary keys (they are UUIDs). *)
Expire(k) ==
  /\ k \notin due \cup removed
  /\ due' = due \cup {k}
  /\ predicted' = {} /\ told' = FALSE
  /\ UNCHANGED <<jobs, broken, saved, next, phase, batch, deleted, removed, kills>>

(* The object store that failed for this row works again. *)
Repair(k) ==
  /\ k \in broken
  /\ broken' = broken \ {k}
  /\ UNCHANGED <<due, jobs, removed, saved, next, phase, batch, deleted, tellVars>>

Present == Row \ removed

Said(rows, gone) == {<<"row", k>> : k \in rows} \cup {<<"job", j>> : j \in gone}

(* Variant with a fault, for comparison only: jobs that would lose their last row are forgotten. *)
ShallowDryRun ==
  LET lost == UNION {Selected(In(p, due), p) \ Refused : p \in PhaseSet \ {"jobs"}}
  IN  Said(lost, Selected(Free(Present), "jobs"))

(* prune_job_artifacts(dry_run=True), from the cursor that is saved. *)
DryRunResult ==
  LET lost == UNION {Selected(In(p, due), p) \ Refused : p \in PhaseSet \ {"jobs"}}
  IN  Said(lost, Selected(Free(Present \ lost), "jobs"))

DryRun ==
  /\ phase = 0 /\ ~told
  /\ predicted' = DryRunResult /\ told' = TRUE
  /\ UNCHANGED <<dueVars, saved, next, phase, batch, deleted, kills>>

Query(p) == IF p = "jobs" THEN Free(Present) ELSE In(p, due)

StartPhase(i) ==
  LET p == Phases[i] IN
  /\ batch' = Selected(Query(p), p)
  /\ next' = [next EXCEPT ![p] = StopAt(Query(p), p)]
  /\ phase' = i

StartRun ==
  /\ phase = 0
  /\ StartPhase(1)
  /\ deleted' = {}
  /\ UNCHANGED <<dueVars, saved, tellVars>>

NextPhase ==
  /\ phase \in 1 .. Len(Phases) - 1 /\ batch = {}
  /\ StartPhase(phase + 1)
  /\ UNCHANGED <<dueVars, saved, deleted, tellVars>>

(* The first that is left of the batch, in the order of the primary keys. *)
Trying(k) == k \in batch /\ (\A i \in batch : k <= i) /\ batch' = batch \ {k}

DeleteRow(k) ==
  /\ phase \in 1 .. Len(Phases) - 1 /\ Trying(k) /\ k \notin Refused \cup broken
  /\ due' = due \ {k} /\ removed' = removed \cup {k}
  /\ deleted' = deleted \cup {<<"row", k>>}
  /\ UNCHANGED <<jobs, broken, saved, next, phase, tellVars>>

(* Refused or failed: counted, logged, and on to the next. *)
SkipRow(k) ==
  /\ phase \in 1 .. Len(Phases) - 1 /\ Trying(k) /\ k \in Refused \cup broken
  /\ UNCHANGED <<dueVars, saved, next, phase, deleted, tellVars>>

DeleteJob(j) ==
  /\ phase = Len(Phases) /\ Trying(j)
  /\ jobs' = jobs \ {j}
  /\ deleted' = deleted \cup {<<"job", j>>}
  /\ UNCHANGED <<due, broken, removed, saved, next, phase, tellVars>>

(* The cursor is saved; when every phase is exhausted, the next run starts anew. *)
EndRun ==
  /\ phase = Len(Phases) /\ batch = {}
  /\ saved' = IF \A p \in PhaseSet : next[p] = Exhausted THEN Fresh ELSE next
  /\ phase' = 0
  /\ predicted' = {} /\ told' = FALSE
  /\ UNCHANGED <<dueVars, next, batch, deleted, kills>>

(* The command is killed: what it deleted is gone, its progress is not saved. *)
KillRun ==
  /\ phase # 0 /\ kills < MaxKills
  /\ kills' = kills + 1
  /\ phase' = 0 /\ batch' = {}
  /\ predicted' = {} /\ told' = FALSE
  /\ UNCHANGED <<dueVars, saved, next, deleted>>

Run ==
  \/ StartRun \/ NextPhase \/ EndRun
  \/ \E k \in Row : DeleteRow(k) \/ SkipRow(k)
  \/ \E j \in Job : DeleteJob(j)

Next ==
  \/ \E k \in Row : Expire(k) \/ Repair(k)
  \/ DryRun \/ Run \/ KillRun

Spec == Init /\ [][Next]_vars

-----------------------------------------------------------------------------
(* Properties *)

(* What has to go (MCEnds): a job that has lost its last row, by this sweep or the next. *)
Empty(j) == \A k \in Present : OwnerOf[k] # j

(* If nothing happens in between and no store fails, a run deletes just what    *)
(* the dry run before it listed: rows, and jobs that lose their last row        *)
(* (--dry-run, "List what would be deleted without deleting anything").         *)
DryRunPredicts ==
  phase = Len(Phases) /\ batch = {} /\ told => deleted = predicted

-----------------------------------------------------------------------------
(* What makes it inductive: once a dry run has been made, what it listed is what *)
(* the run has deleted and what is still ahead of it.                            *)

RowsIn(said) == {k \in Row : <<"row", k>> \in said}
JobsIn(said) == {j \in Job : <<"job", j>> \in said}

(* What phase i of the tables would take of the rows that are due. *)
Taken(i) == Selected(In(Phases[i], due), Phases[i]) \ Refused

RowsDone == IF phase = 0 THEN {} ELSE RowsIn(deleted)

RowsAhead ==
  (IF phase \in 1 .. 4 THEN batch \ Refused ELSE {})
    \cup UNION {Taken(i) : i \in {n \in 1 .. 4 : phase < n}}

RowsAsTold ==
  /\ RowsIn(predicted) = RowsDone \cup RowsAhead
  /\ RowsDone \subseteq removed

JobsAsTold ==
  IF phase = Len(Phases)
  THEN JobsIn(predicted) = JobsIn(deleted) \cup batch
  ELSE JobsIn(predicted) = Selected(Free(Present \ RowsIn(predicted)), "jobs")

BatchOfPhase ==
  /\ phase \in 1 .. 4 => batch \subseteq In(Phases[phase], Row)
  /\ phase = Len(Phases) => batch \subseteq Job

IInv ==
  /\ broken = {} /\ due \subseteq Row /\ jobs \subseteq Job
  /\ phase \in 0 .. Len(Phases)
  /\ BatchOfPhase
  /\ phase # 0 => deleted = Said(RowsIn(deleted), JobsIn(deleted))
  /\ phase \in 1 .. 4 => JobsIn(deleted) = {}
  /\ told => /\ predicted = Said(RowsIn(predicted), JobsIn(predicted))
             /\ RowsAsTold /\ JobsAsTold

=============================================================================
