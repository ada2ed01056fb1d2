---------------------------- MODULE RemoteLease ----------------------------
(***************************************************************************)
(* The lease protocol between the control plane and its remote workers     *)
(* (jobs/remote_workers.py, reconcile_remote_job_state in jobs/services.py, *)
(* the claim loop and lease heartbeater of jobs/remote_worker_cli.py).     *)
(*                                                                         *)
(* A worker reports itself, claims a job for a bounded time, extends the   *)
(* lease while it works, stores its objects under a prefix of its own and  *)
(* settles the job by a completion or a failure report.  Workers crash,    *)
(* requests and replies are lost, delayed or repeated, and a lease that    *)
(* runs out is handed to the next worker while the old one may still be at *)
(* work.  Every write of the control plane is one conditional SQL update   *)
(* or one SQLite transaction that takes the write lock first: one step.    *)
(*                                                                         *)
(* Times are kept relative to the present.  lease[j] is lease_expires_at   *)
(* less the present time; a request that sampled the clock n ticks ago     *)
(* compares a time x of this kind as x + n.  Jobs are numbered in the      *)
(* order of (priority, created_at).  A claim draws a fresh lease token and *)
(* counts the attempt in the same update, so attempt numbers stand for the *)
(* tokens.                                                                 *)
(***************************************************************************)
EXTENDS Integers, FiniteSets

CONSTANTS
  Job,           \* a set of numbers
  Worker, NoWorker,
  MaxAttempts,   \* max_attempts of every job
  Concurrency,   \* the smaller of a worker's concurrency and its max_jobs
  LeaseTicks,    \* VOXHELM_REMOTE_WORKER_LEASE_SECONDS
  StaleTicks,    \* bound: longest time from a clock sample to its transaction
  Balance,       \* VOXHELM_REMOTE_WORKER_BALANCE_ENABLED
  WindowTicks,   \* VOXHELM_REMOTE_WORKER_BALANCE_WINDOW_SECONDS
  FreshTicks,    \* VOXHELM_REMOTE_WORKER_BALANCE_PEER_FRESH_SECONDS
  Capable,       \* Capable[w]: the jobs w's capabilities cover
  Faults         \* what goes wrong, see Fault

(***************************************************************************)
(* crash:        a worker process dies and is started again.               *)
(* lost_reply:   the answer to a claim, a heartbeat or a completion never  *)
(*               arrives.                                                  *)
(* disable:      an operator disables or enables a worker.                 *)
(* refuse:       the policy for a job's stored URLs changes against it.    *)
(* server_crash: the control plane dies between two of its transactions.   *)
(***************************************************************************)
Fault == {"crash", "lost_reply", "disable", "refuse", "server_crash"}

ASSUME RemoteLeaseAssumption ==
  /\ Job \subseteq Nat /\ IsFiniteSet(Job)
  /\ NoWorker \notin Worker
  /\ MaxAttempts \in Nat \ {0}
  /\ Concurrency \in Nat \ {0}
  /\ LeaseTicks \in Nat /\ StaleTicks \in Nat /\ StaleTicks < LeaseTicks
  /\ Balance \in BOOLEAN
  /\ WindowTicks \in Nat /\ FreshTicks \in Nat
  /\ Capable \in [Worker -> SUBSET Job]
  /\ Faults \subseteq Fault

VARIABLES
  \* job rows
  state, assigned, token, attempts,
  lease,      \* lease_expires_at; Forgotten unless the job is running
  beaten,     \* age of last_worker_heartbeat_at; Forgotten likewise
  started,    \* age of started_at, kept for the balance
  result,     \* the attempt whose manifest and result are committed, or 0
  upload,     \* the staged upload the job was submitted with
  refused,    \* jobs whose stored URLs would be refused if checked now
  \* worker rows and the artifact store
  enabled,
  seen,       \* age of last_seen_at, kept for the balance
  objects,    \* who last wrote under each artifact prefix
  \* worker processes: what each is doing, for which attempt, whether told it is lost
  phase, onJob, onToken, lost,
  \* requests being served
  scan,       \* scan[w]: candidates of w's claim, with the attempts they showed
  scanAge,    \* scanAge[w]: age of the clock sample of w's claim
  beats,      \* lease heartbeats between their clock sample and their update
  mail        \* completions and failure reports sent so far

rows == <<state, assigned, token, attempts, lease, beaten, started, result, upload>>
workerRows == <<enabled, seen>>
processes == <<phase, onJob, onToken, lost>>
requests == <<scan, scanAge, beats, mail>>
vars == <<rows, refused, workerRows, objects, processes, requests>>

-----------------------------------------------------------------------------

Attempt == 1 .. MaxAttempts
NoJob == -1
Forgotten == LeaseTicks + 1
OldestLease == -(StaleTicks + 1)
Never(bound) == bound + StaleTicks + 1

Open == {"queued", "running"}
AtWork == {"working", "uploading", "stored", "completing"}

Beat == [worker : Worker, job : Job, token : Attempt, age : 0 .. StaleTicks]
Mail == [kind : {"complete", "retry", "give_up"}, worker : Worker, job : Job, token : Attempt]

TypeOK ==
  /\ state \in [Job -> Open \cup {"succeeded", "failed"}]
  /\ assigned \in [Job -> Worker \cup {NoWorker}]
  /\ token \in [Job -> Attempt \cup {0}]
  /\ attempts \in [Job -> Attempt \cup {0}]
  /\ lease \in [Job -> OldestLease .. Forgotten]
  /\ beaten \in [Job -> 0 .. Forgotten + StaleTicks]
  /\ started \in [Job -> 0 .. Never(WindowTicks)]
  /\ result \in [Job -> Attempt \cup {0}]
  /\ upload \in [Job -> {"claimed", "released", "deleted"}]
  /\ refused \subseteq Job
  /\ enabled \subseteq Worker
  /\ seen \in [Worker -> 0 .. Never(FreshTicks)]
  /\ objects \in [Job \X Attempt -> Worker \cup {NoWorker}]
  /\ phase \in [Worker -> AtWork \cup {"idle", "reported", "claiming"}]
  /\ onJob \in [Worker -> Job \cup {NoJob}]
  /\ onToken \in [Worker -> Attempt \cup {0}]
  /\ lost \in [Worker -> BOOLEAN]
  /\ scan \in [Worker -> SUBSET (Job \X (Attempt \cup {0}))]
  /\ scanAge \in [Worker -> 0 .. StaleTicks]
  /\ beats \subseteq Beat
  /\ mail \subseteq Mail

(* The jobs are submitted, with a staged upload each. *)
Init ==
  /\ state = [j \in Job |-> "queued"]
  /\ assigned = [j \in Job |-> NoWorker]
  /\ token = [j \in Job |-> 0]
  /\ attempts = [j \in Job |-> 0]
  /\ lease = [j \in Job |-> Forgotten]
  /\ beaten = [j \in Job |-> Forgotten]
  /\ started = [j \in Job |-> Never(WindowTicks)]
  /\ result = [j \in Job |-> 0]
  /\ upload = [j \in Job |-> "claimed"]
  /\ refused = {}
  /\ enabled = Worker
  /\ seen = [w \in Worker |-> Never(FreshTicks)]
  /\ objects = [p \in Job \X Attempt |-> NoWorker]
  /\ phase = [w \in Worker |-> "idle"]
  /\ onJob = [w \in Worker |-> NoJob]
  /\ onToken = [w \in Worker |-> 0]
  /\ lost = [w \in Worker |-> FALSE]
  /\ scan = [w \in Worker |-> {}]
  /\ scanAge = [w \in Worker |-> 0]
  /\ beats = {}
  /\ mail = {}

-----------------------------------------------------------------------------
(* Job queries, for a clock sampled n ticks ago.                           *)

LeaseLive(j, n) == lease[j] + n > 0
LeaseLapsed(j, n) == lease[j] + n < 0

(* Variant with a fault, for comparison only: leases in force are claimed too. *)
ClaimableIfOpen(j, n) ==
  /\ attempts[j] < MaxAttempts
  /\ state[j] \in Open

Claimable(j, n) ==
  /\ attempts[j] < MaxAttempts
  /\ \/ state[j] = "queued"
     \/ state[j] = "running" /\ LeaseLapsed(j, n)

(* Variant with a fault, for comparison only: settled jobs count as owned. *)
OwnedOnce(j, w, k) == assigned[j] = w /\ token[j] = k

Owned(j, w, k) ==
  /\ state[j] = "running"
  /\ assigned[j] = w
  /\ token[j] = k

ActiveLease(j, w, k) == Owned(j, w, k) /\ LeaseLive(j, 0)

SameCompletion(j, w, k) ==
  /\ state[j] = "succeeded"
  /\ assigned[j] = w
  /\ token[j] = k

LiveLeases(w, n) ==
  {j \in Job : state[j] = "running" /\ assigned[j] = w /\ LeaseLive(j, n)}

RecentClaims(w, n) ==
  {j \in Job : assigned[j] = w /\ started[j] - n <= WindowTicks}

(* w yields to a fresh peer with spare capacity and fewer recent claims. *)
Defers(w, n) ==
  /\ Balance
  /\ \E p \in enabled \ {w} :
       /\ seen[p] - n <= FreshTicks
       /\ Cardinality(LiveLeases(p, n)) < Concurrency
       /\ Cardinality(RecentClaims(p, n)) < Cardinality(RecentClaims(w, n))

(* Variant with a fault, for comparison only: all attempts share a prefix. *)
JobPrefix(j, k) == <<j, 1>>

Prefix(j, k) == <<j, k>>

-----------------------------------------------------------------------------
(* Changes to the rows.                                                    *)

(* Variant with a fault, for comparison only: the upload is given back too early. *)
RequeueAndRelease(j) ==
  /\ state' = [state EXCEPT ![j] = "queued"]
  /\ assigned' = [assigned EXCEPT ![j] = NoWorker]
  /\ token' = [token EXCEPT ![j] = 0]
  /\ lease' = [lease EXCEPT ![j] = Forgotten]
  /\ beaten' = [beaten EXCEPT ![j] = Forgotten]
  /\ upload' = [upload EXCEPT ![j] = "released"]
  /\ UNCHANGED <<attempts, started, result>>

(* Variant with a fault, for comparison only: the attempt is not counted. *)
RequeueUncounted(j) ==
  /\ state' = [state EXCEPT ![j] = "queued"]
  /\ assigned' = [assigned EXCEPT ![j] = NoWorker]
  /\ token' = [token EXCEPT ![j] = 0]
  /\ attempts' = [attempts EXCEPT ![j] = @ - 1]
  /\ lease' = [lease EXCEPT ![j] = Forgotten]
  /\ beaten' = [beaten EXCEPT ![j] = Forgotten]
  /\ UNCHANGED <<started, result, upload>>

(* A running job goes back to the queue with its lease cleared. *)
Requeue(j) ==
  /\ state' = [state EXCEPT ![j] = "queued"]
  /\ assigned' = [assigned EXCEPT ![j] = NoWorker]
  /\ token' = [token EXCEPT ![j] = 0]
  /\ lease' = [lease EXCEPT ![j] = Forgotten]
  /\ beaten' = [beaten EXCEPT ![j] = Forgotten]
  /\ UNCHANGED <<attempts, started, result, upload>>

Without(f, S) == [j \in Job |-> IF j \in S THEN Forgotten ELSE f[j]]

(* The jobs in S fail, token and worker stay on record; their uploads are  *)
(* released, except those in held.                                         *)
FailJobs(S, held) ==
  /\ state' = [j \in Job |-> IF j \in S THEN "failed" ELSE state[j]]
  /\ lease' = Without(lease, S)
  /\ beaten' = Without(beaten, S)
  /\ upload' = [j \in Job |-> IF j \in S \ held THEN "released" ELSE upload[j]]
  /\ UNCHANGED <<assigned, token, attempts, started, result>>

(* Where the release follows in a transaction of its own, a crash may      *)
(* leave it out.                                                           *)
Held(S) == IF "server_crash" \in Faults THEN SUBSET S ELSE {{}}

-----------------------------------------------------------------------------
(* Claiming.                                                               *)

(* record_worker_heartbeat *)
Report(w) ==
  /\ phase[w] = "idle"
  /\ w \in enabled
  /\ seen' = [seen EXCEPT ![w] = IF Balance THEN 0 ELSE @]
  /\ phase' = [phase EXCEPT ![w] = "reported"]
  /\ UNCHANGED <<rows, refused, enabled, objects, onJob, onToken, lost, requests>>

(* Variant with a fault, for comparison only: every lapsed lease counts as the last one. *)
ExhaustedAtOnce(j) == state[j] = "running" /\ LeaseLapsed(j, 0)

(* Variant with a fault, for comparison only: one attempt too late. *)
ExhaustedLate(j) ==
  state[j] = "running" /\ LeaseLapsed(j, 0) /\ attempts[j] > MaxAttempts

Exhausted(j) ==
  state[j] = "running" /\ LeaseLapsed(j, 0) /\ attempts[j] >= MaxAttempts

Rejected ==
  {j \in refused : Claimable(j, 0) /\ (state[j] = "queued" => assigned[j] = NoWorker)}

Candidates(w) ==
  {<<j, attempts[j]>> : j \in {i \in Capable[w] \ refused : Claimable(i, 0)}}

(* The part of claim_remote_work before its transaction: leases of last    *)
(* attempts that ran out are settled, jobs whose URLs are refused now fail, *)
(* and the jobs w could run are listed.                                    *)
StartClaim(w) ==
  /\ phase[w] = "reported"
  /\ w \in enabled
  /\ LET failing == {j \in Job : Exhausted(j)} \cup Rejected
     IN  \E held \in Held(failing) : FailJobs(failing, held)
  /\ scan' = [scan EXCEPT ![w] = Candidates(w)]
  /\ phase' = [phase EXCEPT ![w] = IF Candidates(w) = {} THEN "idle" ELSE "claiming"]
  /\ UNCHANGED <<refused, workerRows, objects, onJob, onToken, lost, scanAge, beats, mail>>

(* A disabled worker is turned away when its claim starts. *)
TurnAway(w) ==
  /\ phase[w] = "reported"
  /\ w \notin enabled
  /\ phase' = [phase EXCEPT ![w] = "idle"]
  /\ UNCHANGED <<rows, refused, workerRows, objects, onJob, onToken, lost, requests>>

(* Variant with a fault, for comparison only: the update is unconditional. *)
WinnableWhenListed(w) == {j \in Job : \E k \in 0 .. MaxAttempts : <<j, k>> \in scan[w]}

Winnable(w) ==
  {j \in Job : <<j, attempts[j]>> \in scan[w] /\ Claimable(j, scanAge[w])}

(* Variant with a fault, for comparison only: capacity is off by one. *)
MayClaimOneMore(w) ==
  /\ w \in enabled
  /\ Cardinality(LiveLeases(w, scanAge[w])) <= Concurrency
  /\ ~Defers(w, scanAge[w])

MayClaim(w) ==
  /\ w \in enabled
  /\ Cardinality(LiveLeases(w, scanAge[w])) < Concurrency
  /\ ~Defers(w, scanAge[w])

EndScan(w) ==
  /\ scan' = [scan EXCEPT ![w] = {}]
  /\ scanAge' = [scanAge EXCEPT ![w] = 0]

(* The first candidate nobody claimed or settled meanwhile is leased to w. *)
Claim(w) ==
  /\ phase[w] = "claiming"
  /\ MayClaim(w)
  /\ \E j \in Winnable(w) :
       /\ \A i \in Winnable(w) : j <= i
       /\ state' = [state EXCEPT ![j] = "running"]
       /\ assigned' = [assigned EXCEPT ![j] = w]
       /\ token' = [token EXCEPT ![j] = attempts[j] + 1]
       /\ attempts' = [attempts EXCEPT ![j] = @ + 1]
       /\ lease' = [lease EXCEPT ![j] = LeaseTicks - scanAge[w]]
       /\ beaten' = [beaten EXCEPT ![j] = scanAge[w]]
       /\ started' = [started EXCEPT ![j] =
                        IF Balance /\ attempts[j] = 0 THEN scanAge[w] ELSE @]
       /\ \/ /\ phase' = [phase EXCEPT ![w] = "working"]
             /\ onJob' = [onJob EXCEPT ![w] = j]
             /\ onToken' = [onToken EXCEPT ![w] = attempts[j] + 1]
          \/ /\ "lost_reply" \in Faults
             /\ phase' = [phase EXCEPT ![w] = "idle"]
             /\ UNCHANGED <<onJob, onToken>>
  /\ EndScan(w)
  /\ UNCHANGED <<result, upload, refused, workerRows, objects, lost, beats, mail>>

(* w is disabled, at its capacity, or yields to a peer: no work. *)
ClaimNothing(w) ==
  /\ phase[w] = "claiming"
  /\ ~MayClaim(w)
  /\ phase' = [phase EXCEPT ![w] = "idle"]
  /\ EndScan(w)
  /\ UNCHANGED <<rows, refused, workerRows, objects, onJob, onToken, lost, beats, mail>>

(* Every candidate was lost to a race: the loop starts over. *)
ClaimAgain(w) ==
  /\ phase[w] = "claiming"
  /\ MayClaim(w)
  /\ Winnable(w) = {}
  /\ phase' = [phase EXCEPT ![w] = "reported"]
  /\ EndScan(w)
  /\ UNCHANGED <<rows, refused, workerRows, objects, onJob, onToken, lost, beats, mail>>

-----------------------------------------------------------------------------
(* Lease heartbeats.  A worker sends one at a time, but gives up waiting   *)
(* for an answer that does not come, while the control plane may still     *)
(* serve the request.                                                      *)

StartBeat(w) ==
  /\ phase[w] \in AtWork
  /\ ~lost[w]
  /\ \A b \in beats : b.worker = w => "lost_reply" \in Faults
  /\ beats' = beats \cup {[worker |-> w, job |-> onJob[w], token |-> onToken[w], age |-> 0]}
  /\ UNCHANGED <<rows, refused, workerRows, objects, processes, scan, scanAge, mail>>

(* Variant with a fault, for comparison only: a delayed beat is published too. *)
PublishesAny(b) ==
  /\ Owned(b.job, b.worker, b.token)
  /\ LeaseLive(b.job, b.age)

Publishes(b) ==
  /\ Owned(b.job, b.worker, b.token)
  /\ LeaseLive(b.job, b.age)
  /\ b.age < beaten[b.job]

(* The update takes the write lock after the clock was sampled, and only   *)
(* the sample is compared with the lease; the reply, if it is still waited *)
(* for, looks at the clock again.                                          *)
EndBeat(b) ==
  /\ b \in beats
  /\ beats' = beats \ {b}
  /\ IF Publishes(b)
     THEN /\ lease' = [lease EXCEPT ![b.job] =
                         IF @ < LeaseTicks - b.age THEN LeaseTicks - b.age ELSE @]
          /\ beaten' = [beaten EXCEPT ![b.job] = b.age]
     ELSE UNCHANGED <<lease, beaten>>
  /\ \/ lost' = [lost EXCEPT ![b.worker] =
            @ \/ /\ phase[b.worker] \in AtWork
                 /\ onJob[b.worker] = b.job /\ onToken[b.worker] = b.token
                 /\ ~(Owned(b.job, b.worker, b.token) /\ lease'[b.job] > 0)]
     \/ "lost_reply" \in Faults /\ UNCHANGED lost
  /\ UNCHANGED <<state, assigned, token, attempts, started, result, upload,
                 refused, workerRows, objects, phase, onJob, onToken, scan, scanAge, mail>>

-----------------------------------------------------------------------------
(* The worker at work.                                                     *)

GoIdle(w) ==
  /\ phase' = [phase EXCEPT ![w] = "idle"]
  /\ onJob' = [onJob EXCEPT ![w] = NoJob]
  /\ onToken' = [onToken EXCEPT ![w] = 0]
  /\ lost' = [lost EXCEPT ![w] = FALSE]

Sent(w, kind) == [kind |-> kind, worker |-> w, job |-> onJob[w], token |-> onToken[w]]

(* Ownership is checked before an object is put, not while it is put. *)
StartUpload(w) ==
  /\ phase[w] = "working"
  /\ ~lost[w]
  /\ phase' = [phase EXCEPT ![w] = "uploading"]
  /\ UNCHANGED <<rows, refused, workerRows, objects, onJob, onToken, lost, requests>>

EndUpload(w) ==
  /\ phase[w] = "uploading"
  /\ objects' = [objects EXCEPT ![Prefix(onJob[w], onToken[w])] = w]
  /\ phase' = [phase EXCEPT ![w] = "stored"]
  /\ UNCHANGED <<rows, refused, workerRows, onJob, onToken, lost, requests>>

SendComplete(w) ==
  /\ phase[w] = "stored"
  /\ ~lost[w]
  /\ mail' = mail \cup {Sent(w, "complete")}
  /\ phase' = [phase EXCEPT ![w] = "completing"]
  /\ UNCHANGED <<rows, refused, workerRows, objects, onJob, onToken, lost, scan, scanAge, beats>>

(* The work raises: a failure report, retryable or not. *)
SendFail(w) ==
  /\ phase[w] \in {"working", "uploading", "stored"}
  /\ ~lost[w]
  /\ \E kind \in {"retry", "give_up"} : mail' = mail \cup {Sent(w, kind)}
  /\ GoIdle(w)
  /\ UNCHANGED <<rows, refused, workerRows, objects, scan, scanAge, beats>>

(* The completion is not answered in time and counts as a retryable error. *)
TimeOut(w) ==
  /\ phase[w] = "completing"
  /\ mail' = IF lost[w] THEN mail ELSE mail \cup {Sent(w, "retry")}
  /\ GoIdle(w)
  /\ UNCHANGED <<rows, refused, workerRows, objects, scan, scanAge, beats>>

(* A worker told that its lease is lost stops without a report. *)
Abandon(w) ==
  /\ phase[w] \in {"working", "stored"}
  /\ lost[w]
  /\ GoIdle(w)
  /\ UNCHANGED <<rows, refused, workerRows, objects, requests>>

CrashWorker(w) ==
  /\ "crash" \in Faults
  /\ phase[w] \in AtWork
  /\ GoIdle(w)
  /\ UNCHANGED <<rows, refused, workerRows, objects, requests>>

-----------------------------------------------------------------------------
(* Settling.  A message stays in mail: it may be served late, or again.    *)

Awaited(m) ==
  /\ phase[m.worker] = "completing"
  /\ onJob[m.worker] = m.job /\ onToken[m.worker] = m.token

(* The worker reads the answer to its completion, or never gets it. *)
Answer(m) ==
  \/ Awaited(m) /\ GoIdle(m.worker)
  \/ (Awaited(m) => "lost_reply" \in Faults) /\ UNCHANGED processes

(* complete_remote_work for the lease in force; the staged upload goes     *)
(* after the commit, if the store lets it.                                 *)
Complete(m) ==
  /\ m \in mail /\ m.kind = "complete"
  /\ ActiveLease(m.job, m.worker, m.token)
  /\ objects[Prefix(m.job, m.token)] # NoWorker
  /\ state' = [state EXCEPT ![m.job] = "succeeded"]
  /\ result' = [result EXCEPT ![m.job] = m.token]
  /\ lease' = [lease EXCEPT ![m.job] = Forgotten]
  /\ beaten' = [beaten EXCEPT ![m.job] = Forgotten]
  /\ upload' \in {upload, [upload EXCEPT ![m.job] = "deleted"]}
  /\ Answer(m)
  /\ UNCHANGED <<assigned, token, attempts, started, refused, workerRows, objects, requests>>

(* The same completion again: the recorded result, and another try at the  *)
(* upload.                                                                 *)
CompleteAgain(m) ==
  /\ m \in mail /\ m.kind = "complete"
  /\ SameCompletion(m.job, m.worker, m.token)
  /\ upload' \in {upload, [upload EXCEPT ![m.job] = "deleted"]}
  /\ Answer(m)
  /\ UNCHANGED <<state, assigned, token, attempts, lease, beaten, started, result,
                 refused, workerRows, objects, requests>>

(* 409: a worker not yet told that its lease is lost reports a failure. *)
RefuseComplete(m) ==
  /\ m \in mail /\ m.kind = "complete"
  /\ ~ActiveLease(m.job, m.worker, m.token)
  /\ ~SameCompletion(m.job, m.worker, m.token)
  /\ Awaited(m)
  /\ mail' = IF lost[m.worker] THEN mail ELSE mail \cup {Sent(m.worker, "give_up")}
  /\ GoIdle(m.worker)
  /\ UNCHANGED <<rows, refused, workerRows, objects, scan, scanAge, beats>>

(* fail_remote_work *)
Fail(m) ==
  /\ m \in mail /\ m.kind \in {"retry", "give_up"}
  /\ ActiveLease(m.job, m.worker, m.token)
  /\ IF m.kind = "retry" /\ attempts[m.job] < MaxAttempts
     THEN Requeue(m.job)
     ELSE FailJobs({m.job}, {})
  /\ UNCHANGED <<refused, workerRows, objects, processes, requests>>

(* reconcile_remote_job_state, when a producer asks for the job or submits *)
(* it again.                                                               *)
Reconcile(j) ==
  /\ state[j] = "running"
  /\ LeaseLapsed(j, 0)
  /\ IF attempts[j] < MaxAttempts
     THEN Requeue(j)
     ELSE \E held \in Held({j}) : FailJobs({j}, held)
  /\ UNCHANGED <<refused, workerRows, objects, processes, requests>>

-----------------------------------------------------------------------------
(* The environment.                                                        *)

SetEnabled(w) ==
  /\ "disable" \in Faults
  /\ enabled' = IF w \in enabled THEN enabled \ {w} ELSE enabled \cup {w}
  /\ UNCHANGED <<rows, refused, seen, objects, processes, requests>>

RefuseUrl(j) ==
  /\ "refuse" \in Faults
  /\ refused' = refused \cup {j}
  /\ UNCHANGED <<rows, workerRows, objects, processes, requests>>

Older(age, bound) == IF age < bound THEN age + 1 ELSE bound

(* Time passes for leases in force and for requests being served. *)
Tick ==
  /\ \A w \in Worker : phase[w] = "claiming" => scanAge[w] < StaleTicks
  /\ \A b \in beats : b.age < StaleTicks
  /\ lease' = [j \in Job |->
       IF state[j] = "running" /\ lease[j] > OldestLease THEN lease[j] - 1 ELSE lease[j]]
  /\ beaten' = [j \in Job |->
       IF state[j] = "running" THEN Older(beaten[j], Forgotten + StaleTicks) ELSE beaten[j]]
  /\ started' = [j \in Job |-> Older(started[j], Never(WindowTicks))]
  /\ seen' = [w \in Worker |-> Older(seen[w], Never(FreshTicks))]
  /\ scanAge' = [w \in Worker |-> IF phase[w] = "claiming" THEN scanAge[w] + 1 ELSE 0]
  /\ beats' = {[b EXCEPT !.age = @ + 1] : b \in beats}
  /\ UNCHANGED <<state, assigned, token, attempts, result, upload, refused, enabled, objects,
                 processes, scan, mail>>

Next ==
  \/ \E w \in Worker :
       \/ Report(w) \/ StartClaim(w) \/ TurnAway(w)
       \/ Claim(w) \/ ClaimNothing(w) \/ ClaimAgain(w)
       \/ StartBeat(w)
       \/ StartUpload(w) \/ EndUpload(w) \/ SendComplete(w) \/ SendFail(w)
       \/ TimeOut(w) \/ Abandon(w) \/ CrashWorker(w)
       \/ SetEnabled(w)
  \/ \E b \in beats : EndBeat(b)
  \/ \E m \in mail : Complete(m) \/ CompleteAgain(m) \/ RefuseComplete(m) \/ Fail(m)
  \/ \E j \in Job : Reconcile(j) \/ RefuseUrl(j)
  \/ Tick

Spec == Init /\ [][Next]_vars

(***************************************************************************)
(* Time passes; a worker process keeps polling, ends its work and its wait *)
(* for an answer, and the control plane ends the requests it serves.  No   *)
(* message is assumed to be served, no worker to survive.                  *)
(***************************************************************************)
Fairness ==
  /\ SF_vars(Tick)
  /\ \A w \in Worker :
       /\ WF_vars(Report(w))
       /\ WF_vars(StartClaim(w) \/ TurnAway(w))
       /\ WF_vars(Claim(w) \/ ClaimNothing(w) \/ ClaimAgain(w))
       /\ WF_vars(StartUpload(w) \/ Abandon(w))
       /\ WF_vars(EndUpload(w))
       /\ WF_vars(SendComplete(w) \/ Abandon(w))
       /\ WF_vars(TimeOut(w))
  /\ \A b \in Beat : WF_vars(EndBeat(b))

FairSpec == Spec /\ Fairness

-----------------------------------------------------------------------------
(* Properties.                                                             *)

(* A settled job stays as it is: no late, repeated or reordered completion, *)
(* failure report, claim or reconciliation changes its state, its result   *)
(* or its owner (README.md "Worker completion accepts only the currently   *)
(* assigned worker and lease token").                                      *)
SettledStays ==
  [][\A j \in Job : state[j] \notin Open =>
       /\ state'[j] = state[j] /\ result'[j] = result[j]
       /\ assigned'[j] = assigned[j] /\ token'[j] = token[j]]_vars

(* While a lease is in force only its own owner ends it: no other worker,  *)
(* no owner of an earlier attempt and no reconciliation.                   *)
LiveLeaseKept ==
  [][\A j \in Job :
       /\ state[j] = "running" /\ LeaseLive(j, 0)
       /\ state'[j] # "running" \/ token'[j] # token[j]
       => \E m \in mail : m.job = j /\ m.worker = assigned[j] /\ m.token = token[j]]_vars

(* The objects a finished job's manifest names are those its winner stored: *)
(* no worker of another attempt has written over them.                     *)
WinnerObjectsIntact ==
  \A j \in Job : state[j] = "succeeded" =>
    objects[Prefix(j, result[j])] = assigned[j]

(* The staged upload outlives every attempt that may still read it, and is *)
(* given back when the job fails, unless the control plane dies in between. *)
UploadKept ==
  \A j \in Job :
    /\ state[j] \in Open => upload[j] = "claimed"
    /\ state[j] = "failed" /\ "server_crash" \notin Faults => upload[j] = "released"

(* A job fails only after its last attempt, by its own worker's final      *)
(* report, or because its URLs are refused: losing leases, workers and     *)
(* replies alone costs attempts and never the job.                         *)
FailedForAReason ==
  \A j \in Job : state[j] = "failed" =>
    \/ attempts[j] = MaxAttempts
    \/ j \in refused
    \/ \E m \in mail : m.kind = "give_up" /\ m.job = j /\ m.token = token[j]

(* A lease runs from the newest heartbeat published for it: a beat served   *)
(* late neither shortens the lease nor puts back older progress (README.md  *)
(* "delayed or equal-time beats return the current lease without replacing  *)
(* newer progress, and extensions never shorten a stored expiry").          *)
LeaseFollowsNewestBeat ==
  \A j \in Job : state[j] = "running" => lease[j] = LeaseTicks - beaten[j]

(* A worker never holds more leases in force than it has room for, as long *)
(* as no heartbeat waits for the write lock past the end of its lease.     *)
LeasesWithinCapacity ==
  \A w \in Worker : Cardinality(LiveLeases(w, 0)) <= Concurrency

(* README.md "Rotated or expired leases still fail": a heartbeat never     *)
(* extends a lease that has run out.                                       *)
ExpiredLeasesFail ==
  [][\A j \in Job :
       state[j] = "running" /\ ~LeaseLive(j, 0) /\ token'[j] = token[j]
       => lease'[j] <= lease[j] \/ state'[j] # "running"]_vars

(* Every submitted job is settled in the end, whatever is lost and however *)
(* often workers die, if a worker that can run it keeps polling.           *)
EventuallySettled ==
  \A j \in Job : (\E w \in Worker : j \in Capable[w]) => <>(state[j] \notin Open)

Lifecycle == INSTANCE JobLifecycle

(* Leases, requests and crashes amount to attempts of jobs, each started,  *)
(* given back or ended as JobLifecycle allows.                             *)
ImplementsLifecycle == Lifecycle!Spec

=============================================================================
