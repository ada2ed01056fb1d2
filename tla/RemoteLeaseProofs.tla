------------------------- MODULE RemoteLeaseProofs -------------------------
(***************************************************************************)
(* What the lease protocol of RemoteLease guarantees for every number of   *)
(* jobs, workers and attempts and every length of lease and delay.         *)
(***************************************************************************)
EXTENDS RemoteLease, FiniteSetTheorems, TLAPS

(* A process at work knows for which attempt of which job; the job's lease *)
(* is that of its latest attempt.                                          *)
WorkIsKnown ==
  \A w \in Worker : phase[w] \in AtWork => onJob[w] \in Job /\ onToken[w] \in Attempt

LatestAttempt ==
  \A j \in Job : state[j] = "running" => token[j] = attempts[j]

IInv == TypeOK /\ WorkIsKnown /\ LatestAttempt

-----------------------------------------------------------------------------
(* Type correctness.                                                       *)

LEMMA Constants ==
  /\ Job \subseteq Int /\ MaxAttempts \in Nat /\ MaxAttempts >= 1
  /\ LeaseTicks \in Nat /\ StaleTicks \in Nat /\ StaleTicks < LeaseTicks
  /\ WindowTicks \in Nat /\ FreshTicks \in Nat
  /\ Forgotten = LeaseTicks + 1 /\ OldestLease = -(StaleTicks + 1)
  /\ Forgotten \in Int /\ OldestLease \in Int
  BY RemoteLeaseAssumption DEF Forgotten, OldestLease

RowsOK ==
  /\ state \in [Job -> Open \cup {"succeeded", "failed"}]
  /\ assigned \in [Job -> Worker \cup {NoWorker}]
  /\ token \in [Job -> Attempt \cup {0}]
  /\ attempts \in [Job -> Attempt \cup {0}]
  /\ lease \in [Job -> OldestLease .. Forgotten]
  /\ beaten \in [Job -> 0 .. Forgotten + StaleTicks]
  /\ started \in [Job -> 0 .. Never(WindowTicks)]
  /\ result \in [Job -> Attempt \cup {0}]
  /\ upload \in [Job -> {"claimed", "released", "deleted"}]

ProcessesOK ==
  /\ phase \in [Worker -> AtWork \cup {"idle", "reported", "claiming"}]
  /\ onJob \in [Worker -> Job \cup {NoJob}]
  /\ onToken \in [Worker -> Attempt \cup {0}]
  /\ lost \in [Worker -> BOOLEAN]
  /\ WorkIsKnown

RequestsOK ==
  /\ scan \in [Worker -> SUBSET (Job \X (Attempt \cup {0}))]
  /\ scanAge \in [Worker -> 0 .. StaleTicks]
  /\ beats \subseteq Beat
  /\ mail \subseteq Mail

OthersOK ==
  /\ refused \subseteq Job
  /\ enabled \subseteq Worker
  /\ seen \in [Worker -> 0 .. Never(FreshTicks)]
  /\ objects \in [Job \X Attempt -> Worker \cup {NoWorker}]

LEMMA Parts ==
  IInv <=> RowsOK /\ ProcessesOK /\ RequestsOK /\ OthersOK /\ LatestAttempt
  BY DEF IInv, TypeOK, RowsOK, ProcessesOK, RequestsOK, OthersOK

LEMMA PartsNext ==
  IInv' <=> RowsOK' /\ ProcessesOK' /\ RequestsOK' /\ OthersOK' /\ LatestAttempt'
  BY DEF IInv, TypeOK, RowsOK, ProcessesOK, RequestsOK, OthersOK

LEMMA RowsKept ==
  ASSUME RowsOK, LatestAttempt, UNCHANGED rows
  PROVE  RowsOK' /\ LatestAttempt'
  BY DEF RowsOK, LatestAttempt, rows, Never, Attempt, Open, Forgotten, OldestLease

LEMMA ProcessesKept ==
  ASSUME ProcessesOK, UNCHANGED processes
  PROVE  ProcessesOK'
  BY DEF ProcessesOK, WorkIsKnown, processes

LEMMA RequestsKept ==
  ASSUME RequestsOK, UNCHANGED requests
  PROVE  RequestsOK'
  BY DEF RequestsOK, requests

LEMMA OthersKept ==
  ASSUME OthersOK, UNCHANGED <<refused, workerRows, objects>>
  PROVE  OthersOK'
  BY DEF OthersOK, workerRows

LEMMA RequeueOK ==
  ASSUME RowsOK, LatestAttempt, NEW j \in Job, Requeue(j)
  PROVE  RowsOK' /\ LatestAttempt'
  BY Constants DEF RowsOK, LatestAttempt, Requeue, Open, Attempt, Never

LEMMA FailJobsOK ==
  ASSUME RowsOK, LatestAttempt, NEW S, NEW held, FailJobs(S, held)
  PROVE  RowsOK' /\ LatestAttempt'
  BY Constants DEF RowsOK, LatestAttempt, FailJobs, Without, Open, Attempt, Never

LEMMA GoIdleOK ==
  ASSUME ProcessesOK, NEW w \in Worker, GoIdle(w)
  PROVE  ProcessesOK'
  BY DEF ProcessesOK, WorkIsKnown, GoIdle, AtWork

LEMMA EndScanOK ==
  ASSUME RequestsOK, NEW w \in Worker, EndScan(w), UNCHANGED <<beats, mail>>
  PROVE  RequestsOK'
  BY Constants DEF RequestsOK, EndScan

LEMMA InitOK == Init => IInv
  BY Constants, RemoteLeaseAssumption
     DEF Init, IInv, TypeOK, WorkIsKnown, LatestAttempt, Open, Attempt, Never, AtWork, NoJob

LEMMA SentOK ==
  ASSUME ProcessesOK, RequestsOK, NEW w \in Worker, phase[w] \in AtWork,
         NEW kind \in {"complete", "retry", "give_up"}
  PROVE  Sent(w, kind) \in Mail
  BY DEF ProcessesOK, WorkIsKnown, Sent, Mail

LEMMA SendOK ==
  ASSUME ProcessesOK, RequestsOK, NEW w \in Worker, phase[w] \in AtWork,
         NEW kind \in {"complete", "retry", "give_up"},
         mail' = mail \/ mail' = mail \cup {Sent(w, kind)},
         UNCHANGED <<scan, scanAge, beats>>
  PROVE  RequestsOK'
  BY SentOK DEF RequestsOK

(* The steps that change no row. *)
LEMMA ProcessStep ==
  ASSUME IInv, NEW w \in Worker,
         \/ Report(w) \/ TurnAway(w) \/ ClaimNothing(w) \/ ClaimAgain(w)
         \/ StartUpload(w) \/ EndUpload(w)
  PROVE  ProcessesOK' /\ RequestsOK' /\ OthersOK'
<1>0. ProcessesOK /\ RequestsOK /\ OthersOK
  BY Parts
<1>1. CASE Report(w) \/ TurnAway(w)
  <2>1. ProcessesOK'
    BY <1>0, <1>1 DEF Report, TurnAway, ProcessesOK, WorkIsKnown, AtWork
  <2>2. CASE Report(w)
    <3>1. 0 \in 0 .. Never(FreshTicks)
      BY Constants DEF Never
    <3>2. OthersOK'
      BY <1>0, <2>2, <3>1 DEF Report, OthersOK
    <3>. QED  BY <1>0, <2>1, <2>2, <3>2, RequestsKept DEF Report
  <2>3. CASE TurnAway(w)
    BY <1>0, <2>1, <2>3, RequestsKept, OthersKept DEF TurnAway
  <2>. QED  BY <1>1, <2>2, <2>3
<1>2. CASE ClaimNothing(w) \/ ClaimAgain(w)
  <2>1. ProcessesOK'
    BY <1>0, <1>2 DEF ClaimNothing, ClaimAgain, ProcessesOK, WorkIsKnown, AtWork
  <2>. QED  BY <1>0, <1>2, <2>1, EndScanOK, OthersKept DEF ClaimNothing, ClaimAgain
<1>3. CASE StartUpload(w) \/ EndUpload(w)
  <2>1. ProcessesOK'
    BY <1>0, <1>3 DEF StartUpload, EndUpload, ProcessesOK, WorkIsKnown, AtWork
  <2>2. OthersOK'
    BY <1>0, <1>3 DEF StartUpload, EndUpload, OthersOK, workerRows
  <2>. QED  BY <1>0, <1>3, <2>1, <2>2, RequestsKept DEF StartUpload, EndUpload
<1>. QED  BY <1>1, <1>2, <1>3

LEMMA WorkStep ==
  ASSUME IInv, NEW w \in Worker,
         SendComplete(w) \/ SendFail(w) \/ TimeOut(w) \/ Abandon(w) \/ CrashWorker(w)
  PROVE  ProcessesOK' /\ RequestsOK' /\ OthersOK'
<1>0. ProcessesOK /\ RequestsOK /\ OthersOK
  BY Parts
<1>1. CASE SendComplete(w)
  <2>1. ProcessesOK'
    BY <1>0, <1>1 DEF SendComplete, ProcessesOK, WorkIsKnown, AtWork
  <2>2. RequestsOK'
    BY <1>0, <1>1, SendOK DEF SendComplete, AtWork
  <2>. QED  BY <1>0, <1>1, <2>1, <2>2, OthersKept DEF SendComplete
<1>2. CASE SendFail(w)
  <2>1. RequestsOK'
    BY <1>0, <1>2, SendOK DEF SendFail, AtWork
  <2>. QED  BY <1>0, <1>2, <2>1, GoIdleOK, OthersKept DEF SendFail
<1>3. CASE TimeOut(w)
  <2>1. RequestsOK'
    BY <1>0, <1>3, SendOK DEF TimeOut, AtWork
  <2>. QED  BY <1>0, <1>3, <2>1, GoIdleOK, OthersKept DEF TimeOut
<1>4. CASE Abandon(w) \/ CrashWorker(w)
  BY <1>0, <1>4, GoIdleOK, RequestsKept, OthersKept DEF Abandon, CrashWorker
<1>. QED  BY <1>1, <1>2, <1>3, <1>4

LEMMA StartClaimOK ==
  ASSUME IInv, NEW w \in Worker, StartClaim(w)
  PROVE  IInv'
<1>0. RowsOK /\ ProcessesOK /\ RequestsOK /\ OthersOK /\ LatestAttempt
  BY Parts
<1>1. RowsOK' /\ LatestAttempt'
  BY <1>0, FailJobsOK DEF StartClaim
<1>2. ProcessesOK'
  BY <1>0 DEF StartClaim, ProcessesOK, WorkIsKnown, AtWork
<1>3. Candidates(w) \subseteq Job \X (Attempt \cup {0})
  BY <1>0, RemoteLeaseAssumption DEF Candidates, RowsOK
<1>4. RequestsOK'
  BY <1>0, <1>3 DEF StartClaim, RequestsOK
<1>. QED  BY <1>0, <1>1, <1>2, <1>4, OthersKept, PartsNext DEF StartClaim

LEMMA ClaimOK ==
  ASSUME IInv, NEW w \in Worker, Claim(w)
  PROVE  IInv'
<1>0. RowsOK /\ ProcessesOK /\ RequestsOK /\ OthersOK /\ LatestAttempt
  BY Parts
<1>1. PICK j \in Winnable(w) :
        /\ state' = [state EXCEPT ![j] = "running"]
        /\ assigned' = [assigned EXCEPT ![j] = w]
        /\ token' = [token EXCEPT ![j] = attempts[j] + 1]
        /\ attempts' = [attempts EXCEPT ![j] = @ + 1]
        /\ lease' = [lease EXCEPT ![j] = LeaseTicks - scanAge[w]]
        /\ beaten' = [beaten EXCEPT ![j] = scanAge[w]]
        /\ started' = [started EXCEPT ![j] =
                         IF Balance /\ attempts[j] = 0 THEN scanAge[w] ELSE @]
        /\ \/ /\ phase' = [phase EXCEPT ![w] = "working"]
              /\ onJob' = [onJob EXCEPT ![w] = j]
              /\ onToken' = [onToken EXCEPT ![w] = attempts[j] + 1]
           \/ /\ phase' = [phase EXCEPT ![w] = "idle"]
              /\ UNCHANGED <<onJob, onToken>>
  BY DEF Claim
<1>2. j \in Job /\ attempts[j] + 1 \in Attempt /\ attempts[j] \in Nat
  <2>1. j \in Job /\ attempts[j] < MaxAttempts
    BY DEF Winnable, Claimable
  <2>2. attempts[j] \in Attempt \cup {0}
    BY <1>0, <2>1 DEF RowsOK
  <2>. QED  BY <2>1, <2>2, Constants DEF Attempt
<1>3. scanAge[w] \in 0 .. StaleTicks
  BY <1>0 DEF RequestsOK
<1>4. /\ LeaseTicks - scanAge[w] \in OldestLease .. Forgotten
      /\ scanAge[w] \in 0 .. Forgotten + StaleTicks
      /\ scanAge[w] \in 0 .. Never(WindowTicks)
  BY <1>3, Constants DEF Never
<1>5. RowsOK'
  BY <1>0, <1>1, <1>2, <1>4 DEF RowsOK, Claim, Open
<1>6. LatestAttempt'
  BY <1>0, <1>1, <1>2 DEF LatestAttempt, RowsOK
<1>7. ProcessesOK'
  BY <1>0, <1>1, <1>2 DEF ProcessesOK, WorkIsKnown, Claim, AtWork
<1>8. RequestsOK' /\ OthersOK'
  BY <1>0, EndScanOK, OthersKept DEF Claim
<1>. QED  BY <1>5, <1>6, <1>7, <1>8, PartsNext

LEMMA BeatOK ==
  ASSUME IInv, (\E w \in Worker : StartBeat(w)) \/ (\E b \in beats : EndBeat(b))
  PROVE  IInv'
<1>0. RowsOK /\ ProcessesOK /\ RequestsOK /\ OthersOK /\ LatestAttempt
  BY Parts
<1>1. ASSUME NEW w \in Worker, StartBeat(w) PROVE IInv'
  <2>1. [worker |-> w, job |-> onJob[w], token |-> onToken[w], age |-> 0] \in Beat
    BY <1>0, <1>1, Constants DEF StartBeat, ProcessesOK, WorkIsKnown, Beat
  <2>2. RequestsOK'
    BY <1>0, <1>1, <2>1 DEF StartBeat, RequestsOK
  <2>. QED  BY <1>0, <1>1, <2>2, RowsKept, ProcessesKept, OthersKept, PartsNext DEF StartBeat
<1>2. ASSUME NEW b \in beats, EndBeat(b) PROVE IInv'
  <2>1. b \in Beat /\ b.worker \in Worker /\ b.job \in Job /\ b.age \in 0 .. StaleTicks
    BY <1>0 DEF RequestsOK, Beat
  <2>2. LeaseTicks - b.age \in OldestLease .. Forgotten
        /\ b.age \in 0 .. Forgotten + StaleTicks
    BY <2>1, Constants
  <2>3. lease' \in [Job -> OldestLease .. Forgotten]
        /\ beaten' \in [Job -> 0 .. Forgotten + StaleTicks]
    BY <1>0, <1>2, <2>1, <2>2 DEF EndBeat, RowsOK
  <2>4. RowsOK' /\ LatestAttempt'
    BY <1>0, <1>2, <2>3 DEF EndBeat, RowsOK, LatestAttempt
  <2>5. ProcessesOK'
    <3>1. lost' \in [Worker -> BOOLEAN]
      BY <1>0, <1>2, <2>1, ZenonT(30) DEF EndBeat, ProcessesOK
    <3>. QED  BY <1>0, <1>2, <3>1 DEF EndBeat, ProcessesOK, WorkIsKnown
  <2>6. RequestsOK'
    BY <1>0, <1>2 DEF EndBeat, RequestsOK
  <2>. QED  BY <1>0, <1>2, <2>4, <2>5, <2>6, OthersKept, PartsNext DEF EndBeat
<1>. QED  BY <1>1, <1>2

LEMMA SettleOK ==
  ASSUME IInv, NEW m \in mail,
         Complete(m) \/ CompleteAgain(m) \/ RefuseComplete(m) \/ Fail(m)
  PROVE  IInv'
<1>0. RowsOK /\ ProcessesOK /\ RequestsOK /\ OthersOK /\ LatestAttempt
  BY Parts
<1>1. m \in Mail /\ m.worker \in Worker /\ m.job \in Job /\ m.token \in Attempt
  BY <1>0 DEF RequestsOK, Mail
<1>2. ASSUME Answer(m) PROVE ProcessesOK'
  BY <1>0, <1>1, <1>2, GoIdleOK, ProcessesKept DEF Answer
<1>3. CASE Complete(m)
  <2>1. RowsOK'
    BY <1>0, <1>1, <1>3, Constants DEF Complete, RowsOK
  <2>2. LatestAttempt'
    BY <1>0, <1>1, <1>3 DEF Complete, RowsOK, LatestAttempt
  <2>. QED
    BY <1>0, <1>2, <1>3, <2>1, <2>2, RequestsKept, OthersKept, PartsNext DEF Complete
<1>4. CASE CompleteAgain(m)
  <2>1. RowsOK' /\ LatestAttempt'
    BY <1>0, <1>1, <1>4 DEF CompleteAgain, RowsOK, LatestAttempt
  <2>. QED
    BY <1>0, <1>2, <1>4, <2>1, RequestsKept, OthersKept, PartsNext DEF CompleteAgain
<1>5. CASE RefuseComplete(m)
  <2>1. phase[m.worker] \in AtWork
    BY <1>5 DEF RefuseComplete, Awaited, AtWork
  <2>2. RequestsOK'
    BY <1>0, <1>1, <1>5, <2>1, SendOK DEF RefuseComplete
  <2>. QED
    BY <1>0, <1>1, <1>5, <2>2, GoIdleOK, RowsKept, OthersKept, PartsNext DEF RefuseComplete
<1>6. CASE Fail(m)
  <2>1. RowsOK' /\ LatestAttempt'
    BY <1>0, <1>1, <1>6, RequeueOK, FailJobsOK DEF Fail
  <2>. QED
    BY <1>0, <1>6, <2>1, ProcessesKept, RequestsKept, OthersKept, PartsNext DEF Fail
<1>. QED  BY <1>3, <1>4, <1>5, <1>6

LEMMA ReconcileOK ==
  ASSUME IInv, NEW j \in Job, Reconcile(j)
  PROVE  IInv'
<1>0. RowsOK /\ ProcessesOK /\ RequestsOK /\ OthersOK /\ LatestAttempt
  BY Parts
<1>1. RowsOK' /\ LatestAttempt'
  BY <1>0, RequeueOK, FailJobsOK DEF Reconcile
<1>. QED  BY <1>0, <1>1, ProcessesKept, RequestsKept, OthersKept, PartsNext DEF Reconcile

LEMMA EnvironmentOK ==
  ASSUME IInv, (\E w \in Worker : SetEnabled(w)) \/ (\E j \in Job : RefuseUrl(j))
  PROVE  IInv'
<1>0. RowsOK /\ ProcessesOK /\ RequestsOK /\ OthersOK /\ LatestAttempt
  BY Parts
<1>1. OthersOK' /\ UNCHANGED <<rows, processes, requests>>
  BY <1>0 DEF SetEnabled, RefuseUrl, OthersOK, workerRows
<1>. QED  BY <1>0, <1>1, RowsKept, ProcessesKept, RequestsKept, PartsNext

LEMMA OlderOK ==
  ASSUME NEW bound \in Nat, NEW age \in 0 .. bound
  PROVE  Older(age, bound) \in 0 .. bound
  BY DEF Older

LEMMA TickOK ==
  ASSUME IInv, Tick
  PROVE  IInv'
<1>0. RowsOK /\ ProcessesOK /\ RequestsOK /\ OthersOK /\ LatestAttempt
  BY Parts
<1>1. /\ Never(WindowTicks) \in Nat /\ Never(FreshTicks) \in Nat
      /\ Forgotten + StaleTicks \in Nat
  BY Constants DEF Never
<1>2. lease' \in [Job -> OldestLease .. Forgotten]
  BY <1>0, Constants DEF Tick, RowsOK
<1>3. beaten' \in [Job -> 0 .. Forgotten + StaleTicks]
  BY <1>0, <1>1, OlderOK DEF Tick, RowsOK
<1>4. started' \in [Job -> 0 .. Never(WindowTicks)]
  BY <1>0, <1>1, OlderOK DEF Tick, RowsOK
<1>5. RowsOK' /\ LatestAttempt'
  BY <1>0, <1>2, <1>3, <1>4 DEF Tick, RowsOK, LatestAttempt
<1>6. OthersOK'
  BY <1>0, <1>1, OlderOK DEF Tick, OthersOK
<1>7. scanAge' \in [Worker -> 0 .. StaleTicks]
  BY <1>0, Constants DEF Tick, RequestsOK
<1>8. beats' \subseteq Beat
  <2>1. \A b \in beats : [b EXCEPT !.age = @ + 1] \in Beat
    BY <1>0, Constants DEF Tick, RequestsOK, Beat
  <2>. QED  BY <2>1 DEF Tick
<1>9. RequestsOK'
  BY <1>0, <1>7, <1>8 DEF Tick, RequestsOK
<1>. QED  BY <1>0, <1>5, <1>6, <1>9, ProcessesKept, PartsNext DEF Tick

LEMMA NextOK == IInv /\ [Next]_vars => IInv'
<1> SUFFICES ASSUME IInv, [Next]_vars PROVE IInv'
  OBVIOUS
<1>0. RowsOK /\ ProcessesOK /\ RequestsOK /\ OthersOK /\ LatestAttempt
  BY Parts
<1>1. ASSUME NEW w \in Worker,
             \/ Report(w) \/ TurnAway(w) \/ ClaimNothing(w) \/ ClaimAgain(w)
             \/ StartUpload(w) \/ EndUpload(w)
      PROVE  IInv'
  <2>1. UNCHANGED rows
    BY <1>1 DEF Report, TurnAway, ClaimNothing, ClaimAgain, StartUpload, EndUpload
  <2>. QED  BY <1>0, <1>1, <2>1, ProcessStep, RowsKept, PartsNext
<1>2. ASSUME NEW w \in Worker,
             SendComplete(w) \/ SendFail(w) \/ TimeOut(w) \/ Abandon(w) \/ CrashWorker(w)
      PROVE  IInv'
  <2>1. UNCHANGED rows
    BY <1>2 DEF SendComplete, SendFail, TimeOut, Abandon, CrashWorker
  <2>. QED  BY <1>0, <1>2, <2>1, WorkStep, RowsKept, PartsNext
<1>3. CASE UNCHANGED vars
  BY <1>0, <1>3, RowsKept, ProcessesKept, RequestsKept, OthersKept, PartsNext DEF vars
<1>. QED
  BY <1>1, <1>2, <1>3, StartClaimOK, ClaimOK, BeatOK, SettleOK, ReconcileOK,
     EnvironmentOK, TickOK DEF Next

LEMMA InvariantHolds == Spec => []IInv
  BY InitOK, NextOK, PTL DEF Spec

(* Every row, process and request keeps its type: attempt numbers stay     *)
(* within max_attempts and a lease never lasts longer than its setting.    *)
THEOREM TypeCorrect == Spec => []TypeOK
<1>1. IInv => TypeOK
  BY DEF IInv
<1>. QED  BY <1>1, InvariantHolds, PTL

-----------------------------------------------------------------------------
(* Settlement and leases.                                                  *)

Quiet == UNCHANGED <<state, assigned, token, attempts, result>>

LEMMA OnlyTheseSettle ==
  ASSUME [Next]_vars
  PROVE  \/ Quiet
         \/ \E w \in Worker : StartClaim(w) \/ Claim(w)
         \/ \E m \in mail : Complete(m) \/ Fail(m)
         \/ \E j \in Job : Reconcile(j)
<1>1. ASSUME NEW w \in Worker,
             \/ Report(w) \/ TurnAway(w) \/ ClaimNothing(w) \/ ClaimAgain(w)
             \/ StartBeat(w) \/ StartUpload(w) \/ EndUpload(w) \/ SetEnabled(w)
             \/ SendComplete(w) \/ SendFail(w) \/ TimeOut(w) \/ Abandon(w) \/ CrashWorker(w)
      PROVE  Quiet
  BY <1>1 DEF Report, TurnAway, ClaimNothing, ClaimAgain, StartBeat, StartUpload, EndUpload,
              SetEnabled, SendComplete, SendFail, TimeOut, Abandon, CrashWorker, Quiet, rows
<1>2. ASSUME NEW b \in beats, EndBeat(b) PROVE Quiet
  BY <1>2 DEF EndBeat, Quiet
<1>3. ASSUME NEW m \in mail, CompleteAgain(m) \/ RefuseComplete(m) PROVE Quiet
  BY <1>3 DEF CompleteAgain, RefuseComplete, Quiet, rows
<1>4. ASSUME NEW j \in Job, RefuseUrl(j) PROVE Quiet
  BY <1>4 DEF RefuseUrl, Quiet, rows
<1>5. ASSUME Tick \/ UNCHANGED vars PROVE Quiet
  BY <1>5 DEF Tick, Quiet, vars, rows
<1>. QED  BY <1>1, <1>2, <1>3, <1>4, <1>5 DEF Next

(* What a claim request gives up before its transaction. *)
LEMMA HopelessJobs ==
  ASSUME IInv, NEW w \in Worker, StartClaim(w)
  PROVE  \E S \in SUBSET Job : \E held :
           /\ FailJobs(S, held)
           /\ \A j \in S : state[j] = "queued" \/ (state[j] = "running" /\ ~LeaseLive(j, 0))
<1>. DEFINE S == {j \in Job : Exhausted(j)} \cup Rejected
<1>1. PICK held \in Held(S) : FailJobs(S, held)
  BY DEF StartClaim
<1>2. \A j \in Job : LeaseLapsed(j, 0) => ~LeaseLive(j, 0)
  BY Constants DEF IInv, TypeOK, LeaseLapsed, LeaseLive
<1>3. S \subseteq Job
  BY DEF Rejected, IInv, TypeOK
<1>4. \A j \in S : state[j] = "queued" \/ (state[j] = "running" /\ ~LeaseLive(j, 0))
  BY <1>2, <1>3 DEF Exhausted, Rejected, Claimable
<1>. QED  BY <1>1, <1>3, <1>4

(* The job a claim takes. *)
LEMMA ClaimedJob ==
  ASSUME IInv, NEW w \in Worker, Claim(w)
  PROVE  \E j \in Job :
           /\ state[j] = "queued" \/ (state[j] = "running" /\ ~LeaseLive(j, 0))
           /\ attempts[j] < MaxAttempts
           /\ state' = [state EXCEPT ![j] = "running"]
           /\ assigned' = [assigned EXCEPT ![j] = w]
           /\ token' = [token EXCEPT ![j] = attempts[j] + 1]
           /\ attempts' = [attempts EXCEPT ![j] = @ + 1]
           /\ result' = result
<1>1. PICK j \in Winnable(w) :
        /\ state' = [state EXCEPT ![j] = "running"]
        /\ assigned' = [assigned EXCEPT ![j] = w]
        /\ token' = [token EXCEPT ![j] = attempts[j] + 1]
        /\ attempts' = [attempts EXCEPT ![j] = @ + 1]
  BY DEF Claim
<1>2. j \in Job /\ Claimable(j, scanAge[w])
  BY DEF Winnable
<1>3. LeaseLapsed(j, scanAge[w]) => ~LeaseLive(j, 0)
  BY <1>2, Constants DEF IInv, TypeOK, LeaseLapsed, LeaseLive
<1>. QED  BY <1>1, <1>2, <1>3 DEF Claimable, Claim

LEMMA SettledStep ==
  ASSUME IInv, [Next]_vars, NEW j \in Job, state[j] \notin Open
  PROVE  /\ state'[j] = state[j] /\ result'[j] = result[j]
         /\ assigned'[j] = assigned[j] /\ token'[j] = token[j]
<1>0. TypeOK
  BY DEF IInv
<1>1. CASE Quiet
  BY <1>1 DEF Quiet
<1>2. ASSUME NEW w \in Worker, StartClaim(w)
      PROVE  state'[j] = state[j] /\ UNCHANGED <<assigned, token, result>>
  BY <1>2, HopelessJobs DEF FailJobs, Open
<1>3. ASSUME NEW w \in Worker, Claim(w)
      PROVE  /\ state'[j] = state[j] /\ result'[j] = result[j]
             /\ assigned'[j] = assigned[j] /\ token'[j] = token[j]
  BY <1>0, <1>3, ClaimedJob DEF TypeOK, Open
<1>4. ASSUME NEW m \in mail, Complete(m)
      PROVE  /\ state'[j] = state[j] /\ result'[j] = result[j]
             /\ UNCHANGED <<assigned, token>>
  BY <1>0, <1>4 DEF Complete, ActiveLease, Owned, TypeOK, Open, Mail
<1>5. ASSUME NEW m \in mail, Fail(m)
      PROVE  /\ state'[j] = state[j] /\ result'[j] = result[j]
             /\ assigned'[j] = assigned[j] /\ token'[j] = token[j]
  BY <1>0, <1>5
     DEF Fail, ActiveLease, Owned, Requeue, FailJobs, TypeOK, Open, Mail
<1>6. ASSUME NEW i \in Job, Reconcile(i)
      PROVE  /\ state'[j] = state[j] /\ result'[j] = result[j]
             /\ assigned'[j] = assigned[j] /\ token'[j] = token[j]
  BY <1>0, <1>6 DEF Reconcile, Requeue, FailJobs, TypeOK, Open
<1>. QED  BY <1>1, <1>2, <1>3, <1>4, <1>5, <1>6, OnlyTheseSettle

(* Nothing changes a settled job (SettledStays). *)
THEOREM SettledForGood == Spec => SettledStays
<1>1. ASSUME IInv, [Next]_vars
      PROVE  [\A j \in Job : state[j] \notin Open =>
               /\ state'[j] = state[j] /\ result'[j] = result[j]
               /\ assigned'[j] = assigned[j] /\ token'[j] = token[j]]_vars
  BY <1>1, SettledStep
<1>. QED  BY <1>1, InvariantHolds, PTL DEF Spec, SettledStays

(* A lease in force ends only by a report of its own owner (LiveLeaseKept). *)
THEOREM LeaseIsKept == Spec => LiveLeaseKept
<1>1. ASSUME IInv, [Next]_vars, NEW j \in Job,
             state[j] = "running", LeaseLive(j, 0),
             state'[j] # "running" \/ token'[j] # token[j]
      PROVE  \E m \in mail : m.job = j /\ m.worker = assigned[j] /\ m.token = token[j]
  <2>0. TypeOK
    BY <1>1 DEF IInv
  <2>1. ~Quiet
    BY <1>1 DEF Quiet
  <2>2. ASSUME NEW w \in Worker, StartClaim(w) PROVE FALSE
    BY <1>1, <2>2, HopelessJobs DEF FailJobs
  <2>3. ASSUME NEW w \in Worker, Claim(w) PROVE FALSE
    BY <1>1, <2>0, <2>3, ClaimedJob DEF TypeOK
  <2>4. ASSUME NEW m \in mail, Complete(m) \/ Fail(m)
        PROVE  m.job = j /\ m.worker = assigned[j] /\ m.token = token[j]
    BY <1>1, <2>0, <2>4
       DEF Complete, Fail, ActiveLease, Owned, Requeue, FailJobs, TypeOK, Mail
  <2>5. ASSUME NEW i \in Job, Reconcile(i) PROVE FALSE
    <3>1. i # j
      BY <1>1, <2>0, <2>5, Constants DEF Reconcile, LeaseLapsed, LeaseLive, TypeOK
    <3>. QED  BY <1>1, <2>0, <2>5, <3>1 DEF Reconcile, Requeue, FailJobs, TypeOK
  <2>. QED  BY <1>1, <2>1, <2>2, <2>3, <2>4, <2>5, OnlyTheseSettle
<1>2. ASSUME IInv, [Next]_vars
      PROVE  [\A j \in Job :
               /\ state[j] = "running" /\ LeaseLive(j, 0)
               /\ state'[j] # "running" \/ token'[j] # token[j]
               => \E m \in mail :
                    m.job = j /\ m.worker = assigned[j] /\ m.token = token[j]]_vars
  BY <1>1, <1>2
<1>. QED  BY <1>2, InvariantHolds, PTL DEF Spec, LiveLeaseKept

-----------------------------------------------------------------------------
(* The protocol implements the life of a job.                              *)

(* Claims, reports and lost leases are the steps JobLifecycle allows. *)
THEOREM LeasesImplementLifecycle == Spec => ImplementsLifecycle
<1>1. Init => Lifecycle!Init
  BY DEF Init, Lifecycle!Init
<1>2. ASSUME IInv, [Next]_vars PROVE [Lifecycle!Next]_(Lifecycle!vars)
  <2>0. TypeOK /\ LatestAttempt
    BY <1>2 DEF IInv
  <2>1. CASE Quiet
    BY <2>1 DEF Quiet, Lifecycle!vars
  <2>2. ASSUME NEW w \in Worker, StartClaim(w) PROVE Lifecycle!Next
    BY <1>2, <2>2, HopelessJobs DEF FailJobs, Lifecycle!Fail, Lifecycle!Next
  <2>3. ASSUME NEW w \in Worker, Claim(w) PROVE Lifecycle!Next
    BY <1>2, <2>3, ClaimedJob DEF Lifecycle!Attempt, Lifecycle!Next
  <2>4. ASSUME NEW m \in mail, Complete(m) PROVE Lifecycle!Next
    <3>1. m.job \in Job /\ state[m.job] = "running" /\ m.token = attempts[m.job]
      BY <2>0, <2>4 DEF Complete, ActiveLease, Owned, LatestAttempt, TypeOK, Mail
    <3>2. Lifecycle!Succeed(m.job)
      BY <2>4, <3>1 DEF Complete, Lifecycle!Succeed
    <3>. QED  BY <3>1, <3>2 DEF Lifecycle!Next
  <2>5. ASSUME NEW j \in Job, state[j] = "running", FailJobs({j}, {}) \/ \E held : FailJobs({j}, held)
        PROVE  Lifecycle!Next
    <3>1. Lifecycle!Fail({j})
      BY <2>5 DEF FailJobs, Lifecycle!Fail
    <3>. QED  BY <3>1 DEF Lifecycle!Next
  <2>6. ASSUME NEW j \in Job, state[j] = "running", attempts[j] < MaxAttempts, Requeue(j)
        PROVE  Lifecycle!Next
    <3>1. Lifecycle!GiveBack(j)
      BY <2>6 DEF Requeue, Lifecycle!GiveBack
    <3>. QED  BY <3>1 DEF Lifecycle!Next
  <2>7. ASSUME NEW m \in mail, Fail(m) PROVE Lifecycle!Next
    <3>1. m.job \in Job /\ state[m.job] = "running"
      BY <2>0, <2>7 DEF Fail, ActiveLease, Owned, TypeOK, Mail
    <3>. QED  BY <2>5, <2>6, <2>7, <3>1 DEF Fail
  <2>8. ASSUME NEW j \in Job, Reconcile(j) PROVE Lifecycle!Next
    BY <2>5, <2>6, <2>8 DEF Reconcile
  <2>. QED  BY <1>2, <2>1, <2>2, <2>3, <2>4, <2>7, <2>8, OnlyTheseSettle
<1>. QED
  BY <1>1, <1>2, InvariantHolds, PTL DEF Spec, ImplementsLifecycle, Lifecycle!Spec

-----------------------------------------------------------------------------
(* Heartbeats.                                                             *)

(* Steps that touch neither a lease nor the state it belongs to. *)
Still == UNCHANGED <<state, lease, beaten>>

LEMMA OnlyTheseMoveLeases ==
  ASSUME [Next]_vars
  PROVE  \/ Still
         \/ \E w \in Worker : StartClaim(w) \/ Claim(w)
         \/ \E b \in beats : EndBeat(b)
         \/ \E m \in mail : Complete(m) \/ Fail(m)
         \/ \E j \in Job : Reconcile(j)
         \/ Tick
<1>1. ASSUME NEW w \in Worker,
             \/ Report(w) \/ TurnAway(w) \/ ClaimNothing(w) \/ ClaimAgain(w)
             \/ StartBeat(w) \/ StartUpload(w) \/ EndUpload(w) \/ SetEnabled(w)
             \/ SendComplete(w) \/ SendFail(w) \/ TimeOut(w) \/ Abandon(w) \/ CrashWorker(w)
      PROVE  Still
  BY <1>1 DEF Report, TurnAway, ClaimNothing, ClaimAgain, StartBeat, StartUpload, EndUpload,
              SetEnabled, SendComplete, SendFail, TimeOut, Abandon, CrashWorker, Still, rows
<1>2. ASSUME NEW m \in mail, CompleteAgain(m) \/ RefuseComplete(m) PROVE Still
  BY <1>2 DEF CompleteAgain, RefuseComplete, Still, rows
<1>3. ASSUME NEW j \in Job, RefuseUrl(j) PROVE Still
  BY <1>3 DEF RefuseUrl, Still, rows
<1>4. ASSUME UNCHANGED vars PROVE Still
  BY <1>4 DEF Still, vars, rows
<1>. QED  BY <1>1, <1>2, <1>3, <1>4 DEF Next

(* A beat is published only when it is newer than the last one, so lease   *)
(* and beat always move together.                                          *)
LEMMA NextFollowsBeat ==
  IInv /\ LeaseFollowsNewestBeat /\ [Next]_vars => LeaseFollowsNewestBeat'
<1> SUFFICES ASSUME IInv, LeaseFollowsNewestBeat, [Next]_vars,
                    NEW j \in Job, state'[j] = "running"
             PROVE  lease'[j] = LeaseTicks - beaten'[j]
  BY DEF LeaseFollowsNewestBeat
<1>0. /\ RowsOK /\ RequestsOK
      /\ state[j] = "running" => lease[j] = LeaseTicks - beaten[j]
  BY Parts DEF LeaseFollowsNewestBeat
<1>1. CASE Still
  BY <1>0, <1>1 DEF Still
<1>2. ASSUME NEW S, NEW held, FailJobs(S, held) PROVE lease'[j] = LeaseTicks - beaten'[j]
  BY <1>0, <1>2 DEF FailJobs, Without
<1>3. ASSUME NEW i \in Job, Requeue(i) PROVE lease'[j] = LeaseTicks - beaten'[j]
  BY <1>0, <1>3 DEF Requeue, RowsOK
<1>4. ASSUME NEW w \in Worker, StartClaim(w) PROVE lease'[j] = LeaseTicks - beaten'[j]
  BY <1>2, <1>4 DEF StartClaim
<1>5. ASSUME NEW w \in Worker, Claim(w) PROVE lease'[j] = LeaseTicks - beaten'[j]
  <2>1. PICK i \in Winnable(w) :
          /\ state' = [state EXCEPT ![i] = "running"]
          /\ lease' = [lease EXCEPT ![i] = LeaseTicks - scanAge[w]]
          /\ beaten' = [beaten EXCEPT ![i] = scanAge[w]]
    BY <1>5 DEF Claim
  <2>. QED  BY <1>0, <2>1 DEF RowsOK
<1>6. ASSUME NEW b \in beats, EndBeat(b) PROVE lease'[j] = LeaseTicks - beaten'[j]
  <2>1. b.job \in Job /\ b.age \in Int /\ beaten[b.job] \in Int /\ lease[b.job] \in Int
    <3>1. b.job \in Job /\ b.age \in 0 .. StaleTicks
      BY <1>0 DEF RequestsOK, Beat
    <3>2. beaten[b.job] \in 0 .. Forgotten + StaleTicks /\ lease[b.job] \in OldestLease .. Forgotten
      BY <1>0, <3>1 DEF RowsOK
    <3>. QED  BY <3>1, <3>2, Constants
  <2>2. CASE Publishes(b) /\ b.job = j
    <3>1. lease[j] < LeaseTicks - b.age
      BY <1>0, <2>1, <2>2, Constants DEF Publishes, Owned
    <3>. QED  BY <1>0, <1>6, <2>1, <2>2, <3>1 DEF EndBeat, RowsOK
  <2>3. CASE ~(Publishes(b) /\ b.job = j)
    BY <1>0, <1>6, <2>1, <2>3 DEF EndBeat, RowsOK
  <2>. QED  BY <2>2, <2>3
<1>7. ASSUME NEW m \in mail, Complete(m) PROVE lease'[j] = LeaseTicks - beaten'[j]
  BY <1>0, <1>7 DEF Complete, RowsOK
<1>8. ASSUME NEW m \in mail, Fail(m) PROVE lease'[j] = LeaseTicks - beaten'[j]
  <2>1. m.job \in Job
    BY <1>0 DEF RequestsOK, Mail
  <2>. QED  BY <1>2, <1>3, <1>8, <2>1 DEF Fail
<1>9. ASSUME NEW i \in Job, Reconcile(i) PROVE lease'[j] = LeaseTicks - beaten'[j]
  BY <1>2, <1>3, <1>9 DEF Reconcile
<1>10. CASE Tick
  <2>1. state[j] = "running" /\ lease[j] \in Int /\ beaten[j] \in Nat
    BY <1>0, <1>10, Constants DEF Tick, RowsOK
  <2>2. lease'[j] = IF lease[j] > OldestLease THEN lease[j] - 1 ELSE lease[j]
    BY <1>10, <2>1 DEF Tick
  <2>3. beaten'[j] = IF beaten[j] < Forgotten + StaleTicks THEN beaten[j] + 1
                     ELSE Forgotten + StaleTicks
    BY <1>10, <2>1 DEF Tick, Older
  <2>4. beaten[j] <= Forgotten + StaleTicks
    BY <1>0, <1>10, Constants DEF RowsOK
  <2>. QED  BY <1>0, <2>1, <2>2, <2>3, <2>4, Constants DEF OldestLease, Forgotten
<1>. QED
  BY <1>1, <1>4, <1>5, <1>6, <1>7, <1>8, <1>9, <1>10, OnlyTheseMoveLeases

(* Beats served late change nothing (LeaseFollowsNewestBeat). *)
THEOREM LeasesFollowBeats == Spec => []LeaseFollowsNewestBeat
<1>1. Init => LeaseFollowsNewestBeat
  BY DEF Init, LeaseFollowsNewestBeat
<1>. QED  BY <1>1, NextFollowsBeat, InvariantHolds, PTL DEF Spec

-----------------------------------------------------------------------------
(* The winner's objects.  Nobody keeps a list of the grants of a job; that  *)
(* no two workers ever share an attempt follows from what the row still     *)
(* shows: an attempt up to attempts[j] was given out, and if the row names  *)
(* that attempt it names its worker too.                                    *)

Granted(j, k, w) ==
  /\ k <= attempts[j]
  /\ token[j] = k => assigned[j] = w

WorkGranted ==
  \A w \in Worker : phase[w] \in AtWork => Granted(onJob[w], onToken[w], w)

ObjectsGranted ==
  \A j \in Job, k \in Attempt :
    objects[<<j, k>>] # NoWorker => Granted(j, k, objects[<<j, k>>])

ResultStored ==
  \A j \in Job : state[j] = "succeeded" =>
    /\ result[j] = token[j] /\ result[j] \in Attempt
    /\ objects[<<j, result[j]>>] # NoWorker

WinnerInv == IInv /\ WorkGranted /\ ObjectsGranted /\ ResultStored

(* A grant outlives every step: a new lease has a larger number. *)
LEMMA GrantsLast ==
  ASSUME IInv, [Next]_vars,
         NEW j \in Job, NEW k \in Attempt, NEW w \in Worker, Granted(j, k, w)
  PROVE  Granted(j, k, w)'
<1>0. /\ attempts \in [Job -> Attempt \cup {0}] /\ token \in [Job -> Attempt \cup {0}]
      /\ assigned \in [Job -> Worker \cup {NoWorker}]
      /\ k \in Int /\ k >= 1 /\ attempts[j] \in Int
  BY Constants DEF IInv, TypeOK, Attempt
<1>1. ASSUME UNCHANGED <<assigned, token, attempts>> PROVE Granted(j, k, w)'
  BY <1>1 DEF Granted
<1>2. ASSUME NEW i \in Job, Requeue(i) PROVE Granted(j, k, w)'
  BY <1>0, <1>2 DEF Requeue, Granted
<1>3. ASSUME NEW v \in Worker, Claim(v) PROVE Granted(j, k, w)'
  <2>1. PICK i \in Job :
          /\ assigned' = [assigned EXCEPT ![i] = v]
          /\ token' = [token EXCEPT ![i] = attempts[i] + 1]
          /\ attempts' = [attempts EXCEPT ![i] = @ + 1]
    BY <1>3, ClaimedJob
  <2>. QED  BY <1>0, <2>1 DEF Granted
<1>4. ASSUME NEW v \in Worker, StartClaim(v) PROVE Granted(j, k, w)'
  BY <1>1, <1>4 DEF StartClaim, FailJobs
<1>5. ASSUME NEW m \in mail, Complete(m) \/ Fail(m) PROVE Granted(j, k, w)'
  <2>1. m.job \in Job
    BY DEF IInv, TypeOK, Mail
  <2>. QED  BY <1>1, <1>2, <1>5, <2>1 DEF Complete, Fail, FailJobs
<1>6. ASSUME NEW i \in Job, Reconcile(i) PROVE Granted(j, k, w)'
  BY <1>1, <1>2, <1>6 DEF Reconcile, FailJobs
<1>7. CASE Quiet
  BY <1>1, <1>7 DEF Quiet
<1>. QED  BY <1>3, <1>4, <1>5, <1>6, <1>7, OnlyTheseSettle

(* A process is at work on what it was at work on before, or on what it has *)
(* just been granted.                                                       *)
LEMMA WorkIsOldOrClaimed ==
  ASSUME IInv, [Next]_vars, NEW w \in Worker, phase'[w] \in AtWork
  PROVE  \/ phase[w] \in AtWork /\ onJob'[w] = onJob[w] /\ onToken'[w] = onToken[w]
         \/ Claim(w)
<1>0. /\ phase \in [Worker -> AtWork \cup {"idle", "reported", "claiming"}]
      /\ onJob \in [Worker -> Job \cup {NoJob}] /\ onToken \in [Worker -> Attempt \cup {0}]
      /\ \A m \in mail : m.worker \in Worker
  BY DEF IInv, TypeOK, Mail
<1>1. ASSUME UNCHANGED <<phase, onJob, onToken>>
      PROVE  phase[w] \in AtWork /\ onJob'[w] = onJob[w] /\ onToken'[w] = onToken[w]
  BY <1>1
<1>2. ASSUME NEW v \in Worker, GoIdle(v)
      PROVE  phase[w] \in AtWork /\ onJob'[w] = onJob[w] /\ onToken'[w] = onToken[w]
  BY <1>0, <1>2 DEF GoIdle, AtWork
<1>3. ASSUME NEW v \in Worker,
             \/ SendFail(v) \/ TimeOut(v) \/ Abandon(v) \/ CrashWorker(v)
             \/ StartBeat(v) \/ SetEnabled(v)
      PROVE  phase[w] \in AtWork /\ onJob'[w] = onJob[w] /\ onToken'[w] = onToken[w]
  BY <1>1, <1>2, <1>3
     DEF SendFail, TimeOut, Abandon, CrashWorker, StartBeat, SetEnabled, processes
<1>4. ASSUME NEW v \in Worker,
             \/ Report(v) \/ TurnAway(v) \/ StartClaim(v) \/ ClaimNothing(v) \/ ClaimAgain(v)
             \/ StartUpload(v) \/ EndUpload(v) \/ SendComplete(v)
      PROVE  phase[w] \in AtWork /\ onJob'[w] = onJob[w] /\ onToken'[w] = onToken[w]
  BY <1>0, <1>4
     DEF Report, TurnAway, StartClaim, ClaimNothing, ClaimAgain,
         StartUpload, EndUpload, SendComplete, AtWork
<1>5. ASSUME NEW v \in Worker, Claim(v), v # w
      PROVE  phase[w] \in AtWork /\ onJob'[w] = onJob[w] /\ onToken'[w] = onToken[w]
  BY <1>0, <1>5 DEF Claim
<1>6. ASSUME NEW m \in mail, Complete(m) \/ CompleteAgain(m) \/ RefuseComplete(m) \/ Fail(m)
      PROVE  phase[w] \in AtWork /\ onJob'[w] = onJob[w] /\ onToken'[w] = onToken[w]
  BY <1>0, <1>1, <1>2, <1>6
     DEF Complete, CompleteAgain, RefuseComplete, Fail, Answer, processes
<1>7. ASSUME \/ \E b \in beats : EndBeat(b)
             \/ \E j \in Job : Reconcile(j) \/ RefuseUrl(j)
             \/ Tick \/ UNCHANGED vars
      PROVE  phase[w] \in AtWork /\ onJob'[w] = onJob[w] /\ onToken'[w] = onToken[w]
  BY <1>1, <1>7 DEF EndBeat, Reconcile, RefuseUrl, Tick, vars, processes
<1>. QED  BY <1>3, <1>4, <1>5, <1>6, <1>7 DEF Next

(* Objects appear only where their writer was at work. *)
LEMMA ObjectsAreOldOrStored ==
  ASSUME IInv, [Next]_vars, NEW j \in Job, NEW k \in Attempt
  PROVE  \/ objects'[<<j, k>>] = objects[<<j, k>>]
         \/ \E w \in Worker :
              /\ phase[w] \in AtWork /\ onJob[w] = j /\ onToken[w] = k
              /\ objects'[<<j, k>>] = w
<1>1. ASSUME NEW w \in Worker, EndUpload(w)
      PROVE  \/ objects'[<<j, k>>] = objects[<<j, k>>]
             \/ /\ phase[w] \in AtWork /\ onJob[w] = j /\ onToken[w] = k
                /\ objects'[<<j, k>>] = w
  BY <1>1 DEF EndUpload, Prefix, IInv, TypeOK, AtWork
<1>2. ASSUME NEW w \in Worker,
             \/ Report(w) \/ StartClaim(w) \/ TurnAway(w)
             \/ Claim(w) \/ ClaimNothing(w) \/ ClaimAgain(w)
             \/ StartBeat(w) \/ StartUpload(w) \/ SendComplete(w) \/ SendFail(w)
             \/ TimeOut(w) \/ Abandon(w) \/ CrashWorker(w) \/ SetEnabled(w)
      PROVE  UNCHANGED objects
  BY <1>2 DEF Report, StartClaim, TurnAway, Claim, ClaimNothing, ClaimAgain, StartBeat,
              StartUpload, SendComplete, SendFail, TimeOut, Abandon, CrashWorker, SetEnabled
<1>3. ASSUME \/ \E b \in beats : EndBeat(b)
             \/ \E m \in mail : Complete(m) \/ CompleteAgain(m) \/ RefuseComplete(m) \/ Fail(m)
             \/ \E i \in Job : Reconcile(i) \/ RefuseUrl(i)
             \/ Tick \/ UNCHANGED vars
      PROVE  UNCHANGED objects
  BY <1>3 DEF EndBeat, Complete, CompleteAgain, RefuseComplete, Fail, Reconcile, RefuseUrl,
              Tick, vars
<1>. QED  BY <1>1, <1>2, <1>3 DEF Next

(* Only a completion makes a job succeed. *)
LEMMA OnlyCompleteSucceeds ==
  ASSUME IInv, [Next]_vars, NEW j \in Job, state'[j] = "succeeded", state[j] # "succeeded"
  PROVE  \E m \in mail : Complete(m) /\ m.job = j
<1>0. state \in [Job -> Open \cup {"succeeded", "failed"}] /\ \A m \in mail : m.job \in Job
  BY DEF IInv, TypeOK, Mail
<1>1. ~Quiet
  BY DEF Quiet
<1>2. ASSUME NEW S, NEW held, FailJobs(S, held) PROVE FALSE
  BY <1>2 DEF FailJobs
<1>3. ASSUME NEW i \in Job, Requeue(i) PROVE FALSE
  BY <1>0, <1>3 DEF Requeue
<1>4. ASSUME NEW w \in Worker, StartClaim(w) PROVE FALSE
  BY <1>2, <1>4 DEF StartClaim
<1>5. ASSUME NEW w \in Worker, Claim(w) PROVE FALSE
  BY <1>0, <1>5, ClaimedJob
<1>6. ASSUME NEW m \in mail, Fail(m) PROVE FALSE
  BY <1>0, <1>2, <1>3, <1>6 DEF Fail
<1>7. ASSUME NEW i \in Job, Reconcile(i) PROVE FALSE
  BY <1>2, <1>3, <1>7 DEF Reconcile
<1>8. ASSUME NEW m \in mail, Complete(m) PROVE m.job = j
  BY <1>0, <1>8 DEF Complete
<1>. QED  BY <1>1, <1>4, <1>5, <1>6, <1>7, <1>8, OnlyTheseSettle

LEMMA NextWinner == WinnerInv /\ [Next]_vars => WinnerInv'
<1> SUFFICES ASSUME WinnerInv, [Next]_vars PROVE WinnerInv'
  OBVIOUS
<1>0. IInv /\ WorkGranted /\ ObjectsGranted /\ ResultStored
  BY DEF WinnerInv
<1>1. IInv'
  BY <1>0, NextOK
<1>2. ASSUME NEW w \in Worker, phase'[w] \in AtWork
      PROVE  Granted(onJob[w], onToken[w], w)'
  <2>1. CASE phase[w] \in AtWork /\ onJob'[w] = onJob[w] /\ onToken'[w] = onToken[w]
    <3>1. /\ onJob[w] \in Job /\ onToken[w] \in Attempt
          /\ Granted(onJob[w], onToken[w], w)
      BY <1>0, <2>1 DEF WorkGranted, IInv, WorkIsKnown
    <3>2. onToken[w] <= attempts'[onJob[w]]
          /\ (token'[onJob[w]] = onToken[w] => assigned'[onJob[w]] = w)
      BY <1>0, <3>1, GrantsLast DEF Granted
    <3>. QED  BY <2>1, <3>2 DEF Granted
  <2>2. CASE Claim(w)
    <3>1. PICK j \in Winnable(w) :
            /\ assigned' = [assigned EXCEPT ![j] = w]
            /\ token' = [token EXCEPT ![j] = attempts[j] + 1]
            /\ attempts' = [attempts EXCEPT ![j] = @ + 1]
            /\ \/ phase' = [phase EXCEPT ![w] = "working"]
                  /\ onJob' = [onJob EXCEPT ![w] = j]
                  /\ onToken' = [onToken EXCEPT ![w] = attempts[j] + 1]
               \/ phase' = [phase EXCEPT ![w] = "idle"]
      BY <2>2 DEF Claim
    <3>2. onJob'[w] = j /\ onToken'[w] = attempts[j] + 1
      BY <1>0, <1>2, <3>1 DEF IInv, TypeOK, AtWork
    <3>3. j \in Job /\ attempts'[j] = attempts[j] + 1 /\ assigned'[j] = w
      BY <1>0, <3>1 DEF IInv, TypeOK, Winnable
    <3>4. attempts[j] + 1 \in Int
      BY <1>0, <3>3, Constants DEF IInv, TypeOK, Attempt
    <3>. QED  BY <3>2, <3>3, <3>4 DEF Granted
  <2>. QED  BY <1>0, <1>2, <2>1, <2>2, WorkIsOldOrClaimed
<1>3. ASSUME NEW j \in Job, NEW k \in Attempt, objects'[<<j, k>>] # NoWorker
      PROVE  Granted(j, k, objects[<<j, k>>])'
  <2>1. PICK w : /\ w \in Worker /\ Granted(j, k, w) /\ objects'[<<j, k>>] = w
    <3>1. CASE objects'[<<j, k>>] = objects[<<j, k>>]
      BY <1>0, <1>3, <3>1 DEF ObjectsGranted, IInv, TypeOK
    <3>2. CASE \E w \in Worker : /\ phase[w] \in AtWork /\ onJob[w] = j /\ onToken[w] = k
                                 /\ objects'[<<j, k>>] = w
      BY <1>0, <3>2 DEF WorkGranted
    <3>. QED  BY <1>0, <3>1, <3>2, ObjectsAreOldOrStored
  <2>2. k <= attempts'[j] /\ (token'[j] = k => assigned'[j] = w)
    BY <1>0, <2>1, GrantsLast DEF Granted
  <2>. QED  BY <2>1, <2>2 DEF Granted
<1>4. ASSUME NEW j \in Job, state'[j] = "succeeded"
      PROVE  /\ result'[j] = token'[j] /\ result'[j] \in Attempt
             /\ objects'[<<j, result'[j]>>] # NoWorker
  <2>1. /\ result'[j] = token'[j] /\ result'[j] \in Attempt
        /\ objects[<<j, result'[j]>>] # NoWorker
    <3>1. CASE state[j] = "succeeded"
      <4>1. result'[j] = result[j] /\ token'[j] = token[j]
        BY <1>0, <3>1, SettledStep DEF Open
      <4>. QED  BY <1>0, <3>1, <4>1 DEF ResultStored
    <3>2. CASE state[j] # "succeeded"
      <4>1. PICK m \in mail : Complete(m) /\ m.job = j
        BY <1>0, <1>4, <3>2, OnlyCompleteSucceeds
      <4>2. /\ m.token \in Attempt /\ token[j] = m.token /\ token' = token
            /\ result' = [result EXCEPT ![j] = m.token]
            /\ objects[<<j, m.token>>] # NoWorker
        BY <1>0, <4>1 DEF Complete, ActiveLease, Owned, Prefix, IInv, TypeOK, Mail
      <4>. QED  BY <1>0, <4>2 DEF IInv, TypeOK
    <3>. QED  BY <3>1, <3>2
  <2>2. \A w \in Worker : w # NoWorker
    BY RemoteLeaseAssumption
  <2>. QED  BY <1>0, <2>1, <2>2, ObjectsAreOldOrStored
<1>5. WorkGranted'
  BY <1>2 DEF WorkGranted
<1>6. ObjectsGranted'
  BY <1>3 DEF ObjectsGranted
<1>7. ResultStored'
  BY <1>4 DEF ResultStored
<1>. QED  BY <1>1, <1>5, <1>6, <1>7 DEF WinnerInv

(* The objects of a finished job are its winner's own, however many other   *)
(* workers were, or still are, at work on it (WinnerObjectsIntact).         *)
THEOREM WinnerKeepsItsObjects == Spec => []WinnerObjectsIntact
<1>1. Init => WinnerInv
  <2>1. Init => WorkGranted /\ ObjectsGranted /\ ResultStored
    BY DEF Init, WorkGranted, ObjectsGranted, ResultStored, AtWork
  <2>. QED  BY <2>1, InitOK DEF WinnerInv
<1>2. WinnerInv => WinnerObjectsIntact
  BY DEF WinnerInv, ObjectsGranted, ResultStored, Granted, WinnerObjectsIntact, Prefix
<1>. QED  BY <1>1, <1>2, NextWinner, PTL DEF Spec

-----------------------------------------------------------------------------
(* Staged uploads.                                                         *)

LEMMA OnlyTheseFreeUploads ==
  ASSUME [Next]_vars
  PROVE  \/ UNCHANGED <<state, upload>>
         \/ \E w \in Worker : StartClaim(w) \/ Claim(w)
         \/ \E m \in mail : Complete(m) \/ CompleteAgain(m) \/ Fail(m)
         \/ \E j \in Job : Reconcile(j)
<1>1. ASSUME NEW w \in Worker,
             \/ Report(w) \/ TurnAway(w) \/ ClaimNothing(w) \/ ClaimAgain(w)
             \/ StartBeat(w) \/ StartUpload(w) \/ EndUpload(w) \/ SetEnabled(w)
             \/ SendComplete(w) \/ SendFail(w) \/ TimeOut(w) \/ Abandon(w) \/ CrashWorker(w)
      PROVE  UNCHANGED <<state, upload>>
  BY <1>1 DEF Report, TurnAway, ClaimNothing, ClaimAgain, StartBeat, StartUpload, EndUpload,
              SetEnabled, SendComplete, SendFail, TimeOut, Abandon, CrashWorker, rows
<1>2. ASSUME NEW b \in beats, EndBeat(b) PROVE UNCHANGED <<state, upload>>
  BY <1>2 DEF EndBeat
<1>3. ASSUME NEW m \in mail, RefuseComplete(m) PROVE UNCHANGED <<state, upload>>
  BY <1>3 DEF RefuseComplete, rows
<1>4. ASSUME NEW j \in Job, RefuseUrl(j) PROVE UNCHANGED <<state, upload>>
  BY <1>4 DEF RefuseUrl, rows
<1>5. ASSUME Tick \/ UNCHANGED vars PROVE UNCHANGED <<state, upload>>
  BY <1>5 DEF Tick, vars, rows
<1>. QED  BY <1>1, <1>2, <1>3, <1>4, <1>5 DEF Next

(* Failing, requeueing and succeeding each treat the upload as the state asks. *)
LEMMA NextUploads == IInv /\ UploadKept /\ [Next]_vars => UploadKept'
<1> SUFFICES ASSUME IInv, UploadKept, [Next]_vars, NEW j \in Job
             PROVE  /\ state'[j] \in Open => upload'[j] = "claimed"
                    /\ state'[j] = "failed" /\ "server_crash" \notin Faults
                         => upload'[j] = "released"
  BY DEF UploadKept
<1>. DEFINE Goal == /\ state'[j] \in Open => upload'[j] = "claimed"
                    /\ state'[j] = "failed" /\ "server_crash" \notin Faults
                         => upload'[j] = "released"
<1>0. /\ state \in [Job -> Open \cup {"succeeded", "failed"}]
      /\ upload \in [Job -> {"claimed", "released", "deleted"}]
      /\ \A m \in mail : m.job \in Job
      /\ state[j] \in Open => upload[j] = "claimed"
      /\ state[j] = "failed" /\ "server_crash" \notin Faults => upload[j] = "released"
  BY DEF IInv, TypeOK, Mail, UploadKept
<1>1. CASE UNCHANGED <<state, upload>>
  BY <1>0, <1>1
<1>2. ASSUME NEW S, NEW held \in Held(S), FailJobs(S, held) PROVE Goal
  <2>1. "server_crash" \notin Faults => j \notin held
    BY <1>2 DEF Held
  <2>2. state'[j] = IF j \in S THEN "failed" ELSE state[j]
    BY <1>2 DEF FailJobs
  <2>3. upload'[j] = IF j \in S \ held THEN "released" ELSE upload[j]
    BY <1>2 DEF FailJobs
  <2>. QED  BY <1>0, <2>1, <2>2, <2>3 DEF Open
<1>3. ASSUME NEW i \in Job, state[i] = "running", Requeue(i) PROVE Goal
  BY <1>0, <1>3 DEF Requeue, Open
<1>4. ASSUME NEW w \in Worker, StartClaim(w) PROVE Goal
  BY <1>2, <1>4 DEF StartClaim
<1>5. ASSUME NEW w \in Worker, Claim(w) PROVE Goal
  <2>1. upload' = upload
    BY <1>5 DEF Claim
  <2>. QED  BY <1>0, <1>5, <2>1, ClaimedJob DEF Open
<1>6. ASSUME NEW m \in mail, Complete(m) PROVE Goal
  <2>1. state' = [state EXCEPT ![m.job] = "succeeded"]
        /\ upload' \in {upload, [upload EXCEPT ![m.job] = "deleted"]}
    BY <1>6 DEF Complete
  <2>. QED  BY <1>0, <2>1 DEF Open
<1>7. ASSUME NEW m \in mail, CompleteAgain(m) PROVE Goal
  <2>1. /\ state[m.job] = "succeeded" /\ state' = state
        /\ upload' \in {upload, [upload EXCEPT ![m.job] = "deleted"]}
    BY <1>7 DEF CompleteAgain, SameCompletion
  <2>. QED  BY <1>0, <2>1 DEF Open
<1>8. ASSUME NEW m \in mail, Fail(m) PROVE Goal
  <2>1. m.job \in Job /\ state[m.job] = "running" /\ {} \in Held({m.job})
    BY <1>0, <1>8 DEF Fail, ActiveLease, Owned, Held
  <2>. QED  BY <1>2, <1>3, <1>8, <2>1 DEF Fail
<1>9. ASSUME NEW i \in Job, Reconcile(i) PROVE Goal
  BY <1>2, <1>3, <1>9 DEF Reconcile
<1>. QED  BY <1>1, <1>4, <1>5, <1>6, <1>7, <1>8, <1>9, OnlyTheseFreeUploads

(* No attempt finds its staged upload gone, and a failed job gives it back *)
(* (UploadKept).                                                           *)
THEOREM UploadsAreKept == Spec => []UploadKept
<1>1. Init => UploadKept
  BY DEF Init, UploadKept, Open
<1>. QED  BY <1>1, NextUploads, InvariantHolds, PTL DEF Spec

-----------------------------------------------------------------------------
(* Failures.                                                               *)

(* A report once sent and a job once refused stay so. *)
LEMMA ReasonsLast ==
  ASSUME [Next]_vars
  PROVE  refused \subseteq refused' /\ mail \subseteq mail'
<1>1. ASSUME NEW w \in Worker,
             \/ Report(w) \/ StartClaim(w) \/ TurnAway(w)
             \/ Claim(w) \/ ClaimNothing(w) \/ ClaimAgain(w)
             \/ StartBeat(w) \/ StartUpload(w) \/ EndUpload(w) \/ SetEnabled(w)
             \/ Abandon(w) \/ CrashWorker(w)
      PROVE  UNCHANGED <<refused, mail>>
  BY <1>1 DEF Report, StartClaim, TurnAway, Claim, ClaimNothing, ClaimAgain, StartBeat,
              StartUpload, EndUpload, SetEnabled, Abandon, CrashWorker, requests
<1>2. ASSUME NEW w \in Worker, SendComplete(w) \/ SendFail(w) \/ TimeOut(w)
      PROVE  refused' = refused /\ mail \subseteq mail'
  BY <1>2 DEF SendComplete, SendFail, TimeOut
<1>3. ASSUME NEW m \in mail, Complete(m) \/ CompleteAgain(m) \/ RefuseComplete(m) \/ Fail(m)
      PROVE  refused' = refused /\ mail \subseteq mail'
  BY <1>3 DEF Complete, CompleteAgain, RefuseComplete, Fail, requests
<1>4. ASSUME NEW j \in Job, Reconcile(j) \/ RefuseUrl(j)
      PROVE  refused \subseteq refused' /\ mail' = mail
  BY <1>4 DEF Reconcile, RefuseUrl, requests
<1>5. ASSUME Tick \/ UNCHANGED vars \/ \E b \in beats : EndBeat(b)
      PROVE  UNCHANGED <<refused, mail>>
  BY <1>5 DEF Tick, EndBeat, vars, requests
<1>. QED  BY <1>1, <1>2, <1>3, <1>4, <1>5 DEF Next

Reason(j) ==
  \/ attempts[j] = MaxAttempts
  \/ j \in refused
  \/ \E m \in mail : m.kind = "give_up" /\ m.job = j /\ m.token = token[j]

(* Whatever makes a job fail has found a reason. *)
LEMMA NoFailureWithoutReason ==
  ASSUME IInv, [Next]_vars, NEW j \in Job, state[j] # "failed", state'[j] = "failed"
  PROVE  Reason(j) /\ UNCHANGED <<attempts, token>>
<1>0. /\ state \in [Job -> Open \cup {"succeeded", "failed"}]
      /\ \A m \in mail : m.job \in Job /\ m.kind \in {"complete", "retry", "give_up"}
      /\ \A i \in Job : attempts[i] >= MaxAttempts => attempts[i] = MaxAttempts
  <2>1. \A i \in Job : attempts[i] \in Attempt \cup {0}
    BY DEF IInv, TypeOK
  <2>2. \A i \in Job : attempts[i] >= MaxAttempts => attempts[i] = MaxAttempts
    BY <2>1, Constants DEF Attempt
  <2>. QED  BY <2>2 DEF IInv, TypeOK, Mail
<1>1. ~Quiet
  BY DEF Quiet
<1>2. ASSUME NEW S, NEW held, FailJobs(S, held) PROVE j \in S /\ UNCHANGED <<attempts, token>>
  BY <1>2 DEF FailJobs
<1>3. ASSUME NEW i \in Job, Requeue(i) PROVE FALSE
  BY <1>0, <1>3 DEF Requeue
<1>4. ASSUME NEW w \in Worker, StartClaim(w) PROVE Reason(j) /\ UNCHANGED <<attempts, token>>
  <2>1. j \in {i \in Job : Exhausted(i)} \cup Rejected /\ UNCHANGED <<attempts, token>>
    BY <1>2, <1>4 DEF StartClaim
  <2>. QED  BY <1>0, <2>1 DEF Exhausted, Rejected, Reason
<1>5. ASSUME NEW w \in Worker, Claim(w) PROVE FALSE
  BY <1>0, <1>5, ClaimedJob
<1>6. ASSUME NEW m \in mail, Complete(m) PROVE FALSE
  BY <1>0, <1>6 DEF Complete
<1>7. ASSUME NEW m \in mail, Fail(m) PROVE Reason(j) /\ UNCHANGED <<attempts, token>>
  <2>1. /\ m.kind = "give_up" \/ (m.kind = "retry" /\ attempts[m.job] = MaxAttempts)
        /\ FailJobs({m.job}, {})
    <3>1. ~(m.kind = "retry" /\ attempts[m.job] < MaxAttempts)
      BY <1>0, <1>3, <1>7 DEF Fail
    <3>2. attempts[m.job] \in Attempt \cup {0}
      BY <1>0 DEF IInv, TypeOK
    <3>3. attempts[m.job] < MaxAttempts \/ attempts[m.job] = MaxAttempts
      BY <3>2, Constants DEF Attempt
    <3>. QED  BY <1>7, <3>1, <3>3 DEF Fail
  <2>2. m.job = j /\ UNCHANGED <<attempts, token>>
    BY <1>2, <2>1
  <2>3. m.token = token[j]
    BY <1>7, <2>2 DEF Fail, ActiveLease, Owned
  <2>. QED  BY <2>1, <2>2, <2>3 DEF Reason
<1>8. ASSUME NEW i \in Job, Reconcile(i) PROVE Reason(j) /\ UNCHANGED <<attempts, token>>
  <2>1. ~(attempts[i] < MaxAttempts) /\ \E held : FailJobs({i}, held)
    BY <1>3, <1>8 DEF Reconcile
  <2>2. attempts[i] \in Attempt \cup {0}
    BY DEF IInv, TypeOK
  <2>3. attempts[i] = MaxAttempts
    BY <2>1, <2>2, Constants DEF Attempt
  <2>4. i = j /\ UNCHANGED <<attempts, token>>
    BY <1>2, <2>1
  <2>. QED  BY <2>3, <2>4 DEF Reason
<1>. QED  BY <1>1, <1>4, <1>5, <1>6, <1>7, <1>8, OnlyTheseSettle

(* The attempts of a settled job are over. *)
LEMMA AttemptsOver ==
  ASSUME IInv, [Next]_vars, NEW j \in Job, state[j] \notin Open
  PROVE  attempts'[j] = attempts[j]
<1>1. attempts \in [Job -> Attempt \cup {0}]
  BY DEF IInv, TypeOK
<1>2. ASSUME NEW w \in Worker, Claim(w) PROVE attempts'[j] = attempts[j]
  BY <1>1, <1>2, ClaimedJob DEF Open
<1>. QED
  BY <1>2, OnlyTheseSettle
     DEF Quiet, StartClaim, FailJobs, Complete, Fail, Requeue, Reconcile

(* A job fails only for a reason a producer was told of: its attempts, its *)
(* URLs, or its own worker's word (FailedForAReason).                      *)
THEOREM FailuresHaveReasons == Spec => []FailedForAReason
<1>1. Init => FailedForAReason
  BY DEF Init, FailedForAReason
<1>2. IInv /\ FailedForAReason /\ [Next]_vars => FailedForAReason'
  <2> SUFFICES ASSUME IInv, FailedForAReason, [Next]_vars, NEW j \in Job, state'[j] = "failed"
               PROVE  \/ attempts'[j] = MaxAttempts
                      \/ j \in refused'
                      \/ \E m \in mail' : m.kind = "give_up" /\ m.job = j /\ m.token = token'[j]
    BY DEF FailedForAReason
  <2>1. Reason(j) /\ attempts'[j] = attempts[j] /\ token'[j] = token[j]
    <3>1. CASE state[j] = "failed"
      BY <3>1, SettledStep, AttemptsOver DEF FailedForAReason, Reason, Open
    <3>2. CASE state[j] # "failed"
      BY <3>2, NoFailureWithoutReason
    <3>. QED  BY <3>1, <3>2
  <2>. QED  BY <2>1, ReasonsLast DEF Reason
<1>. QED  BY <1>1, <1>2, InvariantHolds, PTL DEF Spec

-----------------------------------------------------------------------------
(* Capacity.  When nothing passes between the sample of the clock and the  *)
(* transaction, leases in force come from claims only.                     *)

LEMMA OnlyClaimsAddLeases ==
  ASSUME StaleTicks = 0, IInv, [Next]_vars, NEW v \in Worker,
         \A w \in Worker : ~Claim(w)
  PROVE  LiveLeases(v, 0)' \subseteq LiveLeases(v, 0)
<1> SUFFICES ASSUME NEW j \in Job, state'[j] = "running", assigned'[j] = v, lease'[j] + 0 > 0
             PROVE  state[j] = "running" /\ assigned[j] = v /\ lease[j] + 0 > 0
  BY DEF LiveLeases, LeaseLive
<1>. DEFINE Goal == state[j] = "running" /\ assigned[j] = v /\ lease[j] + 0 > 0
<1>0. /\ RowsOK /\ RequestsOK
      /\ \A b \in beats : b.job \in Job /\ b.age = 0
      /\ \A m \in mail : m.job \in Job
  <2>1. RowsOK /\ RequestsOK
    BY Parts
  <2>2. \A b \in beats : b.job \in Job /\ b.age \in 0 .. StaleTicks
    BY <2>1 DEF RequestsOK, Beat
  <2>. QED  BY <2>1, <2>2 DEF RequestsOK, Mail
<1>1. ASSUME NEW S, NEW held, FailJobs(S, held) PROVE Goal
  BY <1>1 DEF FailJobs, Without
<1>2. ASSUME NEW i \in Job, Requeue(i) PROVE Goal
  BY <1>0, <1>2 DEF Requeue, RowsOK
<1>3. ASSUME NEW w \in Worker, StartClaim(w) PROVE Goal
  BY <1>1, <1>3 DEF StartClaim
<1>4. ASSUME NEW b \in beats, EndBeat(b) PROVE Goal
  <2>1. UNCHANGED <<state, assigned>>
    BY <1>4 DEF EndBeat
  <2>2. CASE Publishes(b) /\ b.job = j
    BY <1>0, <2>1, <2>2 DEF Publishes, LeaseLive
  <2>3. CASE ~(Publishes(b) /\ b.job = j)
    BY <1>0, <1>4, <2>1, <2>3 DEF EndBeat, RowsOK
  <2>. QED  BY <2>2, <2>3
<1>5. ASSUME NEW m \in mail, Complete(m) PROVE Goal
  BY <1>0, <1>5 DEF Complete, RowsOK
<1>6. ASSUME NEW m \in mail, Fail(m) PROVE Goal
  BY <1>0, <1>1, <1>2, <1>6 DEF Fail
<1>7. ASSUME NEW i \in Job, Reconcile(i) PROVE Goal
  BY <1>1, <1>2, <1>7 DEF Reconcile
<1>8. CASE Tick
  <2>1. lease'[j] = lease[j] - 1 \/ lease'[j] = lease[j]
    BY <1>8 DEF Tick
  <2>2. lease[j] \in Int
    BY <1>0, Constants DEF RowsOK
  <2>. QED  BY <1>8, <2>1, <2>2 DEF Tick
<1>9. CASE Still /\ Quiet
  BY <1>9 DEF Still, Quiet
<1>. QED
  BY <1>3, <1>4, <1>5, <1>6, <1>7, <1>8, <1>9, OnlyTheseMoveLeases, OnlyTheseSettle

LEMMA NextCapacity ==
  ASSUME StaleTicks = 0
  PROVE  IInv /\ LeasesWithinCapacity /\ [Next]_vars => LeasesWithinCapacity'
<1> SUFFICES ASSUME IInv, LeasesWithinCapacity, [Next]_vars, NEW v \in Worker
             PROVE  Cardinality(LiveLeases(v, 0)') <= Concurrency
  BY DEF LeasesWithinCapacity
<1>. DEFINE L == LiveLeases(v, 0)
<1>0. /\ IsFiniteSet(L) /\ Cardinality(L) \in Nat /\ Cardinality(L) <= Concurrency
      /\ Concurrency \in Nat
  <2>1. L \subseteq Job
    BY DEF LiveLeases
  <2>2. IsFiniteSet(L)
    BY <2>1, FS_Subset, RemoteLeaseAssumption
  <2>. QED  BY <2>2, FS_CardinalityType, RemoteLeaseAssumption DEF LeasesWithinCapacity
<1>1. ASSUME L' \subseteq L PROVE Cardinality(L') <= Concurrency
  <2>1. Cardinality(L') \in Nat /\ Cardinality(L') <= Cardinality(L)
    BY <1>0, <1>1, FS_Subset, FS_CardinalityType
  <2>. QED  BY <1>0, <2>1
<1>2. ASSUME NEW w \in Worker, Claim(w) PROVE Cardinality(L') <= Concurrency
  <2>1. PICK j \in Winnable(w) :
          /\ state' = [state EXCEPT ![j] = "running"]
          /\ assigned' = [assigned EXCEPT ![j] = w]
          /\ lease' = [lease EXCEPT ![j] = LeaseTicks - scanAge[w]]
    BY <1>2 DEF Claim
  <2>2. j \in Job /\ RowsOK
    BY Parts DEF Winnable
  <2>3. \A i \in Job : i # j =>
          state'[i] = state[i] /\ assigned'[i] = assigned[i] /\ lease'[i] = lease[i]
    BY <2>1, <2>2 DEF RowsOK
  <2>4. CASE v # w
    <3>1. assigned'[j] = w
      BY <2>1, <2>2 DEF RowsOK
    <3>2. L' \subseteq L
      BY <2>3, <2>4, <3>1 DEF LiveLeases, LeaseLive
    <3>. QED  BY <1>1, <3>2
  <2>5. CASE v = w
    <3>1. L' \subseteq L \cup {j}
      BY <2>3 DEF LiveLeases, LeaseLive
    <3>2. scanAge[w] = 0
      BY Parts DEF RequestsOK
    <3>3. Cardinality(L) < Concurrency
      BY <1>2, <2>5, <3>2 DEF Claim, MayClaim
    <3>4. /\ IsFiniteSet(L \cup {j})
          /\ Cardinality(L \cup {j}) \in Nat /\ Cardinality(L \cup {j}) <= Cardinality(L) + 1
      <4>1. /\ IsFiniteSet(L \cup {j})
            /\ Cardinality(L \cup {j}) = IF j \in L THEN Cardinality(L) ELSE Cardinality(L) + 1
        BY <1>0, FS_AddElement, ZenonT(30)
      <4>. QED  BY <1>0, <4>1
    <3>5. Cardinality(L') \in Nat /\ Cardinality(L') <= Cardinality(L \cup {j})
      BY <3>1, <3>4, FS_Subset, FS_CardinalityType
    <3>. QED  BY <1>0, <3>3, <3>4, <3>5
  <2>. QED  BY <2>4, <2>5
<1>. QED  BY <1>1, <1>2, OnlyClaimsAddLeases

LEMMA InitCapacity == Init => LeasesWithinCapacity
<1> SUFFICES ASSUME Init, NEW w \in Worker PROVE Cardinality(LiveLeases(w, 0)) <= Concurrency
  BY DEF LeasesWithinCapacity
<1>1. LiveLeases(w, 0) = {}
  BY DEF Init, LiveLeases
<1>. QED  BY <1>1, FS_EmptySet, RemoteLeaseAssumption

(* No worker holds more leases in force than it has room for, provided no  *)
(* request waits for the write lock with an old sample of the clock        *)
(* (LeasesWithinCapacity; RemoteLateHeartbeat shows what such waits do).   *)
THEOREM CapacityOfWorkers ==
  ASSUME StaleTicks = 0
  PROVE  Spec => []LeasesWithinCapacity
  BY InitCapacity, NextCapacity, InvariantHolds, PTL DEF Spec

=============================================================================
