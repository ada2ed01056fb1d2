---------------------------- MODULE JobLifecycle ----------------------------
(***************************************************************************)
(* What a producer may see of its jobs, whoever runs them: a job waits, is *)
(* attempted a bounded number of times, and ends once, with the result of  *)
(* its latest attempt or with a failure.                                   *)
(***************************************************************************)
EXTENDS Naturals

CONSTANTS Job, MaxAttempts

VARIABLES
  state,
  attempts,   \* attempts started so far
  result      \* the attempt whose result the job shows, or 0

vars == <<state, attempts, result>>

Init ==
  /\ state = [j \in Job |-> "queued"]
  /\ attempts = [j \in Job |-> 0]
  /\ result = [j \in Job |-> 0]

(* A new attempt, also in place of one that is given up. *)
Attempt(j) ==
  /\ state[j] \in {"queued", "running"}
  /\ attempts[j] < MaxAttempts
  /\ state' = [state EXCEPT ![j] = "running"]
  /\ attempts' = [attempts EXCEPT ![j] = @ + 1]
  /\ UNCHANGED result

GiveBack(j) ==
  /\ state[j] = "running"
  /\ attempts[j] < MaxAttempts
  /\ state' = [state EXCEPT ![j] = "queued"]
  /\ UNCHANGED <<attempts, result>>

Succeed(j) ==
  /\ state[j] = "running"
  /\ state' = [state EXCEPT ![j] = "succeeded"]
  /\ result' = [result EXCEPT ![j] = attempts[j]]
  /\ UNCHANGED attempts

(* Several jobs may be found hopeless at once. *)
Fail(S) ==
  /\ \A j \in S : state[j] \in {"queued", "running"}
  /\ state' = [j \in Job |-> IF j \in S THEN "failed" ELSE state[j]]
  /\ UNCHANGED <<attempts, result>>

Next ==
  \/ \E j \in Job : Attempt(j) \/ GiveBack(j) \/ Succeed(j)
  \/ \E S \in SUBSET Job : Fail(S)

Spec == Init /\ [][Next]_vars

=============================================================================
