--------------------------- MODULE LaneScheduler ---------------------------
(***************************************************************************)
(* Cross-process admission of local inference (lane_scheduler.py).         *)
(*                                                                         *)
(* Every request that wants to run an STT, TTS or embedding model calls    *)
(* LaneScheduler.acquire: it leaves a waiter record on disk, polls until   *)
(* it is the first admissible waiter, swaps the waiter record for a holder *)
(* record, runs, and removes the holder record in release.  Requests are   *)
(* threads of several processes that share nothing but a directory; every  *)
(* access to it is made under one flock, which the kernel drops when its   *)
(* owner dies.  A critical section is therefore one step here, except that *)
(* a crash or a failing system call may cut it short.                      *)
(*                                                                         *)
(* A Token is one acquire call: the uuid4 it draws names its two records.  *)
(* A token may be drawn again once nothing mentions it any more, which     *)
(* stands for the fresh uuid of a later call.                              *)
(***************************************************************************)
EXTENDS Naturals, FiniteSets

CONSTANTS
  Token,                \* acquire calls
  Pid, NoPid,           \* process ids; the process of a call that is not in progress
  InteractiveSlots,     \* slots reserved for the interactive lane
  NonInteractiveSlots,  \* slots any lane may use
  Faults                \* what the environment may do, see Fault

(***************************************************************************)
(* pid_reuse:    a dead process's id is given to a new process.            *)
(* write_error:  writing or unlinking a record raises OSError.             *)
(* read_error:   reading a well-formed record raises OSError.              *)
(* legacy_claim: a process still running the single-slot release claims    *)
(*               holder.json while the new release runs beside it.         *)
(* orphan_child: an inference subprocess outlives the process it serves.   *)
(***************************************************************************)
Fault == {"pid_reuse", "write_error", "read_error", "legacy_claim", "orphan_child"}

ASSUME LaneSchedulerAssumption ==
  /\ IsFiniteSet(Token)
  /\ NoPid \notin Pid
  /\ InteractiveSlots \in Nat
  /\ NonInteractiveSlots \in Nat \ {0}
  /\ Faults \subseteq Fault

VARIABLES
  pc,            \* where each acquire call stands
  lane, pid,     \* the lane and process of a call, copied into its records
  older,         \* older[t]: the calls with a smaller (created_at, token) than t
  cancelled,     \* calls whose cancel_event is set and not yet seen by acquire
  waiters,       \* tokens with a well-formed waiters/<token>.json
  holders,       \* tokens with a well-formed holders/<token>.json
  tornWaiters,   \* tokens whose waiter file cannot be parsed
  tornHolders,   \* tokens whose holder file cannot be parsed
  legacy,        \* holder.json: absent, or of a live or a dead process
  live,          \* processes that exist
  retired,       \* process ids that have died at least once
  children       \* calls whose inference subprocess outlived their process

records == <<waiters, holders, tornWaiters, tornHolders, legacy>>
calls == <<lane, pid, older>>
vars == <<pc, calls, cancelled, records, live, retired, children>>

Lane == {"interactive", "non-interactive"}
PC == {"idle", "stamped", "queued", "polling", "leaving", "holding"}
InAcquire == {"stamped", "queued", "polling"}
TotalSlots == InteractiveSlots + NonInteractiveSlots

TypeOK ==
  /\ pc \in [Token -> PC]
  /\ lane \in [Token -> Lane]
  /\ pid \in [Token -> Pid \cup {NoPid}]
  /\ older \in [Token -> SUBSET Token]
  /\ cancelled \subseteq Token
  /\ waiters \subseteq Token /\ holders \subseteq Token
  /\ tornWaiters \subseteq Token /\ tornHolders \subseteq Token
  /\ legacy \in {"none", "live", "dead"}
  /\ live \subseteq Pid /\ retired \subseteq Pid
  /\ children \subseteq Token

(* The directory is empty, or a process of the previous release holds its  *)
(* single slot or has died holding it.                                     *)
Init ==
  /\ pc = [t \in Token |-> "idle"]
  /\ lane = [t \in Token |-> "interactive"]
  /\ pid = [t \in Token |-> NoPid]
  /\ older = [t \in Token |-> {}]
  /\ cancelled = {}
  /\ waiters = {} /\ holders = {} /\ tornWaiters = {} /\ tornHolders = {}
  /\ legacy \in {"none", "live", "dead"}
  /\ live = {} /\ retired = {}
  /\ children = {}

-----------------------------------------------------------------------------
(* Slots and queue order.                                                  *)

NonInteractive(S) == {t \in S : lane[t] = "non-interactive"}

LegacyCount(lg) == IF lg = "live" THEN 1 ELSE 0

(* Variant with a fault, for comparison only: the total cap is off by one. *)
AdmissibleOneTooMany(l, hs, lg) ==
  /\ Cardinality(hs) + LegacyCount(lg) <= TotalSlots
  /\ l = "non-interactive" =>
       Cardinality(NonInteractive(hs)) + LegacyCount(lg) < NonInteractiveSlots

(* Variant with a fault, for comparison only: the reservation is ignored. *)
AdmissibleInAnySlot(l, hs, lg) == Cardinality(hs) + LegacyCount(lg) < TotalSlots

IsAdmissible(l, hs, lg) ==
  /\ Cardinality(hs) + LegacyCount(lg) < TotalSlots
  /\ l = "non-interactive" =>
       Cardinality(NonInteractive(hs)) + LegacyCount(lg) < NonInteractiveSlots

(* u sorts before t: by lane priority, then created_at, then token. *)
Ahead(u, t) ==
  \/ lane[u] = "interactive" /\ lane[t] = "non-interactive"
  \/ lane[u] = lane[t] /\ u \in older[t]

(* Variant with a fault, for comparison only: whoever polls first is admitted. *)
SelectAnyWaiter(t, ws, hs, lg) == IsAdmissible(lane[t], hs, lg)

(* t is the first waiter of ws that the holders hs and holder.json admit. *)
SelectNextWaiter(t, ws, hs, lg) ==
  /\ IsAdmissible(lane[t], hs, lg)
  /\ ~\E u \in ws \ {t} : Ahead(u, t) /\ IsAdmissible(lane[u], hs, lg)

-----------------------------------------------------------------------------
(* One pass over the records: those of dead processes and those that do    *)
(* not parse are unlinked; a record that cannot be read counts as one that *)
(* does not parse.                                                         *)

(* Variant with a fault, for comparison only: old records are reclaimed too. *)
ReclaimedByAge(S) == SUBSET {t \in S : pid[t] \in live}

Reclaimed(S) ==
  LET alive == {t \in S : pid[t] \in live}
  IN  IF "read_error" \in Faults THEN SUBSET alive ELSE {alive}

ReclaimedLegacy ==
  IF legacy # "live" THEN {"none"}
  ELSE IF "read_error" \in Faults THEN {"live", "none"} ELSE {"live"}

-----------------------------------------------------------------------------
(* acquire                                                                 *)

(* Tokens a call, a record or a surviving subprocess still mentions. *)
Mentioned ==
  {t \in Token : pc[t] # "idle"} \cup waiters \cup holders \cup tornWaiters
    \cup tornHolders \cup children

(* Calls whose created_at is taken and whose waiter record may still count. *)
Ordered == {t \in Token : pc[t] \in InAcquire} \cup waiters

(* What no record can show any more is forgotten, so that equal situations  *)
(* are equal states.                                                        *)
Tidy ==
  /\ lane' = [t \in Token |-> IF t \in Mentioned' THEN lane[t] ELSE "interactive"]
  /\ pid' = [t \in Token |-> IF t \in Mentioned' THEN pid[t] ELSE NoPid]
  /\ older' = [t \in Token |-> IF t \in Ordered' THEN older[t] \cap Ordered' ELSE {}]
  /\ cancelled' = {t \in cancelled : pc'[t] \in InAcquire}

(* Variant with a fault, for comparison only: the lane name is taken as given. *)
StampUnnormalized(t, l, p) ==
  /\ t \notin Mentioned
  /\ p \in live
  /\ pc' = [pc EXCEPT ![t] = "stamped"]
  /\ lane' = [lane EXCEPT ![t] = "batch"]
  /\ pid' = [pid EXCEPT ![t] = p]
  /\ older' = [older EXCEPT ![t] = Ordered]
  /\ UNCHANGED <<cancelled, records, live, retired, children>>

(* A thread of process p calls acquire: token, pid and created_at are fixed *)
(* before the control lock is first taken.                                  *)
Stamp(t, l, p) ==
  /\ t \notin Mentioned
  /\ p \in live
  /\ pc' = [pc EXCEPT ![t] = "stamped"]
  /\ lane' = [lane EXCEPT ![t] = l]
  /\ pid' = [pid EXCEPT ![t] = p]
  /\ older' = [older EXCEPT ![t] = Ordered]
  /\ UNCHANGED <<cancelled, records, live, retired, children>>

Enqueue(t) ==
  /\ pc[t] = "stamped"
  /\ waiters' = waiters \cup {t}
  /\ pc' = [pc EXCEPT ![t] = "queued"]
  /\ UNCHANGED <<calls, cancelled, holders, tornWaiters, tornHolders, legacy,
                 live, retired, children>>

(* Writing the first waiter record raises: the caller gets the error, and   *)
(* the file is missing, cut short or, where only closing it failed, whole.  *)
EnqueueFails(t) ==
  /\ "write_error" \in Faults
  /\ pc[t] = "stamped"
  /\ \/ tornWaiters' \in {tornWaiters, tornWaiters \cup {t}} /\ UNCHANGED waiters
     \/ waiters' = waiters \cup {t} /\ UNCHANGED tornWaiters
  /\ pc' = [pc EXCEPT ![t] = "idle"]
  /\ UNCHANGED <<holders, tornHolders, legacy,
                 live, retired, children>>
  /\ Tidy

(* The check of cancel_event at the top of the loop, outside the lock. *)
CheckCancel(t) ==
  /\ pc[t] = "queued"
  /\ pc' = [pc EXCEPT ![t] = IF t \in cancelled THEN "leaving" ELSE "polling"]
  /\ UNCHANGED <<records, live, retired, children>>
  /\ Tidy

(* The pass every poll starts with; a caller whose own waiter record was    *)
(* taken away writes it again.  Another waiter comes first, or none fits.   *)
PollInVain(t) ==
  /\ pc[t] = "polling"
  /\ \E ws \in Reclaimed(waiters), hs \in Reclaimed(holders), lg \in ReclaimedLegacy :
       /\ ~SelectNextWaiter(t, ws \cup {t}, hs, lg)
       /\ waiters' = ws \cup {t}
       /\ holders' = hs
       /\ legacy' = lg
  /\ tornWaiters' = {} /\ tornHolders' = {}
  /\ pc' = [pc EXCEPT ![t] = "queued"]
  /\ UNCHANGED <<live, retired, children>>
  /\ Tidy

(* The caller is the first admissible waiter and becomes a holder. *)
Admit(t) ==
  /\ pc[t] = "polling"
  /\ \E ws \in Reclaimed(waiters), hs \in Reclaimed(holders), lg \in ReclaimedLegacy :
       /\ SelectNextWaiter(t, ws \cup {t}, hs, lg)
       /\ waiters' = ws \ {t}
       /\ holders' = hs \cup {t}
       /\ legacy' = lg
  /\ tornWaiters' = {} /\ tornHolders' = {}
  /\ pc' = [pc EXCEPT ![t] = "holding"]
  /\ UNCHANGED <<live, retired, children>>
  /\ Tidy

(* The holder record is not, or only partly, written, or it is written and *)
(* the waiter record cannot be unlinked: acquire raises.                   *)
AdmitFails(t) ==
  /\ "write_error" \in Faults
  /\ pc[t] = "polling"
  /\ \E ws \in Reclaimed(waiters), hs \in Reclaimed(holders), lg \in ReclaimedLegacy :
       /\ SelectNextWaiter(t, ws \cup {t}, hs, lg)
       /\ waiters' = ws \cup {t}
       /\ \/ holders' = hs /\ tornHolders' \in {{}, {t}}
          \/ holders' = hs \cup {t} /\ tornHolders' = {}
       /\ legacy' = lg
  /\ tornWaiters' = {}
  /\ pc' = [pc EXCEPT ![t] = "leaving"]
  /\ UNCHANGED <<live, retired, children>>
  /\ Tidy

(* The control lock cannot be taken, or a record of another call cannot be  *)
(* unlinked: acquire raises.                                                *)
PollFails(t) ==
  /\ "write_error" \in Faults
  /\ pc[t] = "polling"
  /\ pc' = [pc EXCEPT ![t] = "leaving"]
  /\ UNCHANGED <<records, live, retired, children>>
  /\ Tidy

(* Variant with a fault, for comparison only: no finally block. *)
LeaveRecord(t) ==
  /\ pc[t] = "leaving"
  /\ pc' = [pc EXCEPT ![t] = "idle"]
  /\ UNCHANGED <<records, live, retired, children>>
  /\ Tidy

(* The finally block of a call that was not admitted. *)
Leave(t) ==
  /\ pc[t] = "leaving"
  /\ \/ waiters' = waiters \ {t} /\ tornWaiters' = tornWaiters \ {t}
     \/ "write_error" \in Faults /\ UNCHANGED <<waiters, tornWaiters>>
  /\ pc' = [pc EXCEPT ![t] = "idle"]
  /\ UNCHANGED <<holders, tornHolders, legacy, live, retired, children>>
  /\ Tidy

(* release, in the finally block of admit_local_inference. *)
Release(t) ==
  /\ pc[t] = "holding"
  /\ \/ holders' = holders \ {t} /\ tornHolders' = tornHolders \ {t}
     \/ "write_error" \in Faults /\ UNCHANGED <<holders, tornHolders>>
  /\ pc' = [pc EXCEPT ![t] = "idle"]
  /\ UNCHANGED <<waiters, tornWaiters, legacy, live, retired, children>>
  /\ Tidy

-----------------------------------------------------------------------------
(* The environment.                                                        *)

(* The client disconnects while its request is queued. *)
Cancel(t) ==
  /\ pc[t] \in InAcquire
  /\ cancelled' = cancelled \cup {t}
  /\ UNCHANGED <<pc, calls, records, live, retired, children>>

StartProcess(p) ==
  /\ p \notin live
  /\ p \in retired => "pid_reuse" \in Faults
  /\ live' = live \cup {p}
  /\ UNCHANGED <<pc, calls, cancelled, records, retired, children>>

(* The threads of p vanish with it; their records stay, and so may the      *)
(* subprocesses of those that were running an inference.                    *)
Die(p) ==
  /\ p \in live
  /\ live' = live \ {p}
  /\ retired' = retired \cup {p}
  /\ pc' = [t \in Token |-> IF pid[t] = p THEN "idle" ELSE pc[t]]
  /\ \E orphans \in SUBSET {t \in Token : pid[t] = p /\ pc[t] = "holding"} :
       /\ orphans # {} => "orphan_child" \in Faults
       /\ children' = children \cup orphans

Crash(p) == Die(p) /\ UNCHANGED records /\ Tidy

(* The process dies inside the write of a waiter record. *)
CrashInEnqueue(t) ==
  /\ pc[t] = "stamped"
  /\ Die(pid[t])
  /\ tornWaiters' = tornWaiters \cup {t}
  /\ UNCHANGED <<waiters, holders, tornHolders, legacy>>
  /\ Tidy

(* The process dies between the two halves of an admission: the holder      *)
(* record is cut short or complete, the waiter record still there.          *)
CrashInAdmit(t) ==
  /\ pc[t] = "polling"
  /\ Die(pid[t])
  /\ \E ws \in Reclaimed(waiters), hs \in Reclaimed(holders), lg \in ReclaimedLegacy :
       /\ SelectNextWaiter(t, ws \cup {t}, hs, lg)
       /\ waiters' = ws \cup {t}
       /\ \/ holders' = hs /\ tornHolders' = {t}
          \/ holders' = hs \cup {t} /\ tornHolders' = {}
       /\ legacy' = lg
  /\ tornWaiters' = {}
  /\ Tidy

(* A subprocess that outlived its process comes to its end. *)
ChildExits(t) ==
  /\ t \in children
  /\ children' = children \ {t}
  /\ UNCHANGED <<pc, records, live, retired>>
  /\ Tidy

(* The single-slot release, which sees holder.json and nothing else. *)
LegacyStep ==
  /\ \/ legacy = "live" /\ legacy' \in {"none", "dead"}
     \/ "legacy_claim" \in Faults /\ legacy # "live" /\ legacy' = "live"
     \/ "pid_reuse" \in Faults /\ legacy = "dead" /\ legacy' = "live"
  /\ UNCHANGED <<pc, calls, cancelled, waiters, holders, tornWaiters, tornHolders,
                 live, retired, children>>

Next ==
  \/ \E t \in Token, l \in Lane, p \in Pid : Stamp(t, l, p)
  \/ \E t \in Token :
       \/ Enqueue(t) \/ EnqueueFails(t) \/ CheckCancel(t)
       \/ PollInVain(t) \/ PollFails(t) \/ Admit(t) \/ AdmitFails(t)
       \/ Leave(t) \/ Release(t)
       \/ Cancel(t) \/ CrashInEnqueue(t) \/ CrashInAdmit(t) \/ ChildExits(t)
  \/ \E p \in Pid : StartProcess(p) \/ Crash(p)
  \/ LegacyStep

Spec == Init /\ [][Next]_vars

(***************************************************************************)
(* A thread that is in acquire keeps running until its process dies: the   *)
(* loop sleeps 50 ms between polls, and flock blocks only for the short    *)
(* critical sections of others.  An admitted inference ends, and so does   *)
(* the one of the previous release.                                        *)
(***************************************************************************)
Fairness ==
  /\ \A t \in Token :
       /\ WF_vars(Enqueue(t))
       /\ WF_vars(CheckCancel(t))
       /\ WF_vars(PollInVain(t) \/ Admit(t))
       /\ WF_vars(Leave(t))
       /\ WF_vars(Release(t))
  /\ WF_vars(LegacyStep)

FairSpec == Spec /\ Fairness

-----------------------------------------------------------------------------
(* Properties.                                                             *)

Holding == {t \in Token : pc[t] = "holding"}
Waiting == {t \in Token : pc[t] \in {"queued", "polling"}}
MixedVersionSlack == IF "legacy_claim" \in Faults THEN 1 ELSE 0

(* Admitted inferences, with the one a process of the previous release may  *)
(* be running, never exceed the slots; they do so by one at most while that *)
(* release still claims holder.json (README.md "Deploy note").              *)
CapacityRespected ==
  /\ Cardinality(Holding) <= TotalSlots
  /\ Cardinality(Holding) + LegacyCount(legacy) <= TotalSlots + MixedVersionSlack

(* Non-interactive inferences never occupy a reserved slot, whatever was    *)
(* leaked, torn or reclaimed before.                                        *)
ReservationRespected ==
  /\ Cardinality(NonInteractive(Holding)) <= NonInteractiveSlots
  /\ Cardinality(NonInteractive(Holding)) + LegacyCount(legacy)
       <= NonInteractiveSlots + MixedVersionSlack

(* Nobody's cleanup takes the record of a running inference away: it is     *)
(* counted until its own release, however old it is (_reclaim_holder).      *)
HoldersStayRecorded ==
  \A t \in Holding : t \in holders /\ pid[t] \in live

(* While writes succeed and ids are not reused, a waiter or holder record   *)
(* of a live process always has its call behind it, so no slot and no place *)
(* in the queue is lost to a call that is gone.                             *)
NoGhostRecords ==
  /\ \A t \in waiters : pid[t] \in live => pc[t] \in {"queued", "polling", "leaving"}
  /\ \A t \in holders : pid[t] \in live => pc[t] = "holding"

(* A request is admitted only if no request before it in the queue, counted *)
(* by the callers that wait and not by their records, could have been.      *)
NoOvertaking ==
  [][\A t \in Token : pc[t] # "holding" /\ pc'[t] = "holding" =>
       \A u \in Waiting \ {t} :
         Ahead(u, t) => ~IsAdmissible(lane[u], holders' \ {t}, legacy')]_vars

(* A waiting interactive request is eventually admitted, or leaves because  *)
(* it was cancelled or its process died.                                    *)
InteractiveServed ==
  \A t \in Token :
    t \in Waiting /\ lane[t] = "interactive" ~> t \notin Waiting

(* Only interactive requests can hold up a non-interactive one for ever.    *)
NonInteractiveServed ==
  \A t \in Token :
    t \in Waiting ~> (t \notin Waiting \/ \E u \in Token : pc[u] # "idle" /\ lane[u] = "interactive")

(* README.md "cap how many non-interactive inferences run at once", counted *)
(* by the inferences themselves, subprocesses that outlived their process   *)
(* included.                                                                *)
InferencesCapped ==
  Cardinality(NonInteractive(Holding \cup children)) <= NonInteractiveSlots

-----------------------------------------------------------------------------
(* The abstract view: a call asks from its first step on, and runs while it *)
(* holds.                                                                   *)

AskingIn(l) == {t \in Token : pc[t] \in InAcquire \cup {"leaving"} /\ lane[t] = l}
RunningIn(l) == {t \in Holding : lane[t] = l}

Admission == INSTANCE LaneAdmission WITH
  asking <- [l \in Lane |-> AskingIn(l)],
  running <- [l \in Lane |-> RunningIn(l)]

(* Every step of the scheduler is an admission that fits the slots, the end *)
(* of calls, or invisible to callers.                                       *)
ImplementsAdmission == Admission!Spec

=============================================================================
