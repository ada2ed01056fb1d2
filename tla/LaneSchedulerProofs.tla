------------------------ MODULE LaneSchedulerProofs ------------------------
(***************************************************************************)
(* Proofs about LaneScheduler for any number of calls, processes and slots.*)
(* What other modules promise about slots holds while a record that is on  *)
(* disk can be read ("read_error" is not among the faults); every other    *)
(* fault is allowed.                                                       *)
(***************************************************************************)
EXTENDS LaneScheduler, FiniteSetTheorems, TLAPS

-----------------------------------------------------------------------------
(* Type correctness.                                                       *)

LEMMA InitTypeOK == Init => TypeOK
  BY DEF Init, TypeOK, PC, Lane

(* What a pass over the records may return. *)
LEMMA ReclaimedSubset ==
  ASSUME NEW S, NEW R \in Reclaimed(S)
  PROVE  R \subseteq {t \in S : pid[t] \in live}
  BY DEF Reclaimed

LEMMA ReclaimedLegacyValues ==
  ASSUME NEW lg \in ReclaimedLegacy
  PROVE  lg \in {"none", "live"} /\ (lg = "live" => legacy = "live")
  BY DEF ReclaimedLegacy

LEMMA TidyTypeOK ==
  ASSUME TypeOK, Tidy
  PROVE  /\ lane' \in [Token -> Lane]
         /\ pid' \in [Token -> Pid \cup {NoPid}]
         /\ older' \in [Token -> SUBSET Token]
         /\ cancelled' \subseteq Token
  <1>1. lane' \in [Token -> Lane]
    BY DEF TypeOK, Tidy, Lane
  <1>2. pid' \in [Token -> Pid \cup {NoPid}]
    BY DEF TypeOK, Tidy
  <1>3. older' \in [Token -> SUBSET Token]
    BY DEF TypeOK, Tidy
  <1>4. cancelled' \subseteq Token
    BY DEF TypeOK, Tidy
  <1>. QED  BY <1>1, <1>2, <1>3, <1>4

LEMMA DieTypeOK ==
  ASSUME TypeOK, NEW p, Die(p), p \in Pid
  PROVE  /\ pc' \in [Token -> PC]
         /\ live' \subseteq Pid /\ retired' \subseteq Pid
         /\ children' \subseteq Token
  BY DEF TypeOK, Die, PC

LEMMA NextTypeOK == TypeOK /\ [Next]_vars => TypeOK'
<1> SUFFICES ASSUME TypeOK, [Next]_vars PROVE TypeOK'
  OBVIOUS
<1>1. ASSUME NEW t \in Token, NEW l \in Lane, NEW p \in Pid, Stamp(t, l, p)
      PROVE  TypeOK'
  <2>1. Ordered \subseteq Token
    BY DEF Ordered, TypeOK
  <2>. QED  BY <1>1, <2>1 DEF TypeOK, Stamp, PC, records
<1>2. ASSUME NEW t \in Token, Enqueue(t) PROVE TypeOK'
  BY <1>2 DEF TypeOK, Enqueue, PC, calls
<1>3. ASSUME NEW t \in Token, EnqueueFails(t) PROVE TypeOK'
  BY <1>3, TidyTypeOK DEF TypeOK, EnqueueFails, PC
<1>4. ASSUME NEW t \in Token, CheckCancel(t) PROVE TypeOK'
  BY <1>4, TidyTypeOK DEF TypeOK, CheckCancel, PC, records
<1>5. ASSUME NEW t \in Token, PollInVain(t) PROVE TypeOK'
  BY <1>5, TidyTypeOK, ReclaimedSubset, ReclaimedLegacyValues DEF TypeOK, PollInVain, PC
<1>6. ASSUME NEW t \in Token, PollFails(t) PROVE TypeOK'
  BY <1>6, TidyTypeOK DEF TypeOK, PollFails, PC, records
<1>7. ASSUME NEW t \in Token, Admit(t) PROVE TypeOK'
  BY <1>7, TidyTypeOK, ReclaimedSubset, ReclaimedLegacyValues DEF TypeOK, Admit, PC
<1>8. ASSUME NEW t \in Token, AdmitFails(t) PROVE TypeOK'
  BY <1>8, TidyTypeOK, ReclaimedSubset, ReclaimedLegacyValues DEF TypeOK, AdmitFails, PC
<1>9. ASSUME NEW t \in Token, Leave(t) PROVE TypeOK'
  BY <1>9, TidyTypeOK DEF TypeOK, Leave, PC
<1>10. ASSUME NEW t \in Token, Release(t) PROVE TypeOK'
  BY <1>10, TidyTypeOK DEF TypeOK, Release, PC
<1>11. ASSUME NEW t \in Token, Cancel(t) PROVE TypeOK'
  BY <1>11 DEF TypeOK, Cancel, calls, records
<1>12. ASSUME NEW t \in Token, CrashInEnqueue(t) PROVE TypeOK'
  <2>1. pid[t] \in Pid
    BY <1>12 DEF CrashInEnqueue, Die, TypeOK
  <2>. QED  BY <1>12, <2>1, TidyTypeOK, DieTypeOK DEF TypeOK, CrashInEnqueue
<1>13. ASSUME NEW t \in Token, CrashInAdmit(t) PROVE TypeOK'
  <2>1. pid[t] \in Pid
    BY <1>13 DEF CrashInAdmit, Die, TypeOK
  <2>2. /\ waiters' \subseteq Token /\ holders' \subseteq Token
        /\ tornWaiters' \subseteq Token /\ tornHolders' \subseteq Token
        /\ legacy' \in {"none", "live", "dead"}
    BY <1>13, ReclaimedSubset, ReclaimedLegacyValues DEF TypeOK, CrashInAdmit
  <2>3. Die(pid[t]) /\ Tidy
    BY <1>13 DEF CrashInAdmit
  <2>. QED  BY <2>1, <2>2, <2>3, TidyTypeOK, DieTypeOK DEF TypeOK
<1>14. ASSUME NEW t \in Token, ChildExits(t) PROVE TypeOK'
  BY <1>14, TidyTypeOK DEF TypeOK, ChildExits, records
<1>15. ASSUME NEW p \in Pid, StartProcess(p) PROVE TypeOK'
  BY <1>15 DEF TypeOK, StartProcess, calls, records
<1>16. ASSUME NEW p \in Pid, Crash(p) PROVE TypeOK'
  BY <1>16, TidyTypeOK, DieTypeOK DEF TypeOK, Crash, records
<1>17. ASSUME LegacyStep PROVE TypeOK'
  BY <1>17 DEF TypeOK, LegacyStep, calls
<1>18. ASSUME UNCHANGED vars PROVE TypeOK'
  BY <1>18 DEF TypeOK, vars, calls, records
<1>. QED
  BY <1>1, <1>2, <1>3, <1>4, <1>5, <1>6, <1>7, <1>8, <1>9, <1>10, <1>11,
     <1>12, <1>13, <1>14, <1>15, <1>16, <1>17, <1>18 DEF Next

(* Every record and every call of the scheduler stays well-typed, whatever *)
(* fails.                                                                  *)
THEOREM TypeCorrect == Spec => []TypeOK
  BY InitTypeOK, NextTypeOK, PTL DEF Spec

-----------------------------------------------------------------------------
(* The records on disk fit the slots.                                      *)

Occupied == IF legacy = "none" THEN 0 ELSE 1

RecordsFit ==
  /\ Cardinality(holders) <= TotalSlots
  /\ Cardinality(holders) + Occupied <= TotalSlots + MixedVersionSlack
  /\ Cardinality(NonInteractive(holders)) <= NonInteractiveSlots
  /\ Cardinality(NonInteractive(holders)) + Occupied
       <= NonInteractiveSlots + MixedVersionSlack

LEMMA SlotsAreNat ==
  /\ NonInteractiveSlots \in Nat /\ NonInteractiveSlots > 0
  /\ TotalSlots \in Nat /\ NonInteractiveSlots <= TotalSlots
  /\ MixedVersionSlack \in {0, 1}
  BY LaneSchedulerAssumption DEF TotalSlots, MixedVersionSlack

LEMMA SubsetCardinality ==
  ASSUME NEW S, NEW R, S \subseteq Token, R \subseteq S
  PROVE  /\ IsFiniteSet(S) /\ IsFiniteSet(R)
         /\ Cardinality(S) \in Nat /\ Cardinality(R) \in Nat
         /\ Cardinality(R) <= Cardinality(S)
  <1>1. IsFiniteSet(S)
    BY FS_Subset, LaneSchedulerAssumption
  <1>2. IsFiniteSet(R) /\ Cardinality(R) <= Cardinality(S)
    BY <1>1, FS_Subset
  <1>. QED  BY <1>1, <1>2, FS_CardinalityType

LEMMA AddCardinality ==
  ASSUME NEW S, NEW t, S \subseteq Token
  PROVE  /\ Cardinality(S) \in Nat
         /\ Cardinality(S \cup {t}) \in Nat
         /\ Cardinality(S \cup {t}) <= Cardinality(S) + 1
  <1>1. IsFiniteSet(S) /\ Cardinality(S) \in Nat
    BY SubsetCardinality
  <1>2. /\ IsFiniteSet(S \cup {t})
        /\ Cardinality(S \cup {t}) = IF t \in S THEN Cardinality(S) ELSE Cardinality(S) + 1
    BY <1>1, FS_AddElement
  <1>3. Cardinality(S \cup {t}) <= Cardinality(S) + 1
    BY <1>1, <1>2
  <1>. QED  BY <1>1, <1>2, <1>3, FS_CardinalityType

(* A call keeps its lane and process for as long as anything mentions it. *)
LEMMA TidyKeepsCalls ==
  ASSUME Tidy
  PROVE  \A t \in Token : t \in holders' \/ pc'[t] # "idle" =>
           lane'[t] = lane[t] /\ pid'[t] = pid[t]
  BY DEF Tidy, Mentioned

(* Losing holder records, or holder.json, cannot overbook the slots. *)
LEMMA RecordsShrink ==
  ASSUME TypeOK, RecordsFit,
         holders' \subseteq holders,
         \A t \in holders' : lane'[t] = lane[t],
         legacy' = "none" \/ legacy # "none"
  PROVE  RecordsFit'
  <1>. DEFINE NI == NonInteractive(holders)
  <1>1. holders \subseteq Token /\ NI \subseteq Token
    BY DEF TypeOK, NonInteractive
  <1>2. NI' \subseteq NI
    BY DEF NonInteractive
  <1>3. Cardinality(holders') <= Cardinality(holders)
        /\ Cardinality(holders) \in Nat /\ Cardinality(holders') \in Nat
    BY <1>1, SubsetCardinality
  <1>4. Cardinality(NI') <= Cardinality(NI)
        /\ Cardinality(NI) \in Nat /\ Cardinality(NI') \in Nat
    BY <1>1, <1>2, SubsetCardinality
  <1>5. Occupied' <= Occupied /\ Occupied \in Nat /\ Occupied' \in Nat
    BY DEF Occupied
  <1>. HIDE DEF NI
  <1>6. /\ Cardinality(holders) <= TotalSlots
        /\ Cardinality(holders) + Occupied <= TotalSlots + MixedVersionSlack
        /\ Cardinality(NI) <= NonInteractiveSlots
        /\ Cardinality(NI) + Occupied <= NonInteractiveSlots + MixedVersionSlack
    BY DEF RecordsFit, NI
  <1>7. /\ Cardinality(holders') <= TotalSlots
        /\ Cardinality(holders') + Occupied' <= TotalSlots + MixedVersionSlack
        /\ Cardinality(NI') <= NonInteractiveSlots
        /\ Cardinality(NI') + Occupied' <= NonInteractiveSlots + MixedVersionSlack
    BY <1>3, <1>4, <1>5, <1>6, SlotsAreNat
  <1>8. TotalSlots' = TotalSlots /\ MixedVersionSlack' = MixedVersionSlack
    BY DEF TotalSlots, MixedVersionSlack
  <1>. QED  BY <1>7, <1>8 DEF RecordsFit, NI

(* A holder record is added only for a call the records still there admit. *)
LEMMA RecordsGrow ==
  ASSUME TypeOK, RecordsFit,
         NEW hs, hs \subseteq holders, NEW t \in Token, NEW lg \in {"none", "live"},
         lg = "live" => legacy = "live",
         IsAdmissible(lane[t], hs, lg),
         holders' = hs \cup {t}, legacy' = lg,
         \A u \in holders' : lane'[u] = lane[u]
  PROVE  RecordsFit'
  <1>. DEFINE NI == NonInteractive(hs)
              NI2 == {u \in hs \cup {t} : lane[u] = "non-interactive"}
  <1>1. hs \subseteq Token /\ NI \subseteq Token /\ NI2 \subseteq Token
    BY DEF TypeOK, NonInteractive
  <1>2. NonInteractive(holders)' = NI2
    BY DEF NonInteractive
  <1>3. Occupied' = LegacyCount(lg) /\ LegacyCount(lg) \in {0, 1}
    BY DEF Occupied, LegacyCount
  <1>4. Cardinality(hs \cup {t}) + LegacyCount(lg) <= TotalSlots
    <2>1. Cardinality(hs) + LegacyCount(lg) < TotalSlots
      BY DEF IsAdmissible
    <2>2. /\ Cardinality(hs) \in Nat /\ Cardinality(hs \cup {t}) \in Nat
          /\ Cardinality(hs \cup {t}) <= Cardinality(hs) + 1
      BY <1>1, AddCardinality
    <2>. QED  BY <2>1, <2>2, <1>3, SlotsAreNat
  <1>5. Cardinality(NI2) + LegacyCount(lg) <= NonInteractiveSlots + MixedVersionSlack
        /\ Cardinality(NI2) <= NonInteractiveSlots
    <2>1. CASE lane[t] = "non-interactive"
      <3>1. Cardinality(NI) + LegacyCount(lg) < NonInteractiveSlots
        BY <2>1 DEF IsAdmissible
      <3>2. NI2 = NI \cup {t}
        BY <2>1 DEF NonInteractive
      <3>3. /\ Cardinality(NI) \in Nat /\ Cardinality(NI2) \in Nat
            /\ Cardinality(NI2) <= Cardinality(NI) + 1
        BY <3>2, <1>1, AddCardinality
      <3>. HIDE DEF NI, NI2
      <3>. QED  BY <3>1, <3>3, <1>3, SlotsAreNat
    <2>2. CASE lane[t] # "non-interactive"
      <3>1. NI2 \subseteq NonInteractive(holders) /\ NonInteractive(holders) \subseteq Token
        BY <2>2 DEF NonInteractive, TypeOK
      <3>2. /\ Cardinality(NI2) \in Nat /\ Cardinality(NonInteractive(holders)) \in Nat
            /\ Cardinality(NI2) <= Cardinality(NonInteractive(holders))
        BY <3>1, SubsetCardinality
      <3>3. LegacyCount(lg) <= Occupied /\ Occupied \in Nat
        BY DEF LegacyCount, Occupied
      <3>4. /\ Cardinality(NonInteractive(holders)) <= NonInteractiveSlots
            /\ Cardinality(NonInteractive(holders)) + Occupied
                 <= NonInteractiveSlots + MixedVersionSlack
        BY DEF RecordsFit
      <3>. HIDE DEF NI2
      <3>. QED  BY <3>2, <3>3, <3>4, <1>3, SlotsAreNat
    <2>. QED  BY <2>1, <2>2
  <1>6. Cardinality(hs \cup {t}) \in Nat
    BY <1>1, AddCardinality
  <1>7. TotalSlots' = TotalSlots /\ MixedVersionSlack' = MixedVersionSlack
    BY DEF TotalSlots, MixedVersionSlack
  <1>8. /\ Cardinality(hs \cup {t}) <= TotalSlots
        /\ Cardinality(hs \cup {t}) + LegacyCount(lg) <= TotalSlots + MixedVersionSlack
    BY <1>3, <1>4, <1>6, SlotsAreNat
  <1>. HIDE DEF NI2
  <1>. QED  BY <1>2, <1>3, <1>5, <1>7, <1>8 DEF RecordsFit

(* holder.json claimed again by the previous release exceeds the slots by   *)
(* one, no more.                                                            *)
LEMMA RecordsLegacy ==
  ASSUME TypeOK, RecordsFit, LegacyStep
  PROVE  RecordsFit'
  <1>1. CASE legacy # "none" \/ legacy' = "none"
    <2>1. holders' = holders /\ lane' = lane
      BY DEF LegacyStep, calls
    <2>. QED  BY <1>1, <2>1, RecordsShrink
  <1>2. CASE legacy = "none" /\ legacy' # "none"
    <2>1. "legacy_claim" \in Faults /\ holders' = holders /\ lane' = lane
      BY <1>2 DEF LegacyStep, calls
    <2>2. MixedVersionSlack = 1 /\ MixedVersionSlack' = 1 /\ Occupied' = 1
      BY <1>2, <2>1 DEF MixedVersionSlack, Occupied
    <2>3. NonInteractive(holders)' = NonInteractive(holders) /\ TotalSlots' = TotalSlots
      BY <2>1 DEF NonInteractive, TotalSlots
    <2>4. Cardinality(holders) \in Nat /\ Cardinality(NonInteractive(holders)) \in Nat
      BY SubsetCardinality DEF TypeOK, NonInteractive
    <2>5. Cardinality(holders) + 1 <= TotalSlots + 1
          /\ Cardinality(NonInteractive(holders)) + 1 <= NonInteractiveSlots + 1
      BY <2>4, SlotsAreNat DEF RecordsFit
    <2>. QED  BY <2>1, <2>2, <2>3, <2>5 DEF RecordsFit
  <1>. QED  BY <1>1, <1>2

LEMMA InitRecordsFit == Init => RecordsFit
  <1> SUFFICES ASSUME Init PROVE RecordsFit
    OBVIOUS
  <1>1. Cardinality({}) = 0
    BY FS_EmptySet
  <1>2. holders = {} /\ NonInteractive(holders) = {}
    BY DEF Init, NonInteractive
  <1>3. Occupied \in {0, 1}
    BY DEF Occupied
  <1>. QED  BY <1>1, <1>2, <1>3, SlotsAreNat DEF RecordsFit

LEMMA NextRecordsFit == TypeOK /\ RecordsFit /\ [Next]_vars => RecordsFit'
<1> SUFFICES ASSUME TypeOK, RecordsFit, [Next]_vars PROVE RecordsFit'
  OBVIOUS
<1>1. ASSUME NEW t \in Token, NEW l \in Lane, NEW p \in Pid, Stamp(t, l, p)
      PROVE  RecordsFit'
  <2>1. holders' = holders /\ legacy' = legacy
    BY <1>1 DEF Stamp, records
  <2>2. \A u \in holders : lane'[u] = lane[u]
    BY <1>1 DEF Stamp, Mentioned, TypeOK
  <2>. QED  BY <2>1, <2>2, RecordsShrink
<1>2. ASSUME UNCHANGED <<holders, legacy, lane>> PROVE RecordsFit'
  BY <1>2, RecordsShrink
<1>3. ASSUME Tidy, holders' \subseteq holders, legacy' = "none" \/ legacy # "none"
      PROVE  RecordsFit'
  <2>1. \A u \in holders' : lane'[u] = lane[u]
    BY <1>3, TidyKeepsCalls DEF TypeOK
  <2>. QED  BY <1>3, <2>1, RecordsShrink
<1>4. ASSUME NEW t \in Token, NEW ws, NEW hs \in Reclaimed(holders), NEW lg \in ReclaimedLegacy,
             SelectNextWaiter(t, ws, hs, lg), Tidy,
             holders' = hs \cup {t}, legacy' = lg
      PROVE  RecordsFit'
  <2>1. hs \subseteq holders /\ lg \in {"none", "live"} /\ (lg = "live" => legacy = "live")
    BY ReclaimedSubset, ReclaimedLegacyValues
  <2>2. \A u \in holders' : lane'[u] = lane[u]
    BY <1>4, <2>1, TidyKeepsCalls DEF TypeOK
  <2>3. IsAdmissible(lane[t], hs, lg)
    BY <1>4 DEF SelectNextWaiter
  <2>. QED  BY <1>4, <2>1, <2>2, <2>3, RecordsGrow
<1>5. ASSUME NEW t \in Token,
             Enqueue(t) \/ Cancel(t)
      PROVE  RecordsFit'
  BY <1>5, <1>2 DEF Enqueue, Cancel, calls, records
<1>6. ASSUME NEW t \in Token,
             EnqueueFails(t) \/ CheckCancel(t) \/ PollFails(t) \/ Leave(t) \/ Release(t)
               \/ CrashInEnqueue(t) \/ ChildExits(t)
      PROVE  RecordsFit'
  <2>1. Tidy /\ holders' \subseteq holders /\ legacy' = legacy
    BY <1>6 DEF EnqueueFails, CheckCancel, PollFails, Leave, Release, CrashInEnqueue,
                ChildExits, records
  <2>. QED  BY <2>1, <1>3
<1>7. ASSUME NEW t \in Token, PollInVain(t) PROVE RecordsFit'
  <2>1. Tidy /\ holders' \subseteq holders /\ (legacy' = "none" \/ legacy # "none")
    BY <1>7, ReclaimedSubset, ReclaimedLegacyValues DEF PollInVain
  <2>. QED  BY <2>1, <1>3
<1>8. ASSUME NEW t \in Token, Admit(t) PROVE RecordsFit'
  BY <1>8, <1>4 DEF Admit
<1>9. ASSUME NEW t \in Token, AdmitFails(t) \/ CrashInAdmit(t) PROVE RecordsFit'
  <2>1. PICK ws \in Reclaimed(waiters), hs \in Reclaimed(holders), lg \in ReclaimedLegacy :
          /\ SelectNextWaiter(t, ws \cup {t}, hs, lg)
          /\ holders' = hs \/ holders' = hs \cup {t}
          /\ legacy' = lg
    BY <1>9 DEF AdmitFails, CrashInAdmit
  <2>2. Tidy
    BY <1>9 DEF AdmitFails, CrashInAdmit
  <2>3. CASE holders' = hs
    BY <2>1, <2>2, <2>3, <1>3, ReclaimedSubset, ReclaimedLegacyValues
  <2>4. CASE holders' = hs \cup {t}
    BY <2>1, <2>2, <2>4, <1>4
  <2>. QED  BY <2>1, <2>3, <2>4
<1>10. ASSUME NEW p \in Pid, StartProcess(p) PROVE RecordsFit'
  BY <1>10, <1>2 DEF StartProcess, calls, records
<1>11. ASSUME NEW p \in Pid, Crash(p) PROVE RecordsFit'
  BY <1>11, <1>3 DEF Crash, records
<1>12. ASSUME LegacyStep PROVE RecordsFit'
  BY <1>12, RecordsLegacy
<1>13. ASSUME UNCHANGED vars PROVE RecordsFit'
  BY <1>13, <1>2 DEF vars, calls, records
<1>. QED
  BY <1>1, <1>5, <1>6, <1>7, <1>8, <1>9, <1>10, <1>11, <1>12, <1>13 DEF Next

(* The holder records, and holder.json with them, never exceed the slots,   *)
(* whatever fails: admission counts under the lock and adds one record.     *)
THEOREM RecordsNeverOverbook == Spec => []RecordsFit
  BY InitRecordsFit, NextRecordsFit, TypeCorrect, PTL DEF Spec

-----------------------------------------------------------------------------
(* The inductive invariant: the records fit, and a call in progress has a  *)
(* living process and, once it holds, its record.                          *)

CallsAreAlive == \A t \in Token : pc[t] # "idle" => pid[t] \in live

IInv == TypeOK /\ RecordsFit /\ CallsAreAlive /\ HoldersStayRecorded

LEMMA InitIInv == Init => IInv
  <1>1. Init => CallsAreAlive /\ HoldersStayRecorded
    BY DEF Init, CallsAreAlive, HoldersStayRecorded, Holding
  <1>. QED  BY <1>1, InitTypeOK, InitRecordsFit DEF IInv

(* A pass keeps the records of live processes, unless reading one fails. *)
LEMMA ReclaimedKeepsTheLiving ==
  ASSUME "read_error" \notin Faults, NEW S, NEW R \in Reclaimed(S)
  PROVE  R = {t \in S : pid[t] \in live}
  BY DEF Reclaimed

(* Steps that leave the processes and the calls in progress alone, but for *)
(* the call t, and that lose no record of a call that holds.               *)
LEMMA OthersUndisturbed ==
  ASSUME IInv, NEW t \in Token,
         live' = live, Tidy,
         \A u \in Token \ {t} : pc'[u] = pc[u],
         \A u \in Holding \ {t} : u \in holders',
         pc'[t] # "idle" => pc[t] # "idle",
         pc'[t] = "holding" => t \in holders'
  PROVE  CallsAreAlive' /\ HoldersStayRecorded'
  <1>1. CallsAreAlive'
    <2> SUFFICES ASSUME NEW u \in Token, pc'[u] # "idle" PROVE pid'[u] \in live'
      BY DEF CallsAreAlive
    <2>1. pid'[u] = pid[u]
      BY TidyKeepsCalls
    <2>2. pc[u] # "idle"
      OBVIOUS
    <2>. QED  BY <2>1, <2>2 DEF IInv, CallsAreAlive
  <1>2. HoldersStayRecorded'
    <2> SUFFICES ASSUME NEW u \in Token, pc'[u] = "holding"
                 PROVE u \in holders' /\ pid'[u] \in live'
      BY DEF HoldersStayRecorded, Holding
    <2>1. pid'[u] \in live'
      BY <1>1 DEF CallsAreAlive
    <2>2. u \in holders'
      BY DEF Holding
    <2>. QED  BY <2>1, <2>2
  <1>. QED  BY <1>1, <1>2

(* A process that dies takes all its calls with it. *)
LEMMA DeathUndisturbed ==
  ASSUME IInv, NEW p \in Pid, Die(p), Tidy,
         \A u \in Holding : pid[u] # p => u \in holders'
  PROVE  CallsAreAlive' /\ HoldersStayRecorded'
  <1>1. ASSUME NEW u \in Token, pc'[u] # "idle"
        PROVE  pc[u] = pc'[u] /\ pid[u] # p /\ pid'[u] = pid[u] /\ pid'[u] \in live'
    <2>1. pc[u] = pc'[u] /\ pid[u] # p
      BY <1>1 DEF Die, IInv, TypeOK
    <2>2. pid'[u] = pid[u]
      BY <1>1, TidyKeepsCalls
    <2>3. pid[u] \in live
      BY <1>1, <2>1 DEF IInv, CallsAreAlive
    <2>. QED  BY <2>1, <2>2, <2>3 DEF Die
  <1>2. CallsAreAlive'
    BY <1>1 DEF CallsAreAlive
  <1>3. ASSUME NEW u \in Token, pc'[u] = "holding" PROVE u \in holders' /\ pid'[u] \in live'
    BY <1>1, <1>3 DEF Holding
  <1>. QED  BY <1>2, <1>3 DEF HoldersStayRecorded, Holding

LEMMA NextIInv ==
  ASSUME "read_error" \notin Faults
  PROVE  IInv /\ [Next]_vars => IInv'
<1> SUFFICES ASSUME IInv, [Next]_vars PROVE CallsAreAlive' /\ HoldersStayRecorded'
  BY NextTypeOK, NextRecordsFit DEF IInv
<1>0. TypeOK /\ CallsAreAlive /\ HoldersStayRecorded
  BY DEF IInv
<1>1. ASSUME NEW t \in Token, NEW l \in Lane, NEW p \in Pid, Stamp(t, l, p)
      PROVE  CallsAreAlive' /\ HoldersStayRecorded'
  <2>1. /\ pc' = [pc EXCEPT ![t] = "stamped"] /\ pid' = [pid EXCEPT ![t] = p]
        /\ live' = live /\ holders' = holders /\ p \in live
    BY <1>1 DEF Stamp, records
  <2>. QED
    BY <2>1, <1>0 DEF TypeOK, CallsAreAlive, HoldersStayRecorded, Holding
<1>2. ASSUME NEW t \in Token, Enqueue(t) \/ Cancel(t)
      PROVE  CallsAreAlive' /\ HoldersStayRecorded'
  <2>1. /\ pid' = pid /\ live' = live /\ holders' = holders
        /\ pc' = pc \/ (pc[t] = "stamped" /\ pc' = [pc EXCEPT ![t] = "queued"])
    BY <1>2 DEF Enqueue, Cancel, calls, records
  <2>. QED  BY <2>1, <1>0 DEF TypeOK, CallsAreAlive, HoldersStayRecorded, Holding
<1>3. ASSUME NEW t \in Token,
             EnqueueFails(t) \/ CheckCancel(t) \/ PollFails(t) \/ Leave(t)
      PROVE  CallsAreAlive' /\ HoldersStayRecorded'
  <2>1. /\ Tidy /\ live' = live /\ holders' = holders
        /\ pc[t] \notin {"idle", "holding"} /\ pc'[t] # "holding"
        /\ \A u \in Token \ {t} : pc'[u] = pc[u]
    BY <1>3, <1>0 DEF EnqueueFails, CheckCancel, PollFails, Leave, records, TypeOK
  <2>2. \A u \in Holding : u \in holders'
    BY <2>1, <1>0 DEF HoldersStayRecorded
  <2>. QED  BY <2>1, <2>2, OthersUndisturbed
<1>4. ASSUME NEW t \in Token, Release(t) PROVE CallsAreAlive' /\ HoldersStayRecorded'
  <2>1. /\ Tidy /\ live' = live /\ holders \ {t} \subseteq holders'
        /\ pc'[t] = "idle" /\ \A u \in Token \ {t} : pc'[u] = pc[u]
    BY <1>4, <1>0 DEF Release, TypeOK
  <2>2. \A u \in Holding \ {t} : u \in holders'
    BY <2>1, <1>0 DEF HoldersStayRecorded
  <2>. QED  BY <2>1, <2>2, OthersUndisturbed
<1>5. ASSUME NEW t \in Token, PollInVain(t) \/ Admit(t) \/ AdmitFails(t)
      PROVE  CallsAreAlive' /\ HoldersStayRecorded'
  <2>1. PICK hs \in Reclaimed(holders) : holders' = hs \/ holders' = hs \cup {t}
    BY <1>5 DEF PollInVain, Admit, AdmitFails
  <2>2. \A u \in Holding : u \in hs
    BY <1>0, ReclaimedKeepsTheLiving DEF HoldersStayRecorded
  <2>3. /\ Tidy /\ live' = live /\ pc[t] # "idle"
        /\ pc'[t] = "holding" => t \in holders'
        /\ \A u \in Token \ {t} : pc'[u] = pc[u]
    BY <1>5, <1>0 DEF PollInVain, Admit, AdmitFails, TypeOK
  <2>4. \A u \in Holding : u \in holders'
    BY <2>1, <2>2
  <2>. QED  BY <2>3, <2>4, OthersUndisturbed
<1>6. ASSUME NEW t \in Token, ChildExits(t) PROVE CallsAreAlive' /\ HoldersStayRecorded'
  <2>1. Tidy /\ live' = live /\ holders' = holders /\ pc' = pc
    BY <1>6 DEF ChildExits, records
  <2>2. \A u \in Holding : u \in holders'
    BY <2>1, <1>0 DEF HoldersStayRecorded
  <2>3. pc'[t] = "holding" => t \in holders'
    BY <2>1, <2>2 DEF Holding
  <2>. QED  BY <2>1, <2>2, <2>3, OthersUndisturbed
<1>7. ASSUME NEW p \in Pid, Crash(p) PROVE CallsAreAlive' /\ HoldersStayRecorded'
  <2>1. Die(p) /\ Tidy /\ holders' = holders
    BY <1>7 DEF Crash, records
  <2>. QED  BY <2>1, <1>0, DeathUndisturbed DEF HoldersStayRecorded
<1>8. ASSUME NEW t \in Token, CrashInEnqueue(t) \/ CrashInAdmit(t)
      PROVE  CallsAreAlive' /\ HoldersStayRecorded'
  <2>1. Die(pid[t]) /\ Tidy /\ pid[t] \in Pid
    BY <1>8, <1>0 DEF CrashInEnqueue, CrashInAdmit, Die, TypeOK
  <2>2. holders' = holders \/ \E hs \in Reclaimed(holders) : hs \subseteq holders'
    BY <1>8 DEF CrashInEnqueue, CrashInAdmit
  <2>3. \A u \in Holding : u \in holders'
    BY <2>2, <1>0, ReclaimedKeepsTheLiving DEF HoldersStayRecorded
  <2>. QED  BY <2>1, <2>3, DeathUndisturbed
<1>9. ASSUME NEW p \in Pid, StartProcess(p) PROVE CallsAreAlive' /\ HoldersStayRecorded'
  BY <1>9, <1>0 DEF StartProcess, calls, records, CallsAreAlive, HoldersStayRecorded, Holding
<1>10. ASSUME LegacyStep PROVE CallsAreAlive' /\ HoldersStayRecorded'
  BY <1>10, <1>0 DEF LegacyStep, calls, CallsAreAlive, HoldersStayRecorded, Holding
<1>11. ASSUME UNCHANGED vars PROVE CallsAreAlive' /\ HoldersStayRecorded'
  BY <1>11, <1>0 DEF vars, calls, records, CallsAreAlive, HoldersStayRecorded, Holding
<1>. QED
  BY <1>1, <1>2, <1>3, <1>4, <1>5, <1>6, <1>7, <1>8, <1>9, <1>10, <1>11 DEF Next

LEMMA InvariantHolds ==
  ASSUME "read_error" \notin Faults
  PROVE  Spec => []IInv
  BY InitIInv, NextIInv, PTL DEF Spec

(* As long as records can be read, no pass over the records takes away the *)
(* record of an inference that still runs.                                 *)
THEOREM RunningInferencesAreCounted ==
  ASSUME "read_error" \notin Faults
  PROVE  Spec => []HoldersStayRecorded
  <1>1. IInv => HoldersStayRecorded
    BY DEF IInv
  <1>. QED  BY <1>1, InvariantHolds, PTL

LEMMA HoldingWithinRecords ==
  ASSUME IInv
  PROVE  /\ Cardinality(Holding) \in Nat
         /\ Cardinality(Holding) <= Cardinality(holders)
         /\ Cardinality(NonInteractive(Holding)) \in Nat
         /\ Cardinality(NonInteractive(Holding)) <= Cardinality(NonInteractive(holders))
         /\ LegacyCount(legacy) <= Occupied
  <1>1. Holding \subseteq holders /\ holders \subseteq Token
    BY DEF IInv, TypeOK, HoldersStayRecorded
  <1>2. /\ NonInteractive(Holding) \subseteq NonInteractive(holders)
        /\ NonInteractive(holders) \subseteq Token
    BY <1>1 DEF NonInteractive
  <1>3. LegacyCount(legacy) <= Occupied
    BY DEF LegacyCount, Occupied
  <1>. QED  BY <1>1, <1>2, <1>3, SubsetCardinality

(* Admitted inferences never exceed the slots. *)
THEOREM CapacityIsRespected ==
  ASSUME "read_error" \notin Faults
  PROVE  Spec => []CapacityRespected
  <1>1. IInv => CapacityRespected
    <2> SUFFICES ASSUME IInv PROVE CapacityRespected
      OBVIOUS
    <2>1. /\ Cardinality(holders) <= TotalSlots
          /\ Cardinality(holders) + Occupied <= TotalSlots + MixedVersionSlack
      BY DEF IInv, RecordsFit
    <2>2. /\ Cardinality(holders) \in Nat
          /\ Occupied \in {0, 1} /\ LegacyCount(legacy) \in {0, 1}
      BY SubsetCardinality DEF IInv, TypeOK, Occupied, LegacyCount
    <2>. QED  BY <2>1, <2>2, HoldingWithinRecords, SlotsAreNat DEF CapacityRespected
  <1>. QED  BY <1>1, InvariantHolds, PTL

(* Non-interactive inferences never take a reserved slot. *)
THEOREM ReservationIsRespected ==
  ASSUME "read_error" \notin Faults
  PROVE  Spec => []ReservationRespected
  <1>1. IInv => ReservationRespected
    <2> SUFFICES ASSUME IInv PROVE ReservationRespected
      OBVIOUS
    <2>1. /\ Cardinality(NonInteractive(holders)) <= NonInteractiveSlots
          /\ Cardinality(NonInteractive(holders)) + Occupied
               <= NonInteractiveSlots + MixedVersionSlack
      BY DEF IInv, RecordsFit
    <2>2. /\ Cardinality(NonInteractive(holders)) \in Nat
          /\ Occupied \in {0, 1} /\ LegacyCount(legacy) \in {0, 1}
      BY SubsetCardinality DEF IInv, TypeOK, Occupied, LegacyCount, NonInteractive
    <2>. QED  BY <2>1, <2>2, HoldingWithinRecords, SlotsAreNat DEF ReservationRespected
  <1>. QED  BY <1>1, InvariantHolds, PTL

-----------------------------------------------------------------------------
(* The scheduler implements the abstract admission.                        *)

Busy == InAcquire \cup {"leaving"}

(* A step callers cannot see. *)
LEMMA InvisibleStep ==
  ASSUME TypeOK, TypeOK',
         \A u \in Token : pc'[u] # "idle" => lane'[u] = lane[u],
         \A u \in Token : (pc'[u] \in Busy <=> pc[u] \in Busy)
                       /\ (pc'[u] = "holding" <=> pc[u] = "holding")
  PROVE  UNCHANGED Admission!vars
  <1>1. \A l : AskingIn(l)' = AskingIn(l)
    BY DEF AskingIn, Busy, InAcquire
  <1>2. \A l : RunningIn(l)' = RunningIn(l)
    BY DEF RunningIn, Holding
  <1>. QED  BY <1>1, <1>2 DEF Admission!vars, Admission!Lane

(* The end of the calls in S. *)
LEMMA EndOfCalls ==
  ASSUME Tidy, NEW S \in SUBSET Token,
         \A u \in S : pc'[u] = "idle",
         \A u \in Token \ S : pc'[u] = pc[u]
  PROVE  Admission!Quit(S)
  <1>1. \A u \in Token : pc'[u] # "idle" => lane'[u] = lane[u]
    BY TidyKeepsCalls
  <1>2. \A l : AskingIn(l)' = AskingIn(l) \ S
    BY <1>1 DEF AskingIn, InAcquire
  <1>3. \A l : RunningIn(l)' = RunningIn(l) \ S
    BY <1>1 DEF RunningIn, Holding
  <1>. QED  BY <1>2, <1>3 DEF Admission!Quit, Lane, Admission!Lane

(* The instance has its own name for Cardinality. *)
LEMMA SameCardinality == \A S : Admission!Cardinality(S) = Cardinality(S)
  BY DEF Admission!Cardinality, Cardinality, Admission!IsFiniteSet, IsFiniteSet

LEMMA AdmitFits ==
  ASSUME "read_error" \notin Faults, IInv, NEW t \in Token,
         NEW hs \in Reclaimed(holders), NEW lg \in ReclaimedLegacy,
         IsAdmissible(lane[t], hs, lg)
  PROVE  Admission!Fits(lane[t])
  <1>1. hs \subseteq Token /\ NonInteractive(hs) \subseteq Token
    BY ReclaimedSubset DEF IInv, TypeOK, NonInteractive
  <1>2. Holding \subseteq hs
    BY ReclaimedKeepsTheLiving DEF IInv, HoldersStayRecorded
  <1>3. RunningIn("interactive") \cup RunningIn("non-interactive") \subseteq hs
    BY <1>2 DEF RunningIn
  <1>4. RunningIn("non-interactive") \subseteq NonInteractive(hs)
    BY <1>2 DEF RunningIn, NonInteractive
  <1>5. /\ Cardinality(hs) \in Nat
        /\ Cardinality(RunningIn("interactive") \cup RunningIn("non-interactive")) \in Nat
        /\ Cardinality(RunningIn("interactive") \cup RunningIn("non-interactive"))
             <= Cardinality(hs)
    BY <1>1, <1>3, SubsetCardinality
  <1>6. /\ Cardinality(NonInteractive(hs)) \in Nat
        /\ Cardinality(RunningIn("non-interactive")) \in Nat
        /\ Cardinality(RunningIn("non-interactive")) <= Cardinality(NonInteractive(hs))
    BY <1>1, <1>4, SubsetCardinality
  <1>7. LegacyCount(lg) \in {0, 1}
    BY DEF LegacyCount
  <1>8. Cardinality(RunningIn("interactive") \cup RunningIn("non-interactive"))
          < InteractiveSlots + NonInteractiveSlots
    BY <1>5, <1>7, LaneSchedulerAssumption DEF IsAdmissible, TotalSlots
  <1>9. lane[t] = "non-interactive" =>
          Cardinality(RunningIn("non-interactive")) < NonInteractiveSlots
    BY <1>6, <1>7, LaneSchedulerAssumption DEF IsAdmissible
  <1>10. lane[t] \in Lane
    BY DEF IInv, TypeOK
  <1>. QED
    BY <1>8, <1>9, <1>10, SameCardinality DEF Admission!Fits, Admission!Running, Lane

LEMMA StepImplements ==
  ASSUME "read_error" \notin Faults
  PROVE  IInv /\ IInv' /\ [Next]_vars => [Admission!Next]_Admission!vars
<1> SUFFICES ASSUME IInv, IInv', [Next]_vars PROVE [Admission!Next]_Admission!vars
  OBVIOUS
<1>0. TypeOK /\ TypeOK' /\ CallsAreAlive
  BY DEF IInv
<1>1. ASSUME NEW t \in Token, NEW l \in Lane, NEW p \in Pid, Stamp(t, l, p)
      PROVE  Admission!Ask(t, l)
  <2>1. /\ pc[t] = "idle"
        /\ pc' = [pc EXCEPT ![t] = "stamped"] /\ lane' = [lane EXCEPT ![t] = l]
    BY <1>1 DEF Stamp, Mentioned
  <2>2. \A k \in Lane : t \notin AskingIn(k) \cup RunningIn(k)
    BY <2>1 DEF AskingIn, RunningIn, Holding, InAcquire
  <2>3. \A k \in Lane : AskingIn(k)' = IF k = l THEN AskingIn(k) \cup {t} ELSE AskingIn(k)
    BY <2>1, <1>0 DEF AskingIn, InAcquire, TypeOK
  <2>4. \A k \in Lane : RunningIn(k)' = RunningIn(k)
    BY <2>1, <1>0 DEF RunningIn, Holding, TypeOK
  <2>. QED  BY <2>2, <2>3, <2>4 DEF Admission!Ask, Admission!Lane, Lane
<1>2. ASSUME NEW t \in Token, Admit(t) PROVE Admission!Admit(t, lane[t])
  <2>1. PICK hs \in Reclaimed(holders), lg \in ReclaimedLegacy :
          IsAdmissible(lane[t], hs, lg)
    BY <1>2 DEF Admit, SelectNextWaiter
  <2>2. Admission!Fits(lane[t])
    BY <2>1, AdmitFits
  <2>3. pc[t] = "polling" /\ pc' = [pc EXCEPT ![t] = "holding"] /\ lane[t] \in Lane
    BY <1>2, <1>0 DEF Admit, TypeOK
  <2>4. \A u \in Token : pc'[u] # "idle" => lane'[u] = lane[u]
    BY <1>2, TidyKeepsCalls DEF Admit
  <2>5. \A k \in Lane :
          AskingIn(k)' = IF k = lane[t] THEN AskingIn(k) \ {t} ELSE AskingIn(k)
    BY <2>3, <2>4, <1>0 DEF AskingIn, InAcquire, TypeOK
  <2>6. \A k \in Lane :
          RunningIn(k)' = IF k = lane[t] THEN RunningIn(k) \cup {t} ELSE RunningIn(k)
    BY <2>3, <2>4, <1>0 DEF RunningIn, Holding, TypeOK
  <2>7. t \in AskingIn(lane[t])
    BY <2>3 DEF AskingIn, InAcquire
  <2>. QED  BY <2>2, <2>3, <2>5, <2>6, <2>7 DEF Admission!Admit, Admission!Lane, Lane
<1>3. ASSUME NEW t \in Token, EnqueueFails(t) \/ Leave(t) \/ Release(t)
      PROVE  Admission!Quit({t})
  <2>1. Tidy /\ pc'[t] = "idle" /\ \A u \in Token \ {t} : pc'[u] = pc[u]
    BY <1>3, <1>0 DEF EnqueueFails, Leave, Release, TypeOK
  <2>. QED  BY <2>1, EndOfCalls
<1>4. ASSUME NEW p, Die(p), Tidy PROVE \E S \in SUBSET Token : Admission!Quit(S)
  <2>. DEFINE S == {u \in Token : pid[u] = p}
  <2>1. (\A u \in S : pc'[u] = "idle") /\ (\A u \in Token \ S : pc'[u] = pc[u])
    BY <1>4 DEF Die
  <2>2. Admission!Quit(S)
    BY <2>1, <1>4, EndOfCalls
  <2>. QED  BY <2>2
<1>5. ASSUME NEW t \in Token,
             CheckCancel(t) \/ PollInVain(t) \/ PollFails(t) \/ AdmitFails(t) \/ ChildExits(t)
      PROVE  UNCHANGED Admission!vars
  <2>1. Tidy
    BY <1>5 DEF CheckCancel, PollInVain, PollFails, AdmitFails, ChildExits
  <2>2. \A u \in Token : (pc'[u] \in Busy <=> pc[u] \in Busy)
                      /\ (pc'[u] = "holding" <=> pc[u] = "holding")
    BY <1>5, <1>0
       DEF CheckCancel, PollInVain, PollFails, AdmitFails, ChildExits, TypeOK, Busy, InAcquire
  <2>. QED  BY <2>1, <2>2, <1>0, TidyKeepsCalls, InvisibleStep
<1>6. ASSUME NEW t \in Token, Enqueue(t) PROVE UNCHANGED Admission!vars
  <2>1. \A u \in Token : (pc'[u] \in Busy <=> pc[u] \in Busy)
                      /\ (pc'[u] = "holding" <=> pc[u] = "holding")
    BY <1>6, <1>0 DEF Enqueue, TypeOK, Busy, InAcquire
  <2>. QED  BY <1>6, <2>1, <1>0, InvisibleStep DEF Enqueue, calls
<1>7. ASSUME UNCHANGED <<pc, lane>> PROVE UNCHANGED Admission!vars
  BY <1>7, <1>0, InvisibleStep
<1>8. ASSUME NEW t \in Token, Cancel(t) PROVE UNCHANGED Admission!vars
  BY <1>8, <1>7 DEF Cancel, calls
<1>9. ASSUME NEW p \in Pid, StartProcess(p) PROVE UNCHANGED Admission!vars
  BY <1>9, <1>7 DEF StartProcess, calls
<1>10. ASSUME LegacyStep PROVE UNCHANGED Admission!vars
  BY <1>10, <1>7 DEF LegacyStep, calls
<1>11. ASSUME UNCHANGED vars PROVE UNCHANGED Admission!vars
  BY <1>11, <1>7 DEF vars, calls
<1>12. ASSUME NEW t \in Token, CrashInEnqueue(t) \/ CrashInAdmit(t)
       PROVE  \E S \in SUBSET Token : Admission!Quit(S)
  BY <1>12, <1>4 DEF CrashInEnqueue, CrashInAdmit
<1>13. ASSUME NEW p \in Pid, Crash(p) PROVE \E S \in SUBSET Token : Admission!Quit(S)
  BY <1>13, <1>4 DEF Crash
<1>14. ASSUME NEW t \in Token, NEW l \in Lane, Admission!Ask(t, l) \/ Admission!Admit(t, l)
       PROVE  Admission!Next
  BY <1>14 DEF Admission!Next, Admission!Lane, Lane
<1>15. ASSUME \E S \in SUBSET Token : Admission!Quit(S) PROVE Admission!Next
  BY <1>15 DEF Admission!Next
<1>16. \A t \in Token : lane[t] \in Lane /\ {t} \in SUBSET Token
  BY <1>0 DEF TypeOK
<1>. QED
  BY <1>1, <1>2, <1>3, <1>5, <1>6, <1>8, <1>9, <1>10, <1>11, <1>12, <1>13, <1>14, <1>15,
     <1>16 DEF Next

LEMMA InitImplements == Init => Admission!Init
  BY DEF Init, Admission!Init, Admission!Lane, Lane, AskingIn, RunningIn, Holding, InAcquire

(* Seen from its callers, the scheduler on disk is the abstract admission. *)
THEOREM SchedulerImplementsAdmission ==
  ASSUME "read_error" \notin Faults
  PROVE  Spec => ImplementsAdmission
  <1>. QED
    BY InitImplements, StepImplements, InvariantHolds, PTL
       DEF Spec, ImplementsAdmission, Admission!Spec

-----------------------------------------------------------------------------
(* Nobody jumps the queue.                                                 *)

(* A call that waits has its waiter record, and no call that is still in   *)
(* acquire has a holder record: what the other calls read is the queue.    *)
QueueOnDisk ==
  \A t \in Token :
    /\ t \in Waiting => t \in waiters
    /\ pc[t] \in InAcquire => t \notin holders

(* Steps that move the call t alone and drop no waiter record of a call    *)
(* that waits, nor add a holder record for one in acquire.                 *)
LEMMA QueueUndisturbed ==
  ASSUME TypeOK, QueueOnDisk, NEW t \in Token,
         \A u \in Token \ {t} : pc'[u] = pc[u],
         \A u \in Waiting \ {t} : u \in waiters',
         holders' \subseteq holders \cup {t},
         pc'[t] \in {"queued", "polling"} => t \in waiters',
         pc'[t] \in InAcquire => t \notin holders'
  PROVE  QueueOnDisk'
  BY DEF QueueOnDisk, Waiting, InAcquire

(* A process that dies takes its calls out of the queue. *)
LEMMA QueueAfterDeath ==
  ASSUME TypeOK, QueueOnDisk, NEW p, Die(p),
         \A u \in Waiting : pid[u] # p => u \in waiters',
         \A u \in Token : u \in holders' => u \in holders \/ pid[u] = p
  PROVE  QueueOnDisk'
  <1>1. \A u \in Token : pc'[u] # "idle" => pid[u] # p /\ pc'[u] = pc[u]
    BY DEF Die, TypeOK
  <1>. QED  BY <1>1 DEF QueueOnDisk, Waiting, InAcquire

LEMMA NextQueueOnDisk ==
  ASSUME "read_error" \notin Faults
  PROVE  IInv /\ QueueOnDisk /\ [Next]_vars => QueueOnDisk'
<1> SUFFICES ASSUME IInv, QueueOnDisk, [Next]_vars PROVE QueueOnDisk'
  OBVIOUS
<1>0. TypeOK /\ CallsAreAlive
  BY DEF IInv
<1>1. ASSUME NEW t \in Token, NEW l \in Lane, NEW p \in Pid, Stamp(t, l, p)
      PROVE  QueueOnDisk'
  <2>1. t \notin holders /\ pc' = [pc EXCEPT ![t] = "stamped"]
        /\ waiters' = waiters /\ holders' = holders
    BY <1>1 DEF Stamp, Mentioned, records
  <2>. QED  BY <2>1, <1>0 DEF QueueOnDisk, Waiting, InAcquire, TypeOK
<1>2. ASSUME NEW t \in Token, Enqueue(t) PROVE QueueOnDisk'
  BY <1>2, <1>0 DEF Enqueue, QueueOnDisk, Waiting, InAcquire, TypeOK
<1>3. ASSUME NEW t \in Token,
             EnqueueFails(t) \/ CheckCancel(t) \/ PollFails(t) \/ Leave(t) \/ Release(t)
      PROVE  QueueOnDisk'
  <2>1. /\ waiters \ {t} \subseteq waiters' /\ holders' \subseteq holders
        /\ \A u \in Token \ {t} : pc'[u] = pc[u]
        /\ pc'[t] \in {"queued", "polling"} => pc[t] = "queued" /\ waiters' = waiters
        /\ pc'[t] \in InAcquire => pc[t] \in InAcquire
    BY <1>3, <1>0
       DEF EnqueueFails, CheckCancel, PollFails, Leave, Release, records, TypeOK, InAcquire
  <2>. QED  BY <2>1, <1>0, QueueUndisturbed DEF QueueOnDisk, Waiting
<1>4. ASSUME NEW t \in Token, PollInVain(t) \/ Admit(t) \/ AdmitFails(t) PROVE QueueOnDisk'
  <2>1. PICK ws \in Reclaimed(waiters), hs \in Reclaimed(holders) :
          /\ ws \ {t} \subseteq waiters'
          /\ holders' \subseteq hs \cup {t}
          /\ PollInVain(t) => t \in waiters' /\ holders' = hs
    BY <1>4 DEF PollInVain, Admit, AdmitFails
  <2>2. /\ pc[t] = "polling" /\ \A u \in Token \ {t} : pc'[u] = pc[u]
        /\ ~PollInVain(t) => pc'[t] \in {"holding", "leaving"}
        /\ PollInVain(t) => pc'[t] = "queued"
    BY <1>4, <1>0 DEF PollInVain, Admit, AdmitFails, TypeOK
  <2>3. \A u \in Waiting : u \in ws
    BY <1>0, ReclaimedKeepsTheLiving DEF QueueOnDisk, Waiting, CallsAreAlive
  <2>4. hs \subseteq holders
    BY ReclaimedSubset
  <2>5. pc'[t] \in InAcquire => t \notin holders'
    BY <2>1, <2>2, <2>4 DEF QueueOnDisk, InAcquire
  <2>. QED  BY <2>1, <2>2, <2>3, <2>4, <2>5, <1>0, QueueUndisturbed DEF InAcquire
<1>5. ASSUME UNCHANGED <<pc, waiters, holders>> PROVE QueueOnDisk'
  BY <1>5 DEF QueueOnDisk, Waiting
<1>6. ASSUME NEW t \in Token, Cancel(t) \/ ChildExits(t) PROVE QueueOnDisk'
  BY <1>6, <1>5 DEF Cancel, ChildExits, records
<1>7. ASSUME NEW p \in Pid, StartProcess(p) PROVE QueueOnDisk'
  BY <1>7, <1>5 DEF StartProcess, records
<1>8. ASSUME LegacyStep \/ UNCHANGED vars PROVE QueueOnDisk'
  BY <1>8, <1>5 DEF LegacyStep, vars, records
<1>9. ASSUME NEW p \in Pid, Crash(p) PROVE QueueOnDisk'
  <2>1. Die(p) /\ holders' = holders /\ \A u \in Waiting : u \in waiters'
    BY <1>9 DEF Crash, records, QueueOnDisk, Waiting
  <2>. QED  BY <2>1, <1>0, QueueAfterDeath
<1>10. ASSUME NEW t \in Token, CrashInEnqueue(t) PROVE QueueOnDisk'
  <2>1. Die(pid[t]) /\ holders' = holders /\ \A u \in Waiting : u \in waiters'
    BY <1>10 DEF CrashInEnqueue, QueueOnDisk, Waiting
  <2>. QED  BY <2>1, <1>0, QueueAfterDeath
<1>11. ASSUME NEW t \in Token, CrashInAdmit(t) PROVE QueueOnDisk'
  <2>1. PICK ws \in Reclaimed(waiters), hs \in Reclaimed(holders) :
          ws \subseteq waiters' /\ holders' \subseteq hs \cup {t}
    BY <1>11 DEF CrashInAdmit
  <2>2. \A u \in Waiting : u \in ws
    BY <1>0, ReclaimedKeepsTheLiving DEF QueueOnDisk, Waiting, CallsAreAlive
  <2>3. hs \subseteq holders /\ Die(pid[t])
    BY <1>11, ReclaimedSubset DEF CrashInAdmit
  <2>. QED  BY <2>1, <2>2, <2>3, <1>0, QueueAfterDeath
<1>. QED
  BY <1>1, <1>2, <1>3, <1>4, <1>6, <1>7, <1>8, <1>9, <1>10, <1>11 DEF Next

(* Only Admit lets a call hold. *)
LEMMA OnlyAdmitHolds ==
  ASSUME TypeOK, [Next]_vars, NEW t \in Token, pc[t] # "holding", pc'[t] = "holding"
  PROVE  Admit(t)
<1>0. pc \in [Token -> PC]
  BY DEF TypeOK
<1>1. ASSUME NEW u \in Token, u # t PROVE ~Admit(u)
  <2>1. ~(pc' = [pc EXCEPT ![u] = "holding"])
    BY <1>0, <1>1
  <2>. QED  BY <2>1 DEF Admit
<1>2. ASSUME NEW u \in Token PROVE
        ~(Enqueue(u) \/ EnqueueFails(u) \/ CheckCancel(u) \/ PollInVain(u) \/ PollFails(u)
          \/ AdmitFails(u) \/ Leave(u) \/ Release(u) \/ Cancel(u) \/ ChildExits(u))
  <2>1. ASSUME NEW to, to # "holding" PROVE ~(pc' = [pc EXCEPT ![u] = to]) /\ ~(pc' = pc)
    BY <1>0, <2>1
  <2>2. (IF u \in cancelled THEN "leaving" ELSE "polling") # "holding"
    OBVIOUS
  <2>. QED
    BY <2>1, <2>2 DEF Enqueue, EnqueueFails, CheckCancel, PollInVain, PollFails, AdmitFails,
                      Leave, Release, Cancel, ChildExits
<1>3. ASSUME NEW p PROVE ~Die(p)
  BY DEF Die
<1>4. ASSUME NEW u \in Token PROVE ~(CrashInEnqueue(u) \/ CrashInAdmit(u))
  BY <1>3 DEF CrashInEnqueue, CrashInAdmit
<1>5. ASSUME NEW p \in Pid PROVE ~(StartProcess(p) \/ Crash(p))
  BY <1>3 DEF StartProcess, Crash
<1>6. ASSUME NEW u \in Token, NEW l \in Lane, NEW p \in Pid PROVE ~Stamp(u, l, p)
  BY DEF Stamp, TypeOK
<1>7. ~LegacyStep /\ ~UNCHANGED vars
  BY DEF LegacyStep, vars
<1>. QED  BY <1>1, <1>2, <1>4, <1>5, <1>6, <1>7 DEF Next

(* A call is admitted only when no call that waits before it could be       *)
(* (NoOvertaking): the caller that polls sees every other caller's record.  *)
THEOREM NobodyOvertakes ==
  ASSUME "read_error" \notin Faults
  PROVE  Spec => NoOvertaking
<1>1. Init => QueueOnDisk
  BY DEF Init, QueueOnDisk, Waiting, InAcquire
<1>2. ASSUME IInv, QueueOnDisk, [Next]_vars, NEW t \in Token,
             pc[t] # "holding", pc'[t] = "holding", NEW u \in Waiting \ {t}, Ahead(u, t)
      PROVE  ~IsAdmissible(lane[u], holders' \ {t}, legacy')
  <2>1. Admit(t)
    BY <1>2, OnlyAdmitHolds DEF IInv
  <2>2. PICK ws \in Reclaimed(waiters), hs \in Reclaimed(holders), lg \in ReclaimedLegacy :
          /\ SelectNextWaiter(t, ws \cup {t}, hs, lg)
          /\ holders' = hs \cup {t} /\ legacy' = lg
    BY <2>1 DEF Admit
  <2>3. holders' \ {t} = hs
    BY <2>1, <2>2, <1>2, ReclaimedSubset DEF Admit, QueueOnDisk, InAcquire
  <2>4. u \in ws
    BY <1>2, ReclaimedKeepsTheLiving DEF IInv, CallsAreAlive, QueueOnDisk, Waiting
  <2>. QED  BY <1>2, <2>2, <2>3, <2>4 DEF SelectNextWaiter
<1>3. IInv /\ QueueOnDisk /\ [Next]_vars =>
        [\A t \in Token : pc[t] # "holding" /\ pc'[t] = "holding" =>
           \A u \in Waiting \ {t} :
             Ahead(u, t) => ~IsAdmissible(lane[u], holders' \ {t}, legacy')]_vars
  BY <1>2
<1>. QED  BY <1>1, <1>3, NextQueueOnDisk, InvariantHolds, PTL DEF Spec, NoOvertaking

-----------------------------------------------------------------------------
(* No slot and no place in the queue is lost to a call that is gone.       *)

(* A record names a process that lives or has died. *)
KnownProcesses ==
  \A t \in waiters \cup holders : pid[t] \in live \cup retired

GhostInv == TypeOK /\ CallsAreAlive /\ KnownProcesses /\ NoGhostRecords

(* Records without a call are those of dead processes, whose ids never      *)
(* come back.                                                               *)
LEMMA GhostsStayDead ==
  ASSUME GhostInv, Tidy, NEW dead \in SUBSET Pid,
         live' = live \ dead, retired' = retired \cup dead,
         \A t \in Token : pc'[t] # "idle" => pc[t] # "idle" /\ pid[t] \notin dead,
         \A t \in waiters' \cup holders' :
           t \in Token /\ pid[t] \in live \cup retired,
         \A t \in waiters' : pid[t] \in live' => pc'[t] \in {"queued", "polling", "leaving"},
         \A t \in holders' : pid[t] \in live' => pc'[t] = "holding"
  PROVE  CallsAreAlive' /\ KnownProcesses' /\ NoGhostRecords'
<1>1. \A t \in Token : t \in waiters' \cup holders' \/ pc'[t] # "idle" => pid'[t] = pid[t]
  BY DEF Tidy, Mentioned
<1>2. CallsAreAlive'
  BY <1>1 DEF GhostInv, CallsAreAlive
<1>3. KnownProcesses' /\ NoGhostRecords'
  BY <1>1 DEF KnownProcesses, NoGhostRecords
<1>. QED  BY <1>2, <1>3

LEMMA NextGhostInv ==
  ASSUME "pid_reuse" \notin Faults, "write_error" \notin Faults
  PROVE  GhostInv /\ [Next]_vars => GhostInv'
<1> SUFFICES ASSUME GhostInv, [Next]_vars
             PROVE  CallsAreAlive' /\ KnownProcesses' /\ NoGhostRecords'
  BY NextTypeOK DEF GhostInv
<1>. DEFINE Goal == CallsAreAlive' /\ KnownProcesses' /\ NoGhostRecords'
<1>0. TypeOK /\ CallsAreAlive /\ KnownProcesses /\ NoGhostRecords
  BY DEF GhostInv
<1>1. ASSUME NEW t \in Token, NEW l \in Lane, NEW p \in Pid, Stamp(t, l, p) PROVE Goal
  <2>1. /\ t \notin waiters /\ t \notin holders /\ p \in live
        /\ pc' = [pc EXCEPT ![t] = "stamped"] /\ pid' = [pid EXCEPT ![t] = p]
        /\ UNCHANGED <<waiters, holders, live, retired>>
    BY <1>1 DEF Stamp, Mentioned, records
  <2>. QED
    BY <2>1, <1>0 DEF TypeOK, CallsAreAlive, KnownProcesses, NoGhostRecords
<1>2. ASSUME NEW t \in Token, Enqueue(t) PROVE Goal
  <2>1. /\ pc[t] = "stamped" /\ pc' = [pc EXCEPT ![t] = "queued"]
        /\ waiters' = waiters \cup {t}
        /\ UNCHANGED <<pid, holders, live, retired>>
    BY <1>2 DEF Enqueue, calls
  <2>. QED
    BY <2>1, <1>0 DEF TypeOK, CallsAreAlive, KnownProcesses, NoGhostRecords
<1>3. ASSUME NEW t \in Token,
             CheckCancel(t) \/ PollInVain(t) \/ Admit(t) \/ Leave(t) \/ Release(t)
      PROVE  Goal
  <2>1. /\ Tidy /\ live' = live /\ retired' = retired /\ pc[t] # "idle"
        /\ \A u \in Token \ {t} : pc'[u] = pc[u]
    BY <1>3, <1>0 DEF CheckCancel, PollInVain, Admit, Leave, Release, records, TypeOK
  <2>2. waiters' \subseteq waiters \cup {t} /\ holders' \subseteq holders \cup {t}
    BY <1>3, ReclaimedSubset DEF CheckCancel, PollInVain, Admit, Leave, Release, records
  <2>3. /\ t \in waiters' /\ pid[t] \in live => pc'[t] \in {"queued", "polling", "leaving"}
        /\ t \in holders' /\ pid[t] \in live => pc'[t] = "holding"
    <3>0. /\ pc \in [Token -> PC] /\ waiters \subseteq Token
          /\ t \in waiters /\ pid[t] \in live => pc[t] \in {"queued", "polling", "leaving"}
          /\ t \in holders /\ pid[t] \in live => pc[t] = "holding"
      BY <1>0 DEF TypeOK, NoGhostRecords
    <3>1. CASE CheckCancel(t) \/ Leave(t) \/ Release(t)
      BY <3>0, <3>1 DEF CheckCancel, Leave, Release, records
    <3>2. CASE PollInVain(t)
      <4>1. holders' \subseteq holders /\ pc[t] = "polling" /\ pc' = [pc EXCEPT ![t] = "queued"]
        BY <3>2, ReclaimedSubset DEF PollInVain
      <4>. QED  BY <3>0, <4>1
    <3>3. CASE Admit(t)
      <4>1. t \notin waiters' /\ pc' = [pc EXCEPT ![t] = "holding"]
        BY <3>3 DEF Admit
      <4>. QED  BY <3>0, <4>1
    <3>. QED  BY <1>3, <3>1, <3>2, <3>3
  <2>4. /\ \A u \in waiters' : pid[u] \in live => pc'[u] \in {"queued", "polling", "leaving"}
        /\ \A u \in holders' : pid[u] \in live => pc'[u] = "holding"
    BY <2>1, <2>2, <2>3, <1>0 DEF NoGhostRecords, TypeOK
  <2>5. \A u \in waiters' \cup holders' : u \in Token /\ pid[u] \in live \cup retired
    BY <2>1, <2>2, <1>0 DEF TypeOK, KnownProcesses, CallsAreAlive
  <2>6. {} \in SUBSET Pid /\ live' = live \ {} /\ retired' = retired \cup {}
    BY <2>1
  <2>7. \A u \in Token : pc'[u] # "idle" => pc[u] # "idle" /\ pid[u] \notin {}
    BY <2>1
  <2>. QED  BY <2>1, <2>4, <2>5, <2>6, <2>7, GhostsStayDead
<1>4. ASSUME NEW t \in Token, ChildExits(t) PROVE Goal
  <2>1. Tidy /\ UNCHANGED <<pc, waiters, holders, live, retired>>
    BY <1>4 DEF ChildExits, records
  <2>2. {} \in SUBSET Pid /\ live' = live \ {} /\ retired' = retired \cup {}
    BY <2>1
  <2>3. /\ \A u \in waiters' \cup holders' : u \in Token /\ pid[u] \in live \cup retired
        /\ \A u \in waiters' : pid[u] \in live' => pc'[u] \in {"queued", "polling", "leaving"}
        /\ \A u \in holders' : pid[u] \in live' => pc'[u] = "holding"
        /\ \A u \in Token : pc'[u] # "idle" => pc[u] # "idle" /\ pid[u] \notin {}
    BY <2>1, <1>0 DEF TypeOK, KnownProcesses, NoGhostRecords
  <2>. QED  BY <2>1, <2>2, <2>3, GhostsStayDead
<1>5. ASSUME UNCHANGED <<pc, pid, waiters, holders, live, retired>> PROVE Goal
  BY <1>5, <1>0 DEF CallsAreAlive, KnownProcesses, NoGhostRecords
<1>6. ASSUME NEW t \in Token, Cancel(t) PROVE Goal
  BY <1>6, <1>5 DEF Cancel, calls, records
<1>7. ASSUME LegacyStep \/ UNCHANGED vars PROVE Goal
  BY <1>7, <1>5 DEF LegacyStep, vars, calls, records
<1>8. ASSUME NEW p \in Pid, StartProcess(p) PROVE Goal
  <2>1. p \notin live \cup retired /\ live' = live \cup {p}
        /\ UNCHANGED <<pc, pid, waiters, holders, retired>>
    BY <1>8 DEF StartProcess, calls, records
  <2>. QED  BY <2>1, <1>0 DEF TypeOK, CallsAreAlive, KnownProcesses, NoGhostRecords
<1>9. ASSUME NEW p \in Pid, Die(p), Tidy,
             \A u \in waiters' : u \in waiters \/ (u \in Token /\ pid[u] = p),
             \A u \in holders' : u \in holders \/ (u \in Token /\ pid[u] = p)
      PROVE  Goal
  <2>1. /\ live' = live \ {p} /\ retired' = retired \cup {p} /\ {p} \in SUBSET Pid /\ p \in live
        /\ \A u \in Token : pc'[u] = IF pid[u] = p THEN "idle" ELSE pc[u]
    BY <1>9 DEF Die
  <2>2. \A u \in waiters' \cup holders' : u \in Token /\ pid[u] \in live \cup retired
    BY <2>1, <1>9, <1>0 DEF TypeOK, KnownProcesses
  <2>3. /\ \A u \in waiters' : pid[u] \in live' => pc'[u] \in {"queued", "polling", "leaving"}
        /\ \A u \in holders' : pid[u] \in live' => pc'[u] = "holding"
    BY <2>1, <2>2, <1>9, <1>0 DEF NoGhostRecords, TypeOK
  <2>4. \A u \in Token : pc'[u] # "idle" => pc[u] # "idle" /\ pid[u] \notin {p}
    BY <2>1
  <2>. QED  BY <2>1, <2>2, <2>3, <2>4, <1>9, GhostsStayDead
<1>10. ASSUME NEW p \in Pid, Crash(p) PROVE Goal
  BY <1>10, <1>9 DEF Crash, records
<1>11. ASSUME NEW t \in Token, CrashInEnqueue(t) \/ CrashInAdmit(t) PROVE Goal
  <2>1. Die(pid[t]) /\ Tidy /\ pid[t] \in Pid
    BY <1>11, <1>0 DEF CrashInEnqueue, CrashInAdmit, Die, TypeOK
  <2>2. waiters' \subseteq waiters \cup {t} /\ holders' \subseteq holders \cup {t}
    BY <1>11, ReclaimedSubset DEF CrashInEnqueue, CrashInAdmit
  <2>. QED  BY <2>1, <2>2, <1>9
<1>12. ASSUME NEW t \in Token, EnqueueFails(t) \/ PollFails(t) \/ AdmitFails(t) PROVE FALSE
  BY <1>12 DEF EnqueueFails, PollFails, AdmitFails
<1>. QED
  BY <1>1, <1>2, <1>3, <1>4, <1>6, <1>7, <1>8, <1>10, <1>11, <1>12 DEF Next

(* Where writes succeed and process ids are not reused, every record of a  *)
(* live process has its call behind it (NoGhostRecords), even if records   *)
(* cannot be read at times.                                                *)
THEOREM NoSlotIsLost ==
  ASSUME "pid_reuse" \notin Faults, "write_error" \notin Faults
  PROVE  Spec => []NoGhostRecords
<1>1. Init => GhostInv
  <2>1. Init => CallsAreAlive /\ KnownProcesses /\ NoGhostRecords
    BY DEF Init, CallsAreAlive, KnownProcesses, NoGhostRecords
  <2>. QED  BY <2>1, InitTypeOK DEF GhostInv
<1>2. GhostInv => NoGhostRecords
  BY DEF GhostInv
<1>. QED  BY <1>1, <1>2, NextGhostInv, PTL DEF Spec

=============================================================================
