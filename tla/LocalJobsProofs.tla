--------------------------- MODULE LocalJobsProofs ---------------------------
(***************************************************************************)
(* Proofs about LocalJobs for any number of jobs and deliveries and any    *)
(* combination of faults.                                                  *)
(*                                                                         *)
(* The argument of the code is that of its keys: every put draws a fresh   *)
(* one, so a key that is not yet published is known to one execution only, *)
(* and nobody else can delete its object.  KeysAreFresh says so.           *)
(***************************************************************************)
EXTENDS LocalJobs, FiniteSetTheorems, SequenceTheorems, TLAPS

Size(j) == Len(Plan(j))

(* Where an execution is between its claim and its settling. *)
Working == {"prepare", "put", "publish", "tidy", "discard", "drop", "infer", "succeed", "fail"}

(* Where the key at pos[e] is not yet published, and may still be. *)
Ahead == {"idle", "called", "prepare", "put", "publish", "drop", "infer"}

(* The variables are functions, with the values TypeOK gives them. *)
Functions ==
  /\ rows \in [Job -> UNION {[Named(j) -> KeyOf(j) \cup {NoKey}] : j \in Job}]
  /\ pos \in [Invocation -> Nat]

(* What the place of an execution says about it. *)
Placed(e) ==
  /\ pc[e] \in {"put", "publish", "tidy", "discard"} => pos[e] <= Size(JobOf[e])
  /\ pc[e] \in {"idle", "called", "prepare"} => pos[e] = 1
  /\ pc[e] = "prepare" => Len(Inputs(JobOf[e])) > 0
  /\ pc[e] = "drop" => pos[e] = 2 /\ e \in staged
  /\ pc[e] = "succeed" => pos[e] = Size(JobOf[e]) + 1
  /\ pc[e] = "tidy" => previous[e] # NoKey
  /\ pc[e] \in Working => e \in claimed
  /\ e \in claimed => pc[e] \notin {"idle", "called"} /\ state[JobOf[e]] # "queued"
  /\ e \in staged => e \in claimed /\ JobOf[e] \in Uploaded

Control == \A e \in Invocation : Placed(e)

(* A synchronous job runs, with no task to be reconciled with, until its   *)
(* one execution settles it.                                               *)
SyncJobs ==
  /\ \A j \in SyncJob : task[j] = "none" /\ \A prior \in Open : <<j, prior>> \notin readers
  /\ \A e \in Invocation :
       JobOf[e] \in SyncJob =>
         /\ pc[e] \notin {"idle", "called", "prepare"}
         /\ pc[e] \in Working => state[JobOf[e]] = "running"

(* Every artifact before the present one has its row. *)
Progress ==
  \A e \in Invocation :
    LET j == JobOf[e] IN
    /\ \A i \in 1 .. Size(j) : i < pos[e] => rows[j][Plan(j)[i]] # NoKey
    /\ pc[e] = "tidy" => rows[j][Plan(j)[pos[e]]] # NoKey

(* Keys a row, the queue or an execution about to delete one mentions. *)
Used(k) == Referenced(k) \/ k \in pending \/ \E d \in Invocation : previous[d] = k

KeysAreFresh ==
  \A e \in Invocation : \A i \in 1 .. Size(JobOf[e]) :
    i > pos[e] \/ (i = pos[e] /\ pc[e] \in Ahead) => ~Used(<<e, i>>)

(* An object stays where it is until its row is written. *)
ObjectsStay == \A e \in Invocation : pc[e] = "publish" => Key(e) \in objects

-----------------------------------------------------------------------------
(* Plans                                                                   *)

LEMMA PlanFacts ==
  ASSUME LocalJobsAssumption, NEW j \in Job
  PROVE  /\ Size(j) \in Nat /\ Len(Inputs(j)) \in Nat /\ Len(Inputs(j)) <= Size(j)
         /\ \A i \in 1 .. Size(j) : Plan(j)[i] \in Named(j)
         /\ Inputs(j) # <<>> => Len(Inputs(j)) > 0
         /\ j \notin SyncJob \cup Speech =>
              Len(Inputs(j)) > 0 /\ Plan(j)[1] = SourceName[j]
<1>. DEFINE In == Inputs(j)
            Out == Outputs(j)
            Width == Cardinality(Places(j))
            Anything == {SourceName[j], "extracted-audio.wav"} \cup {Out[i] : i \in 1 .. Width}
<1>1. Width \in Nat
  <2>1. Len(FormatOrder) = 11
    BY DEF FormatOrder
  <2>2. \A i \in Places(j) : i \in 1 .. 11
    BY <2>1 DEF Places
  <2>3. IsFiniteSet(1 .. 11)
    <3>1. 1 \in Int /\ 11 \in Int
      OBVIOUS
    <3>2. \A a, b \in Int : IsFiniteSet(a .. b)
      BY FS_Interval
    <3>. QED  BY <3>1, <3>2
  <2>. QED  BY <2>2, <2>3, FS_Subset, FS_CardinalityType
<1>. HIDE DEF Width
<1>2. Out \in Seq(Anything)
  <2>1. Out \in [1 .. Width -> Anything]
    BY DEF Outputs, Width
  <2>. QED  BY <1>1, <2>1
<1>3. In \in Seq(Anything) /\ (j \notin SyncJob \cup Speech => Len(In) > 0 /\ In[1] = SourceName[j])
  <2>1. <<>> \in Seq(Anything) /\ <<"extracted-audio.wav">> \in Seq(Anything)
        /\ <<SourceName[j]>> \in Seq(Anything)
    OBVIOUS
  <2>. DEFINE Tail1 == IF j \in Video THEN <<"extracted-audio.wav">> ELSE <<>>
  <2>2. Tail1 \in Seq(Anything)
    BY <2>1
  <2>. HIDE DEF Tail1, Anything
  <2>3. /\ <<SourceName[j]>> \o Tail1 \in Seq(Anything)
        /\ Len(<<SourceName[j]>> \o Tail1) = Len(<<SourceName[j]>>) + Len(Tail1)
        /\ (<<SourceName[j]>> \o Tail1)[1] = <<SourceName[j]>>[1]
    BY <2>1, <2>2, ConcatProperties
  <2>4. Len(<<SourceName[j]>>) = 1 /\ <<SourceName[j]>>[1] = SourceName[j] /\ Len(Tail1) \in Nat
    BY <2>2, LenProperties
  <2>. QED  BY <2>1, <2>3, <2>4 DEF Inputs, Tail1
<1>. HIDE DEF In, Out, Anything
<1>4. /\ Plan(j) = In \o Out /\ Len(In) \in Nat /\ Len(Out) \in Nat
      /\ Len(In \o Out) = Len(In) + Len(Out)
      /\ \A i \in 1 .. Len(In) + Len(Out) :
           (In \o Out)[i] = IF i <= Len(In) THEN In[i] ELSE Out[i - Len(In)]
  BY <1>2, <1>3, ConcatProperties, LenProperties DEF Plan, In, Out
<1>5. Size(j) \in Nat /\ Len(In) \in Nat /\ Len(In) <= Size(j)
  BY <1>4 DEF Size
<1>6. j \notin SyncJob \cup Speech => Len(In) > 0 /\ Plan(j)[1] = SourceName[j]
  BY <1>3, <1>4
<1>7. \A i \in 1 .. Size(j) : Plan(j)[i] \in Named(j)
  BY DEF Size, Named
<1>8. In # <<>> => Len(In) > 0
  BY <1>3, <1>4, EmptySeq
<1>. QED  BY <1>5, <1>6, <1>7, <1>8 DEF In

(* Keys of different executions, or of different puts of one, differ. *)
LEMMA KeyFacts ==
  ASSUME LocalJobsAssumption, NEW e \in Invocation, NEW i \in 1 .. Size(JobOf[e])
  PROVE  /\ <<e, i>> \in KeyOf(JobOf[e]) /\ <<e, i>> \in AnyKey /\ <<e, i>> # NoKey
         /\ JobOf[e] \in Job
<1>1. JobOf[e] \in Job
  BY DEF LocalJobsAssumption
<1>2. <<e, i>> \in KeyOf(JobOf[e])
  BY DEF KeyOf, Size
<1>3. <<e, i>> \in AnyKey
  BY <1>1, <1>2 DEF AnyKey
<1>. QED  BY <1>1, <1>2, <1>3 DEF LocalJobsAssumption

-----------------------------------------------------------------------------
(* Types and places                                                        *)

Shape == TypeOK /\ Functions /\ Control

(* What one step of an execution leaves alone. *)
Alone(e) ==
  \A d \in Invocation \ {e} :
    /\ pc'[d] = pc[d] /\ pos'[d] = pos[d] /\ previous'[d] = previous[d]
    /\ (d \in claimed' <=> d \in claimed) /\ (d \in staged' <=> d \in staged)

LEMMA StepAlone ==
  ASSUME Shape, NEW e \in Invocation, Deliver(e) \/ Step(e) \/ Interrupt(e) \/ Kill(e)
  PROVE  Alone(e)
<1>0. /\ DOMAIN pc = Invocation /\ DOMAIN pos = Invocation /\ DOMAIN previous = Invocation
  BY DEF Shape, TypeOK, Functions
<1>1. CASE Deliver(e) \/ Claim(e) \/ Decline(e) \/ Prepare(e) \/ PrepareFails(e) \/ Put(e) \/ PutFails(e)
  BY <1>0, <1>1 DEF Alone, Deliver, Claim, Decline, Prepare, PrepareFails, Put, PutFails, Goto
<1>2. CASE Publish(e) \/ PublishFails(e) \/ Tidy(e) \/ Discard(e)
  BY <1>0, <1>2 DEF Alone, Publish, PublishFails, Tidy, Discard, Afterwards, Goto
<1>3. CASE DropUpload(e) \/ Infer(e) \/ InferFails(e) \/ Succeed(e) \/ SucceedFails(e) \/ Fail(e)
           \/ Finally(e) \/ Interrupt(e) \/ Kill(e)
  BY <1>0, <1>3 DEF Alone, DropUpload, Infer, InferFails, Succeed, SucceedFails, Fail, Finally,
                    Interrupt, Kill, Goto
<1>. QED  BY <1>1, <1>2, <1>3 DEF Step

(* States only go forward. *)
Forward == \A j \in Job : (state'[j] = "queued" => state[j] = "queued")

LEMMA StatesGoForward ==
  ASSUME TypeOK, [Next]_vars
  PROVE  Forward /\ state' \in [Job -> Open \cup Settled]
<1>. DEFINE Goal == Forward /\ state' \in [Job -> Open \cup Settled]
<1>1. ASSUME NEW j, NEW final \in Settled, Settle(j, final) PROVE Goal
  BY <1>1 DEF TypeOK, Settle, Forward, Settled, Open
<1>2. ASSUME state' = state PROVE Goal
  BY <1>2 DEF TypeOK, Forward
<1>3. ASSUME NEW e \in Invocation, Claim(e) PROVE Goal
  BY <1>3 DEF Claim, TypeOK, Forward, Open
<1>4. ASSUME NEW e \in Invocation, Succeed(e) \/ Fail(e) PROVE Goal
  BY <1>1, <1>2, <1>4 DEF Succeed, Fail, Settled
<1>5. ASSUME NEW e \in Invocation,
             \/ Deliver(e) \/ Decline(e) \/ Prepare(e) \/ PrepareFails(e) \/ Put(e) \/ PutFails(e)
             \/ Publish(e) \/ PublishFails(e) \/ Tidy(e) \/ Discard(e) \/ DropUpload(e)
             \/ Infer(e) \/ InferFails(e) \/ SucceedFails(e) \/ Finally(e) \/ Interrupt(e) \/ Kill(e)
      PROVE  Goal
  <2>1. state' = state
    BY <1>5 DEF Deliver, Decline, Prepare, PrepareFails, Put, PutFails, Publish, PublishFails, Tidy,
                Discard, DropUpload, Infer, InferFails, SucceedFails, Finally, Interrupt, Kill, jobVars
  <2>. QED  BY <2>1, <1>2
<1>6. ASSUME NEW j \in Job, NEW prior \in Open, Resolve(j, prior) PROVE Goal
  BY <1>6 DEF Resolve, TypeOK, Forward, Open, Settled
<1>7. ASSUME NEW j \in Job, Poll(j) \/ ExpireUpload(j) PROVE Goal
  BY <1>2, <1>7 DEF Poll, ExpireUpload, jobVars
<1>8. ASSUME NEW k, Drain(k) PROVE Goal
  BY <1>2, <1>8 DEF Drain, jobVars
<1>9. CASE UNCHANGED vars
  BY <1>2, <1>9 DEF vars, jobVars
<1>. QED  BY <1>3, <1>4, <1>5, <1>6, <1>7, <1>8, <1>9 DEF Next, Step


LEMMA ControlAlone ==
  ASSUME LocalJobsAssumption, Control, NEW e \in Invocation, Alone(e), Forward, Placed(e)'
  PROVE  Control'
<1> SUFFICES ASSUME NEW d \in Invocation \ {e} PROVE Placed(d)'
  BY DEF Control
<1>1. JobOf[d] \in Job
  BY DEF LocalJobsAssumption
<1>. QED  BY <1>1 DEF Control, Placed, Alone, Forward

(* The place after the artifact at pos[e]. *)
LEMMA AfterFacts ==
  ASSUME LocalJobsAssumption, Shape, NEW e \in Invocation, pc[e] \in {"publish", "tidy"}, Afterwards(e),
         staged' = staged, claimed' = claimed, Forward
  PROVE  /\ pc' = [pc EXCEPT ![e] = After(e)] /\ pos' = [pos EXCEPT ![e] = pos[e] + 1]
         /\ After(e) \in {"drop", "infer", "succeed", "put"}
         /\ pos[e] \in 1 .. Size(JobOf[e])
         /\ Placed(e)'
<1>. DEFINE j == JobOf[e]
<1>1. j \in Job /\ Size(j) \in Nat /\ Len(Inputs(j)) \in Nat
  BY PlanFacts DEF LocalJobsAssumption
<1>2. pos[e] \in 1 .. Size(j)
  BY <1>1 DEF Shape, TypeOK, Control, Placed, Size
<1>3. /\ pc' = [pc EXCEPT ![e] = After(e)] /\ pos' = [pos EXCEPT ![e] = pos[e] + 1]
      /\ After(e) \in {"drop", "infer", "succeed", "put"}
  BY DEF Afterwards, Goto, After
<1>4. /\ After(e) = "drop" => pos[e] = 1 /\ e \in staged
      /\ After(e) = "succeed" => pos[e] = Size(j)
      /\ After(e) = "put" => pos[e] # Size(j)
  BY DEF After, Size
<1>5. pc'[e] = After(e) /\ pos'[e] = pos[e] + 1
  BY <1>3 DEF Shape, TypeOK, Functions
<1>6. Placed(e)'
  <2>1. Placed(e) /\ (state[j] # "queued" => state'[j] # "queued")
    BY <1>1 DEF Shape, Control, Forward
  <2>2. e \in claimed
    BY <2>1 DEF Placed, Working
  <2>. QED  BY <1>1, <1>2, <1>3, <1>4, <1>5, <2>1, <2>2 DEF Placed, Working
<1>. QED  BY <1>2, <1>3, <1>6

LEMMA StepShape ==
  ASSUME LocalJobsAssumption, Shape, NEW e \in Invocation, [Next]_vars,
         Deliver(e) \/ Step(e) \/ Interrupt(e) \/ Kill(e)
  PROVE  Shape'
<1>. DEFINE j == JobOf[e]
<1>0. TypeOK /\ Functions /\ Control /\ Placed(e) /\ Forward /\ Alone(e) /\ state' \in [Job -> Open \cup Settled]
  BY StatesGoForward, StepAlone DEF Shape, Control
<1>1. j \in Job /\ Size(j) \in Nat /\ Len(Inputs(j)) \in Nat /\ Len(Inputs(j)) <= Size(j)
      /\ pos[e] \in 1 .. Size(j) + 1 /\ pos[e] \in Nat
  BY <1>0, PlanFacts DEF LocalJobsAssumption, TypeOK, Functions, Size
<1>2. CASE Deliver(e) \/ Claim(e) \/ Decline(e)
  <2>1. TypeOK' /\ Functions'
    BY <1>0, <1>1, <1>2 DEF TypeOK, Functions, Deliver, Claim, Decline, Goto, storeVars, Ended
  <2>2. CASE Deliver(e) \/ Decline(e)
    BY <1>0, <1>1, <2>1, <2>2, ControlAlone
    DEF TypeOK, Shape, Placed, Deliver, Decline, Goto, At, Working, Ended
  <2>3. CASE Claim(e)
    <3>1. pc'[e] = (IF Inputs(j) = <<>> THEN "infer" ELSE "prepare") /\ pos'[e] = 1
      BY <1>0, <1>1, <2>3 DEF TypeOK, Placed, Claim, Goto, At
    <3>2. Inputs(j) # <<>> => Len(Inputs(j)) > 0
      BY <1>1, PlanFacts
    <3>3. claimed' = claimed \cup {e} /\ state'[j] = "running" /\ staged' = staged
      BY <1>0, <1>1, <2>3 DEF TypeOK, Claim
    <3>4. Placed(e)'
      BY <1>0, <1>1, <3>1, <3>2, <3>3 DEF Placed, Working
    <3>. QED  BY <1>0, <2>1, <3>4, ControlAlone DEF Shape
  <2>. QED  BY <1>2, <2>2, <2>3
<1>3. CASE Prepare(e) \/ PrepareFails(e)
  <2>1. TypeOK' /\ Functions'
    <3>1. staged' \subseteq Invocation
      BY <1>0, <1>3 DEF TypeOK, Prepare, PrepareFails
    <3>2. pc' = [pc EXCEPT ![e] = "put"] \/ pc' = [pc EXCEPT ![e] = "fail"]
      BY <1>3 DEF Prepare, PrepareFails, Goto
    <3>3. UNCHANGED <<jobVars, storeVars, pos, claimed, outcome, previous, readers>>
      BY <1>3 DEF Prepare, PrepareFails
    <3>. QED  BY <1>0, <3>1, <3>2, <3>3 DEF TypeOK, Functions, storeVars, jobVars
  <2>2. Placed(e)'
    BY <1>0, <1>1, <1>3 DEF TypeOK, Placed, Forward, Prepare, PrepareFails, Goto, At, Working, Ended, jobVars
  <2>. QED  BY <1>0, <2>1, <2>2, ControlAlone DEF Shape
<1>4. CASE Put(e) \/ PutFails(e)
  <2>1. Key(e) \in AnyKey
    BY <1>0, <1>1, <1>4, KeyFacts DEF Put, PutFails, At, Placed, Key
  <2>2. TypeOK' /\ Functions'
    BY <1>0, <1>1, <1>4, <2>1 DEF TypeOK, Functions, Put, PutFails, Goto, jobVars, Ended
  <2>3. Placed(e)'
    BY <1>0, <1>1, <1>4 DEF TypeOK, Placed, Forward, Put, PutFails, Goto, At, Working, Ended
  <2>. QED  BY <1>0, <2>2, <2>3, ControlAlone DEF Shape
<1>5. CASE Publish(e)
  <2>. DEFINE name == Plan(j)[pos[e]]
              old == rows[j][name]
  <2>1. pc[e] = "publish" /\ pos[e] \in 1 .. Size(j)
    BY <1>0, <1>1, <1>5 DEF Publish, At, Placed
  <2>2. Key(e) \in KeyOf(j) /\ Key(e) \in AnyKey /\ name \in Named(j)
    BY <1>1, <2>1, KeyFacts, PlanFacts DEF Key
  <2>3. /\ rows' = [rows EXCEPT ![j][name] = Key(e)]
        /\ rows[j] \in [Named(j) -> KeyOf(j) \cup {NoKey}]
        /\ old = NoKey \/ old \in AnyKey
    BY <1>0, <1>1, <1>5, <2>2 DEF Publish, TypeOK, AnyKey
  <2>. HIDE DEF name, old
  <2>4. /\ \A i \in Job : rows'[i] \in [Named(i) -> KeyOf(i) \cup {NoKey}]
        /\ rows' \in [Job -> UNION {[Named(i) -> KeyOf(i) \cup {NoKey}] : i \in Job}]
    <3>1. DOMAIN rows = Job /\ \A i \in Job : rows[i] \in [Named(i) -> KeyOf(i) \cup {NoKey}]
      BY <1>0 DEF TypeOK, Functions
    <3>2. DOMAIN rows' = Job /\ rows' = [i \in Job |-> rows'[i]]
      BY <2>3, <3>1
    <3>3. \A i \in Job : rows'[i] = IF i = j THEN [rows[j] EXCEPT ![name] = Key(e)] ELSE rows[i]
      BY <2>3, <3>1
    <3>4. ASSUME NEW i \in Job PROVE rows'[i] \in [Named(i) -> KeyOf(i) \cup {NoKey}]
      BY <2>2, <2>3, <3>1, <3>3
    <3>. QED  BY <3>2, <3>4
  <2>5. UNCHANGED <<jobVars, objects, claimed, staged, outcome, readers>>
    BY <1>5 DEF Publish
  <2>6. CASE old = NoKey
    <3>1. Afterwards(e) /\ pending' = pending /\ previous' = previous
      BY <1>5, <2>6 DEF Publish, name, old
    <3>2. Placed(e)' /\ pc' = [pc EXCEPT ![e] = After(e)] /\ pos' = [pos EXCEPT ![e] = pos[e] + 1]
          /\ After(e) \in {"drop", "infer", "succeed", "put"}
      BY <1>0, <2>1, <2>5, <3>1, AfterFacts DEF Shape
    <3>3. TypeOK' /\ Functions'
      <4>1. pos' \in [Invocation -> Nat] /\ \A d \in Invocation : pos'[d] \in 1 .. Len(Plan(JobOf[d])) + 1
        BY <1>0, <1>1, <2>1, <3>2 DEF TypeOK, Functions, Size
      <4>2. pc' \in [Invocation -> {"idle", "called", "prepare", "put", "publish", "tidy", "discard",
                                    "drop", "infer", "succeed", "fail", "finally"} \cup Ended]
        BY <1>0, <3>2 DEF TypeOK
      <4>. QED  BY <1>0, <2>4, <2>5, <3>1, <4>1, <4>2 DEF TypeOK, Functions, jobVars
    <3>. QED  BY <1>0, <3>2, <3>3, ControlAlone DEF Shape
  <2>7. CASE old # NoKey
    <3>1. /\ pending' = pending \cup {old} /\ previous' = [previous EXCEPT ![e] = old]
          /\ pc' = [pc EXCEPT ![e] = "tidy"] /\ pos' = pos
      BY <1>5, <2>7 DEF Publish, Goto, name, old
    <3>2. TypeOK' /\ Functions'
      BY <1>0, <1>1, <2>1, <2>3, <2>4, <2>5, <2>7, <3>1 DEF TypeOK, Functions, jobVars
    <3>3. Placed(e)'
      <4>1. pc'[e] = "tidy" /\ previous'[e] = old /\ pos'[e] = pos[e]
        BY <1>0, <3>1 DEF TypeOK
      <4>. QED  BY <1>0, <1>1, <2>1, <2>5, <2>7, <4>1 DEF Placed, Working, jobVars
    <3>. QED  BY <1>0, <3>2, <3>3, ControlAlone DEF Shape
  <2>. QED  BY <2>6, <2>7
<1>6. CASE Tidy(e)
  <2>1. pc[e] = "tidy" /\ previous[e] \in AnyKey
    BY <1>0, <1>6 DEF Tidy, At, Placed, TypeOK
  <2>2. Afterwards(e) /\ UNCHANGED <<jobVars, rows, claimed, staged, outcome, readers>>
    BY <1>6 DEF Tidy
  <2>3. Placed(e)' /\ pc' = [pc EXCEPT ![e] = After(e)] /\ pos' = [pos EXCEPT ![e] = pos[e] + 1]
        /\ After(e) \in {"drop", "infer", "succeed", "put"} /\ pos[e] \in 1 .. Size(j)
    BY <1>0, <2>1, <2>2, AfterFacts DEF Shape
  <2>4. previous' = [previous EXCEPT ![e] = NoKey] /\ objects' \subseteq AnyKey /\ pending' \subseteq AnyKey
    BY <1>0, <1>6, <2>1 DEF Tidy, Processed, TypeOK
  <2>5. TypeOK' /\ Functions'
    BY <1>0, <1>1, <2>2, <2>3, <2>4 DEF TypeOK, Functions, jobVars, Size
  <2>. QED  BY <1>0, <2>3, <2>5, ControlAlone DEF Shape
<1>7. CASE PublishFails(e) \/ Discard(e)
  <2>1. Key(e) \in AnyKey
    BY <1>0, <1>1, <1>7, KeyFacts DEF PublishFails, Discard, At, Placed, Key
  <2>2. objects' \subseteq AnyKey /\ pending' \subseteq AnyKey
    BY <1>0, <1>7, <2>1 DEF PublishFails, Discard, Processed, TypeOK, storeVars
  <2>3. TypeOK' /\ Functions'
    BY <1>0, <1>1, <1>7, <2>2 DEF TypeOK, Functions, PublishFails, Discard, Goto, storeVars, jobVars, Ended
  <2>4. Placed(e)'
    BY <1>0, <1>1, <1>7 DEF TypeOK, Placed, Forward, PublishFails, Discard, Goto, At, Working, Ended
  <2>. QED  BY <1>0, <2>3, <2>4, ControlAlone DEF Shape
<1>8. CASE DropUpload(e) \/ Infer(e) \/ InferFails(e)
  <2>1. TypeOK' /\ Functions'
    BY <1>0, <1>1, <1>8 DEF TypeOK, Functions, DropUpload, Infer, InferFails, Goto, storeVars, jobVars, Ended
  <2>2. CASE DropUpload(e)
    <3>1. Len(Inputs(j)) > 0
      <4>1. j \notin SyncJob \cup Speech
        BY <1>0, <2>2 DEF DropUpload, At, Placed, LocalJobsAssumption
      <4>. QED  BY <1>1, <4>1, PlanFacts
    <3>2. Placed(e)'
      <4>1. pc[e] = "drop" /\ pos[e] = 2 /\ e \in claimed /\ JobOf[e] \in Uploaded
        BY <1>0, <2>2 DEF DropUpload, At, Placed
      <4>2. /\ \/ pc'[e] = (IF Len(Inputs(j)) = 1 THEN "infer" ELSE "put")
               \/ pc'[e] = "fail"
            /\ pos'[e] = 2 /\ claimed' = claimed /\ state' = state
        BY <1>0, <2>2, <4>1 DEF DropUpload, Goto, TypeOK
      <4>6. e \notin staged' \/ pc'[e] = "fail"
        BY <1>0, <2>2, <4>1 DEF DropUpload, Goto, TypeOK
      <4>3. pc'[e] \in {"infer", "put", "fail"} /\ (pc'[e] = "put" => pos'[e] <= Size(j))
        <5>. DEFINE width == Len(Inputs(j))
                    size == Size(j)
        <5>1. width \in Nat /\ size \in Nat /\ width <= size /\ width > 0
          BY <1>1, <3>1
        <5>2. pc'[e] \in {IF width = 1 THEN "infer" ELSE "put", "fail"} /\ pos'[e] = 2
          BY <4>2
        <5>. HIDE DEF width, size
        <5>3. pc'[e] \in {"infer", "put", "fail"} /\ (pc'[e] = "put" => pos'[e] <= size)
          BY <5>1, <5>2
        <5>. QED  BY <5>3 DEF size
      <4>4. state[j] # "queued"
        BY <1>0, <4>1 DEF Placed
      <4>5. state'[JobOf[e]] # "queued" /\ e \in claimed'
        BY <4>1, <4>2, <4>4
      <4>. QED  BY <4>1, <4>2, <4>3, <4>5, <4>6 DEF Placed
    <3>. QED  BY <1>0, <2>1, <3>2, ControlAlone DEF Shape
  <2>3. CASE Infer(e) \/ InferFails(e)
    <3>1. Placed(e)'
      BY <1>0, <1>1, <2>3
      DEF TypeOK, Placed, Forward, Infer, InferFails, Goto, At, Working, Size, jobVars
    <3>. QED  BY <1>0, <2>1, <3>1, ControlAlone DEF Shape
  <2>. QED  BY <1>8, <2>2, <2>3
<1>9. CASE Succeed(e) \/ SucceedFails(e) \/ Fail(e) \/ Finally(e) \/ Interrupt(e) \/ Kill(e)
  <2>1. TypeOK' /\ Functions'
    BY <1>0, <1>1, <1>9 DEF TypeOK, Functions, Succeed, SucceedFails, Fail, Finally, Interrupt, Kill, Goto,
                            storeVars, jobVars, Ended
  <2>2. Placed(e)'
    BY <1>0, <1>1, <1>9 DEF TypeOK, Placed, Forward, Succeed, SucceedFails, Fail, Finally, Interrupt,
                            Kill, Goto, At, Working, Ended
  <2>. QED  BY <1>0, <2>1, <2>2, ControlAlone DEF Shape
<1>. QED  BY <1>2, <1>3, <1>4, <1>5, <1>6, <1>7, <1>8, <1>9 DEF Step

(* Everyone but an execution leaves the executions alone. *)
LEMMA OthersShape ==
  ASSUME LocalJobsAssumption, Shape, [Next]_vars, UNCHANGED execVars,
         task' = task, rows' = rows, pending' \subseteq AnyKey, objects' \subseteq AnyKey,
         upload' \in [Job -> {"none", "kept", "gone"}], readers' \subseteq Job \X Open
  PROVE  Shape'
<1>1. TypeOK /\ Functions /\ Control /\ Forward /\ state' \in [Job -> Open \cup Settled]
  BY StatesGoForward DEF Shape
<1>2. TypeOK' /\ Functions'
  BY <1>1 DEF TypeOK, Functions, execVars
<1>3. ASSUME NEW e \in Invocation PROVE Placed(e)'
  <2>1. JobOf[e] \in Job
    BY DEF LocalJobsAssumption
  <2>. QED  BY <1>1, <2>1 DEF Control, Placed, Forward, execVars
<1>. QED  BY <1>2, <1>3 DEF Shape, Control

LEMMA NextShape ==
  ASSUME LocalJobsAssumption, Shape, [Next]_vars
  PROVE  Shape'
<1>0. TypeOK
  BY DEF Shape
<1>1. ASSUME NEW e \in Invocation, Deliver(e) \/ Step(e) \/ Interrupt(e) \/ Kill(e) PROVE Shape'
  BY <1>1, StepShape
<1>2. ASSUME NEW j \in Job, Poll(j) \/ ExpireUpload(j) \/ \E prior \in Open : Resolve(j, prior)
      PROVE  Shape'
  <2>1. UNCHANGED execVars /\ task' = task /\ rows' = rows /\ pending' = pending /\ objects' = objects
    BY <1>2 DEF Poll, ExpireUpload, Resolve, jobVars, storeVars
  <2>2. upload' \in [Job -> {"none", "kept", "gone"}]
    BY <1>0, <1>2 DEF TypeOK, Poll, ExpireUpload, Resolve, jobVars
  <2>3. readers' \subseteq Job \X Open
    <3>1. CASE Poll(j)
      BY <1>0, <3>1 DEF Poll, TypeOK
    <3>2. CASE ExpireUpload(j) \/ \E prior \in Open : Resolve(j, prior)
      <4>1. readers' \subseteq readers
        BY <3>2 DEF ExpireUpload, Resolve
      <4>. QED  BY <1>0, <4>1 DEF TypeOK
    <3>. QED  BY <1>2, <3>1, <3>2
  <2>4. pending' \subseteq AnyKey /\ objects' \subseteq AnyKey
    BY <1>0, <2>1 DEF TypeOK
  <2>. QED  BY <2>1, <2>2, <2>3, <2>4, OthersShape
<1>3. ASSUME NEW k \in AnyKey, Drain(k) PROVE Shape'
  <2>1. UNCHANGED <<jobVars, rows, execVars, readers>>
    BY <1>3 DEF Drain
  <2>2. pending' \subseteq AnyKey /\ objects' \subseteq AnyKey
    BY <1>0, <1>3 DEF TypeOK, Drain, Processed
  <2>3. task' = task /\ rows' = rows /\ upload' \in [Job -> {"none", "kept", "gone"}]
        /\ readers' \subseteq Job \X Open /\ UNCHANGED execVars
    BY <1>0, <2>1 DEF TypeOK, jobVars
  <2>. QED  BY <2>2, <2>3, OthersShape
<1>4. CASE UNCHANGED vars
  BY <1>0, <1>4, OthersShape DEF vars, jobVars, storeVars, TypeOK
<1>. QED  BY <1>1, <1>2, <1>3, <1>4 DEF Next

LEMMA InitShape ==
  ASSUME LocalJobsAssumption, Init
  PROVE  Shape
<1>1. TypeOK /\ Functions
  <2>1. \A e \in Invocation : pos[e] \in 1 .. Len(Plan(JobOf[e])) + 1
    <3> SUFFICES ASSUME NEW e \in Invocation PROVE 1 \in 1 .. Size(JobOf[e]) + 1
      BY DEF Init, Size
    <3>1. JobOf[e] \in Job
      BY DEF LocalJobsAssumption
    <3>. QED  BY <3>1, PlanFacts
  <2>2. rows = [j \in Job |-> [n \in Named(j) |-> NoKey]]
        /\ \A j \in Job : [n \in Named(j) |-> NoKey] \in [Named(j) -> KeyOf(j) \cup {NoKey}]
    BY DEF Init
  <2>3. rows \in [Job -> UNION {[Named(j) -> KeyOf(j) \cup {NoKey}] : j \in Job}]
        /\ \A j \in Job : rows[j] \in [Named(j) -> KeyOf(j) \cup {NoKey}]
    BY <2>2
  <2>. QED  BY <2>1, <2>3 DEF Init, TypeOK, Functions, Open, Ended
<1>2. ASSUME NEW e \in Invocation PROVE Placed(e)
  <2>1. JobOf[e] \in Job
    BY DEF LocalJobsAssumption
  <2>. QED  BY <2>1 DEF Init, Placed, Working
<1>. QED  BY <1>1, <1>2 DEF Shape, Control

(* Every variable keeps its type, and every execution its place. *)
THEOREM TypeCorrect == ASSUME LocalJobsAssumption PROVE Spec => []TypeOK
<1>1. Init => Shape
  BY InitShape
<1>2. Shape /\ [Next]_vars => Shape'
  BY NextShape
<1>3. Shape => TypeOK
  BY DEF Shape
<1>. QED  BY <1>1, <1>2, <1>3, PTL DEF Spec

-----------------------------------------------------------------------------
(* What a step does to keys and objects                                    *)

(* Where an execution is about to name its key or to give it up. *)
Spends(e) == (Publish(e) \/ Discard(e)) /\ pos[e] \in 1 .. Size(JobOf[e])

(* The steps that touch what mentions a key. *)
LEMMA StoreSteps ==
  ASSUME Shape, [Next]_vars
  PROVE  \/ UNCHANGED <<rows, pending, previous>> /\ objects \subseteq objects'
         \/ \E e \in Invocation : Publish(e) \/ Tidy(e) \/ Discard(e)
         \/ \E k \in AnyKey : Drain(k)
<1>. DEFINE Goal == UNCHANGED <<rows, pending, previous>> /\ objects \subseteq objects'
<1>1. ASSUME NEW e \in Invocation,
             \/ Deliver(e) \/ Claim(e) \/ Decline(e) \/ Prepare(e) \/ PrepareFails(e)
             \/ Put(e) \/ PutFails(e) \/ PublishFails(e)
      PROVE  Goal
  BY <1>1 DEF Deliver, Claim, Decline, Prepare, PrepareFails, Put, PutFails, PublishFails, storeVars
<1>2. ASSUME NEW e \in Invocation,
             \/ DropUpload(e) \/ Infer(e) \/ InferFails(e) \/ Succeed(e) \/ SucceedFails(e)
             \/ Fail(e) \/ Finally(e) \/ Interrupt(e) \/ Kill(e)
      PROVE  Goal
  BY <1>2 DEF DropUpload, Infer, InferFails, Succeed, SucceedFails, Fail, Finally, Interrupt, Kill, storeVars
<1>3. ASSUME NEW j \in Job, Poll(j) \/ ExpireUpload(j) \/ \E prior \in Open : Resolve(j, prior)
      PROVE  Goal
  BY <1>3 DEF Poll, ExpireUpload, Resolve, storeVars, execVars
<1>4. CASE UNCHANGED vars
  BY <1>4 DEF vars, storeVars, execVars
<1>. QED  BY <1>1, <1>2, <1>3, <1>4 DEF Next, Step

(* A key comes to be mentioned by nobody but its own execution. *)
LEMMA Mentions ==
  ASSUME LocalJobsAssumption, Shape, [Next]_vars, NEW k \in AnyKey, Used(k)'
  PROVE  Used(k) \/ \E e \in Invocation : Spends(e) /\ k = Key(e)
<1>0. TypeOK /\ Functions /\ Control /\ k # NoKey
  BY DEF Shape, LocalJobsAssumption
<1>1. CASE UNCHANGED <<rows, pending, previous>>
  BY <1>1 DEF Used, Referenced
<1>2. ASSUME NEW e \in Invocation, Publish(e), k # Key(e) PROVE Used(k)
  <2>. DEFINE j == JobOf[e]
              name == Plan(j)[pos[e]]
  <2>1. j \in Job /\ pos[e] \in 1 .. Size(j)
    BY <1>0, <1>2, PlanFacts DEF Publish, At, Control, Placed, TypeOK, LocalJobsAssumption, Size
  <2>2. name \in Named(j)
    BY <2>1, PlanFacts
  <2>3. Referenced(k)' => Referenced(k)
    <3>1. DOMAIN rows = Job /\ \A i \in Job : DOMAIN rows[i] = Named(i)
      BY <1>0 DEF TypeOK, Functions
    <3>2. rows' = [rows EXCEPT ![j][name] = Key(e)]
      BY <1>2 DEF Publish
    <3>. HIDE DEF name, j
    <3>3. \A i \in Job : \A n \in Named(i) : rows'[i][n] = rows[i][n] \/ rows'[i][n] = Key(e)
      BY <2>1, <2>2, <3>1, <3>2
    <3>. QED  BY <1>2, <3>3 DEF Referenced
  <2>4. k \in pending' => k \in pending \/ k = rows[j][name]
    BY <1>2 DEF Publish
  <2>5. \A d \in Invocation : previous'[d] = k => previous[d] = k \/ k = rows[j][name]
    BY <1>0, <1>2 DEF Publish, TypeOK
  <2>. QED  BY <2>1, <2>2, <2>3, <2>4, <2>5 DEF Used, Referenced
<1>3. ASSUME NEW e \in Invocation, Tidy(e) PROVE Used(k)
  BY <1>0, <1>3 DEF Tidy, Processed, Used, Referenced, TypeOK
<1>4. ASSUME NEW e \in Invocation, Discard(e), k # Key(e) PROVE Used(k)
  BY <1>0, <1>4 DEF Discard, Processed, Used, Referenced
<1>5. ASSUME NEW i \in AnyKey, Drain(i) PROVE Used(k)
  BY <1>0, <1>5 DEF Drain, Processed, Used, Referenced, execVars
<1>6. ASSUME NEW e \in Invocation, Publish(e) \/ Discard(e)
      PROVE  pos[e] \in 1 .. Size(JobOf[e])
  BY <1>0, <1>6, PlanFacts DEF Publish, Discard, At, Control, Placed, TypeOK, LocalJobsAssumption, Size
<1>. QED  BY <1>1, <1>2, <1>3, <1>4, <1>5, <1>6, StoreSteps DEF Spends

(* An object leaves the store only when no row names it, and somebody has  *)
(* given it up.                                                            *)
LEMMA Removals ==
  ASSUME LocalJobsAssumption, Shape, [Next]_vars, NEW k \in objects, k \notin objects'
  PROVE  /\ ~Referenced(k) /\ rows' = rows
         /\ \/ Used(k)
            \/ \E e \in Invocation : Discard(e) /\ Spends(e) /\ k = Key(e)
<1>0. TypeOK /\ Functions /\ Control
  BY DEF Shape
<1>1. CASE objects \subseteq objects'
  BY <1>1
<1>2. ASSUME NEW e \in Invocation, Publish(e) PROVE FALSE
  BY <1>2 DEF Publish
<1>3. ASSUME NEW e \in Invocation, Tidy(e) PROVE ~Referenced(k) /\ rows' = rows /\ Used(k)
  BY <1>3 DEF Tidy, Processed, Used
<1>4. ASSUME NEW e \in Invocation, Discard(e) PROVE ~Referenced(k) /\ rows' = rows /\ k = Key(e)
  BY <1>4 DEF Discard, Processed
<1>5. ASSUME NEW i \in AnyKey, Drain(i) PROVE ~Referenced(k) /\ rows' = rows /\ Used(k)
  BY <1>5 DEF Drain, Processed, Used
<1>6. ASSUME NEW e \in Invocation, Discard(e) PROVE pos[e] \in 1 .. Size(JobOf[e])
  BY <1>0, <1>6, PlanFacts DEF Discard, At, Control, Placed, TypeOK, LocalJobsAssumption, Size
<1>. QED  BY <1>1, <1>2, <1>3, <1>4, <1>5, <1>6, StoreSteps DEF Spends

(* An execution only goes forward through its plan, and does not come back *)
(* to a key it has spent.                                                  *)
LEMMA OwnKeys ==
  ASSUME LocalJobsAssumption, Shape, NEW e \in Invocation,
         Deliver(e) \/ Step(e) \/ Interrupt(e) \/ Kill(e)
  PROVE  \/ pos'[e] = pos[e] /\ ~Spends(e) /\ pc[e] \in Ahead
         \/ pos'[e] = pos[e] /\ pc'[e] \notin Ahead
         \/ pos'[e] = pos[e] + 1
<1>0. TypeOK /\ Functions
  BY DEF Shape
<1>1. CASE Deliver(e) \/ Claim(e) \/ Decline(e) \/ Prepare(e) \/ PrepareFails(e) \/ Put(e) \/ PutFails(e)
           \/ DropUpload(e) \/ Infer(e)
  <2>1. pc[e] \in {"idle", "called", "prepare", "put", "drop", "infer"}
    BY <1>1 DEF Deliver, Claim, Decline, Prepare, PrepareFails, Put, PutFails, DropUpload, Infer, At
  <2>2. ~Spends(e) /\ pc[e] \in Ahead
    BY <2>1 DEF Spends, Publish, Discard, At, Ahead
  <2>3. pos' = pos
    BY <1>1 DEF Deliver, Claim, Decline, Prepare, PrepareFails, Put, PutFails, DropUpload, Infer
  <2>. QED  BY <2>2, <2>3
<1>2. CASE Publish(e) \/ Tidy(e)
  BY <1>0, <1>2 DEF TypeOK, Functions, Publish, Tidy, Afterwards, Goto, Ahead
<1>3. CASE PublishFails(e) \/ Discard(e) \/ InferFails(e) \/ Succeed(e) \/ SucceedFails(e) \/ Fail(e)
           \/ Finally(e) \/ Interrupt(e) \/ Kill(e)
  BY <1>0, <1>3 DEF TypeOK, Functions, PublishFails, Discard, InferFails, Succeed, SucceedFails, Fail,
                    Finally, Interrupt, Kill, Goto, Ahead
<1>. QED  BY <1>1, <1>2, <1>3 DEF Step

(* Nobody but an execution moves it. *)
LEMMA NotMine ==
  ASSUME Shape, [Next]_vars, NEW e \in Invocation,
         ~(Deliver(e) \/ Step(e) \/ Interrupt(e) \/ Kill(e))
  PROVE  /\ pc'[e] = pc[e] /\ pos'[e] = pos[e] /\ previous'[e] = previous[e] /\ ~Spends(e)
         /\ (e \in claimed' <=> e \in claimed) /\ (e \in staged' <=> e \in staged)
<1>1. ASSUME NEW d \in Invocation, Deliver(d) \/ Step(d) \/ Interrupt(d) \/ Kill(d) PROVE Alone(d) /\ d # e
  BY <1>1, StepAlone
<1>2. ASSUME NEW j \in Job, Poll(j) \/ ExpireUpload(j) \/ \E prior \in Open : Resolve(j, prior)
      PROVE  UNCHANGED execVars
  BY <1>2 DEF Poll, ExpireUpload, Resolve
<1>3. ASSUME NEW k \in AnyKey, Drain(k) PROVE UNCHANGED execVars
  BY <1>3 DEF Drain
<1>4. ASSUME UNCHANGED vars PROVE UNCHANGED execVars
  BY <1>4 DEF vars
<1>5. ~Spends(e)
  BY DEF Spends, Step
<1>. QED  BY <1>1, <1>2, <1>3, <1>4, <1>5 DEF Next, Alone, execVars

(* A row changes only to the key of an execution that publishes it. *)
LEMMA NewRows ==
  ASSUME LocalJobsAssumption, Shape, [Next]_vars, NEW j \in Job, NEW n \in Named(j),
         rows'[j][n] # rows[j][n]
  PROVE  \E e \in Invocation :
           /\ Publish(e) /\ JobOf[e] = j /\ n = Plan(j)[pos[e]]
           /\ rows'[j][n] = Key(e) /\ Key(e) # NoKey
<1>0. TypeOK /\ Functions /\ Control
  BY DEF Shape
<1>1. ASSUME NEW e \in Invocation, Tidy(e) \/ Discard(e) PROVE FALSE
  BY <1>1 DEF Tidy, Discard
<1>2. ASSUME NEW k, Drain(k) PROVE FALSE
  BY <1>2 DEF Drain
<1>3. ASSUME NEW e \in Invocation, Publish(e)
      PROVE  /\ JobOf[e] = j /\ n = Plan(j)[pos[e]]
             /\ rows'[j][n] = Key(e) /\ Key(e) # NoKey
  <2>. DEFINE name == Plan(JobOf[e])[pos[e]]
  <2>1. JobOf[e] \in Job /\ pos[e] \in 1 .. Size(JobOf[e])
    BY <1>0, <1>3, PlanFacts DEF Publish, At, Control, Placed, TypeOK, LocalJobsAssumption, Size
  <2>2. Key(e) # NoKey /\ name \in Named(JobOf[e])
    BY <2>1, KeyFacts, PlanFacts DEF Key
  <2>3. rows' = [rows EXCEPT ![JobOf[e]][name] = Key(e)]
    BY <1>3 DEF Publish
  <2>4. DOMAIN rows = Job /\ \A i \in Job : DOMAIN rows[i] = Named(i)
    BY <1>0 DEF TypeOK, Functions
  <2>. HIDE DEF name
  <2>5. JobOf[e] = j /\ n = name /\ rows'[j][n] = Key(e)
    BY <2>1, <2>2, <2>3, <2>4
  <2>. QED  BY <2>2, <2>5 DEF name
<1>. QED  BY <1>1, <1>2, <1>3, StoreSteps

(* Publishing aside, an execution stays at its artifact. *)
LEMMA OwnPlace ==
  ASSUME Shape, NEW e \in Invocation,
         Deliver(e) \/ Step(e) \/ Interrupt(e) \/ Kill(e), ~Publish(e), ~Tidy(e)
  PROVE  pos'[e] = pos[e] /\ pc'[e] # "tidy" /\ (pc'[e] = "publish" => Put(e))
<1>0. TypeOK /\ Functions
  BY DEF Shape
<1>1. CASE Deliver(e) \/ Claim(e) \/ Decline(e) \/ Prepare(e) \/ PrepareFails(e) \/ Put(e) \/ PutFails(e)
  BY <1>0, <1>1 DEF TypeOK, Deliver, Claim, Decline, Prepare, PrepareFails, Put, PutFails, Goto
<1>2. CASE PublishFails(e) \/ Discard(e) \/ InferFails(e) \/ Succeed(e) \/ SucceedFails(e) \/ Fail(e)
           \/ Finally(e) \/ Interrupt(e) \/ Kill(e) \/ DropUpload(e) \/ Infer(e)
  BY <1>0, <1>2 DEF TypeOK, PublishFails, Discard, InferFails, Succeed, SucceedFails, Fail,
                    Finally, Interrupt, Kill, DropUpload, Infer, Goto
<1>. QED  BY <1>1, <1>2 DEF Step

LEMMA NextKeysAreFresh ==
  ASSUME LocalJobsAssumption, Shape, KeysAreFresh, [Next]_vars
  PROVE  KeysAreFresh'
<1> SUFFICES ASSUME NEW e \in Invocation, NEW i \in 1 .. Size(JobOf[e]),
                    i > pos'[e] \/ (i = pos'[e] /\ pc'[e] \in Ahead), Used(<<e, i>>)'
             PROVE  FALSE
  BY DEF KeysAreFresh
<1>0. TypeOK /\ Functions /\ JobOf[e] \in Job /\ Size(JobOf[e]) \in Nat /\ pos[e] \in Nat
  BY PlanFacts DEF Shape, Functions, LocalJobsAssumption
<1>1. <<e, i>> \in AnyKey
  BY KeyFacts
<1>2. (i > pos[e] \/ (i = pos[e] /\ pc[e] \in Ahead)) /\ ~(Spends(e) /\ i = pos[e])
  <2>1. CASE Deliver(e) \/ Step(e) \/ Interrupt(e) \/ Kill(e)
    BY <1>0, <2>1, OwnKeys
  <2>2. CASE ~(Deliver(e) \/ Step(e) \/ Interrupt(e) \/ Kill(e))
    BY <2>2, NotMine
  <2>. QED  BY <2>1, <2>2
<1>3. Used(<<e, i>>) \/ \E d \in Invocation : Spends(d) /\ <<e, i>> = Key(d)
  BY <1>1, Mentions
<1>4. ~Used(<<e, i>>)
  BY <1>2 DEF KeysAreFresh
<1>. QED  BY <1>2, <1>3, <1>4 DEF Key

LEMMA NextObjectsStay ==
  ASSUME LocalJobsAssumption, Shape, KeysAreFresh, ObjectsStay, [Next]_vars
  PROVE  ObjectsStay'
<1> SUFFICES ASSUME NEW e \in Invocation, pc'[e] = "publish" PROVE Key(e)' \in objects'
  BY DEF ObjectsStay
<1>0. TypeOK /\ Functions /\ Control
  BY DEF Shape
<1>1. CASE Put(e)
  BY <1>1 DEF Put, Key
<1>2. ASSUME pc[e] = "publish", pos'[e] = pos[e], ~Spends(e) PROVE Key(e)' \in objects'
  <2>1. pos[e] \in 1 .. Size(JobOf[e])
    BY <1>0, <1>2, PlanFacts DEF Control, Placed, TypeOK, LocalJobsAssumption, Size
  <2>2. ~Used(Key(e)) /\ Key(e) \in objects
    BY <1>2, <2>1 DEF KeysAreFresh, ObjectsStay, Ahead, Key
  <2>3. ASSUME Key(e) \notin objects' PROVE FALSE
    <3>1. PICK d \in Invocation : Discard(d) /\ Key(e) = Key(d)
      BY <2>2, <2>3, Removals
    <3>2. d = e
      BY <3>1 DEF Key
    <3>. QED  BY <1>2, <3>1, <3>2 DEF Discard, At
  <2>. QED  BY <1>2, <2>3 DEF Key
<1>3. CASE Deliver(e) \/ Step(e) \/ Interrupt(e) \/ Kill(e)
  <2>1. ASSUME Publish(e) \/ Tidy(e) PROVE FALSE
    BY <1>0, <2>1 DEF TypeOK, Publish, Tidy, Afterwards, Goto, After
  <2>. QED  BY <1>1, <1>3, <2>1, OwnPlace
<1>4. CASE ~(Deliver(e) \/ Step(e) \/ Interrupt(e) \/ Kill(e))
  BY <1>2, <1>4, NotMine
<1>. QED  BY <1>3, <1>4

LEMMA NextRowsHaveObjects ==
  ASSUME LocalJobsAssumption, Shape, ObjectsStay, RowsHaveObjects, [Next]_vars
  PROVE  RowsHaveObjects'
<1> SUFFICES ASSUME NEW j \in Job, NEW n \in Named(j), rows'[j][n] # NoKey
             PROVE  rows'[j][n] \in objects'
  BY DEF RowsHaveObjects
<1>1. CASE rows'[j][n] = rows[j][n]
  <2>1. rows[j][n] \in objects /\ Referenced(rows[j][n])
    BY <1>1 DEF RowsHaveObjects, Referenced
  <2>. QED  BY <1>1, <2>1, Removals
<1>2. ASSUME rows'[j][n] # rows[j][n] PROVE \E e \in Invocation : Publish(e) /\ rows'[j][n] = Key(e)
  BY <1>2, NewRows
<1>3. ASSUME NEW e \in Invocation, Publish(e) PROVE Key(e) \in objects'
  BY <1>3 DEF Publish, At, ObjectsStay
<1>. QED  BY <1>1, <1>2, <1>3

LEMMA NextProgress ==
  ASSUME LocalJobsAssumption, Shape, Progress, [Next]_vars
  PROVE  Progress'
<1>0. TypeOK /\ Functions /\ Control
  BY DEF Shape
<1>1. ASSUME NEW j \in Job, NEW n \in Named(j), rows[j][n] # NoKey PROVE rows'[j][n] # NoKey
  BY <1>1, NewRows
<1> SUFFICES ASSUME NEW e \in Invocation
             PROVE  /\ \A i \in 1 .. Size(JobOf[e]) :
                         i < pos'[e] => rows'[JobOf[e]][Plan(JobOf[e])[i]] # NoKey
                    /\ pc'[e] = "tidy" => rows'[JobOf[e]][Plan(JobOf[e])[pos'[e]]] # NoKey
  BY DEF Progress
<1>. DEFINE j == JobOf[e]
            Written(i) == rows[j][Plan(j)[i]] # NoKey
<1>2. j \in Job /\ Size(j) \in Nat /\ pos[e] \in 1 .. Size(j) + 1
      /\ \A i \in 1 .. Size(j) : Plan(j)[i] \in Named(j)
  BY <1>0, PlanFacts DEF LocalJobsAssumption, TypeOK, Size
<1>3. \A i \in 1 .. Size(j) : Written(i) => Written(i)'
  BY <1>1, <1>2
<1>4. /\ \A i \in 1 .. Size(j) : i < pos[e] => Written(i)
      /\ pc[e] = "tidy" => Written(pos[e]) /\ pos[e] \in 1 .. Size(j)
  BY <1>0, <1>2 DEF Progress, Control, Placed
<1>. HIDE DEF Written
<1>5. CASE pos'[e] = pos[e] /\ (pc'[e] = "tidy" => pc[e] = "tidy")
  BY <1>3, <1>4, <1>5 DEF Written
<1>6. CASE Publish(e)
  <2>. DEFINE name == Plan(j)[pos[e]]
  <2>1. pos[e] \in 1 .. Size(j) /\ Key(e) # NoKey /\ name \in Named(j)
    BY <1>0, <1>2, <1>6, KeyFacts DEF Publish, At, Control, Placed, Key
  <2>2. rows'[j][name] # NoKey
    <3>1. rows' = [rows EXCEPT ![j][name] = Key(e)]
      BY <1>6 DEF Publish
    <3>2. DOMAIN rows = Job /\ DOMAIN rows[j] = Named(j)
      BY <1>0, <1>2 DEF TypeOK, Functions
    <3>. HIDE DEF name, j
    <3>3. rows'[j][name] = Key(e)
      BY <1>2, <2>1, <3>1, <3>2
    <3>. QED  BY <2>1, <3>3
  <2>3. pos'[e] \in {pos[e], pos[e] + 1} /\ (pc'[e] = "tidy" => pos'[e] = pos[e])
    BY <1>0, <1>6 DEF Publish, Afterwards, After, Goto, TypeOK, Functions
  <2>. QED  BY <1>2, <1>3, <1>4, <2>1, <2>2, <2>3 DEF Written
<1>7. CASE Tidy(e)
  <2>1. pos'[e] = pos[e] + 1 /\ pc'[e] # "tidy" /\ pc[e] = "tidy"
    BY <1>0, <1>7 DEF Tidy, Afterwards, After, Goto, At, TypeOK, Functions
  <2>. QED  BY <1>2, <1>3, <1>4, <2>1 DEF Written
<1>8. CASE Deliver(e) \/ Step(e) \/ Interrupt(e) \/ Kill(e)
  BY <1>5, <1>6, <1>7, <1>8, OwnPlace
<1>9. CASE ~(Deliver(e) \/ Step(e) \/ Interrupt(e) \/ Kill(e))
  BY <1>5, <1>9, NotMine
<1>. QED  BY <1>8, <1>9

-----------------------------------------------------------------------------
(* What becomes of a job                                                   *)

(* A job is claimed while it is queued, settled by its execution while it  *)
(* runs, or found to have failed while it is open.                         *)
LEMMA StateSteps ==
  ASSUME TypeOK, [Next]_vars
  PROVE  \/ UNCHANGED <<state, claimed>>
         \/ \E e \in Invocation :
              /\ Claim(e) /\ state[JobOf[e]] = "queued"
              /\ state' = [state EXCEPT ![JobOf[e]] = "running"] /\ claimed' = claimed \cup {e}
         \/ \E e \in Invocation : \E final \in Settled :
              /\ state[JobOf[e]] = "running" /\ (final = "succeeded" => Succeed(e))
              /\ pc[e] \in Working /\ pc'[e] = "finally"
              /\ state' = [state EXCEPT ![JobOf[e]] = final] /\ claimed' = claimed
         \/ \E j \in Job : \E prior \in Open :
              /\ state[j] = prior /\ <<j, prior>> \in readers
              /\ state' = [state EXCEPT ![j] = "failed"] /\ UNCHANGED <<claimed, pc>>
<1>. DEFINE Goal == UNCHANGED <<state, claimed>>
<1>1. ASSUME NEW e \in Invocation, Claim(e)
      PROVE  /\ Claim(e) /\ state[JobOf[e]] = "queued"
             /\ state' = [state EXCEPT ![JobOf[e]] = "running"] /\ claimed' = claimed \cup {e}
  BY <1>1 DEF Claim, Claimable
<1>2. ASSUME NEW e \in Invocation, Succeed(e) \/ Fail(e), ~Goal
      PROVE  \E final \in Settled :
               /\ state[JobOf[e]] = "running" /\ (final = "succeeded" => Succeed(e))
               /\ pc[e] \in Working /\ pc'[e] = "finally"
               /\ state' = [state EXCEPT ![JobOf[e]] = final] /\ claimed' = claimed
  <2>1. pc[e] \in Working /\ pc'[e] = "finally" /\ claimed' = claimed
    BY <1>2 DEF TypeOK, Succeed, Fail, Goto, At, Working
  <2>2. CASE Succeed(e)
    <3>1. state[JobOf[e]] = "running" /\ state' = [state EXCEPT ![JobOf[e]] = "succeeded"]
      BY <1>2, <2>1, <2>2 DEF Succeed, Settle, OwnsExecution
    <3>. QED  BY <2>1, <2>2, <3>1 DEF Settled
  <2>3. CASE Fail(e)
    <3>1. state[JobOf[e]] = "running" /\ state' = [state EXCEPT ![JobOf[e]] = "failed"]
      BY <1>2, <2>1, <2>3 DEF Fail, Settle, OwnsExecution
    <3>. QED  BY <2>1, <3>1 DEF Settled
  <2>. QED  BY <1>2, <2>2, <2>3
<1>3. ASSUME NEW e \in Invocation,
             \/ Deliver(e) \/ Decline(e) \/ Prepare(e) \/ PrepareFails(e) \/ Put(e) \/ PutFails(e)
             \/ Publish(e) \/ PublishFails(e) \/ Tidy(e) \/ Discard(e) \/ DropUpload(e)
             \/ Infer(e) \/ InferFails(e) \/ SucceedFails(e) \/ Finally(e) \/ Interrupt(e) \/ Kill(e)
      PROVE  Goal
  BY <1>3 DEF Deliver, Decline, Prepare, PrepareFails, Put, PutFails, Publish, PublishFails, Tidy,
              Discard, DropUpload, Infer, InferFails, SucceedFails, Finally, Interrupt, Kill, jobVars
<1>4. ASSUME NEW j \in Job, NEW prior \in Open, Resolve(j, prior), ~Goal
      PROVE  /\ state[j] = prior /\ <<j, prior>> \in readers
             /\ state' = [state EXCEPT ![j] = "failed"] /\ UNCHANGED <<claimed, pc>>
  BY <1>4 DEF Resolve, execVars
<1>5. ASSUME NEW j \in Job, Poll(j) \/ ExpireUpload(j) PROVE Goal
  BY <1>5 DEF Poll, ExpireUpload, jobVars, execVars
<1>6. ASSUME NEW k, Drain(k) PROVE Goal
  BY <1>6 DEF Drain, jobVars, execVars
<1>7. CASE UNCHANGED vars
  BY <1>7 DEF vars, jobVars, execVars
<1>. QED  BY <1>1, <1>2, <1>3, <1>4, <1>5, <1>6, <1>7 DEF Next, Step

(* The steps that touch the task of a job. *)
LEMMA TaskSteps ==
  ASSUME [Next]_vars, task' # task
  PROVE  \E e \in Invocation :
           \/ pc[e] \in {"idle", "called"} /\ \E s : task' = [task EXCEPT ![JobOf[e]] = s]
           \/ JobOf[e] \notin SyncJob /\ \E s : task' = [task EXCEPT ![JobOf[e]] = s]
<1>1. ASSUME NEW e \in Invocation, Deliver(e) \/ Decline(e) \/ Finally(e)
      PROVE  \/ pc[e] \in {"idle", "called"} /\ \E s : task' = [task EXCEPT ![JobOf[e]] = s]
             \/ JobOf[e] \notin SyncJob /\ \E s : task' = [task EXCEPT ![JobOf[e]] = s]
  BY <1>1 DEF Deliver, Decline, Finally, At
<1>2. ASSUME NEW e \in Invocation,
             \/ Claim(e) \/ Prepare(e) \/ PrepareFails(e) \/ Put(e) \/ PutFails(e)
             \/ Publish(e) \/ PublishFails(e) \/ Tidy(e) \/ Discard(e) \/ DropUpload(e) \/ Succeed(e)
             \/ Fail(e) \/ Infer(e) \/ InferFails(e) \/ SucceedFails(e) \/ Interrupt(e) \/ Kill(e)
      PROVE  FALSE
  BY <1>2 DEF Claim, Prepare, PrepareFails, Put, PutFails, Publish, PublishFails, Tidy, Discard,
              DropUpload, Succeed, Fail, Infer, InferFails, SucceedFails, Interrupt, Kill, jobVars
<1>3. ASSUME NEW j \in Job, Poll(j) \/ ExpireUpload(j) \/ \E prior \in Open : Resolve(j, prior) PROVE FALSE
  BY <1>3 DEF Poll, ExpireUpload, Resolve, jobVars
<1>4. ASSUME NEW k, Drain(k) PROVE FALSE
  BY <1>4 DEF Drain, jobVars
<1>5. CASE UNCHANGED vars
  BY <1>5 DEF vars, jobVars
<1>. QED  BY <1>1, <1>2, <1>3, <1>4, <1>5 DEF Next, Step

LEMMA NextSyncJobs ==
  ASSUME LocalJobsAssumption, Shape, SyncJobs, [Next]_vars
  PROVE  SyncJobs'
<1>0. TypeOK /\ Functions /\ Control
  BY DEF Shape
<1>1. ASSUME NEW j \in SyncJob PROVE task'[j] = "none"
  <2>1. j \in Job /\ task[j] = "none" /\ \A e \in Invocation : JobOf[e] = j => pc[e] \notin {"idle", "called"}
    BY DEF SyncJobs, LocalJobsAssumption
  <2>2. CASE task' # task
    <3>1. PICK e \in Invocation : JobOf[e] # j /\ \E s : task' = [task EXCEPT ![JobOf[e]] = s]
      BY <2>1, <2>2, TaskSteps
    <3>. QED  BY <1>0, <2>1, <3>1 DEF TypeOK
  <2>. QED  BY <2>1, <2>2
<1>2. ASSUME NEW j \in SyncJob, NEW prior \in Open PROVE <<j, prior>> \notin readers'
  <2>1. <<j, prior>> \notin readers /\ task[j] = "none"
    BY DEF SyncJobs
  <2>2. ASSUME NEW i \in Job, Poll(i) \/ ExpireUpload(i) \/ \E open \in Open : Resolve(i, open)
        PROVE  <<j, prior>> \notin readers'
    <3>1. CASE Poll(i)
      <4>1. i # j
        BY <2>1, <3>1 DEF Poll
      <4>. QED  BY <2>1, <3>1, <4>1 DEF Poll
    <3>2. CASE ExpireUpload(i)
      BY <2>1, <3>2 DEF ExpireUpload
    <3>3. ASSUME NEW open \in Open, Resolve(i, open) PROVE <<j, prior>> \notin readers'
      BY <2>1, <3>3 DEF Resolve
    <3>. QED  BY <2>2, <3>1, <3>2, <3>3
  <2>3. ASSUME NEW e \in Invocation, Deliver(e) \/ Step(e) \/ Interrupt(e) \/ Kill(e)
        PROVE  readers' = readers
    BY <2>3 DEF Deliver, Claim, Decline, Prepare, PrepareFails, Put, PutFails, Publish, PublishFails, Tidy,
                Discard, DropUpload, Infer, InferFails, Succeed, SucceedFails, Fail, Finally, Interrupt,
                Kill, Step
  <2>4. ASSUME NEW k, Drain(k) PROVE readers' = readers
    BY <2>4 DEF Drain
  <2>5. CASE UNCHANGED vars
    BY <2>1, <2>5 DEF vars
  <2>. QED  BY <2>1, <2>2, <2>3, <2>4, <2>5 DEF Next
<1>3. ASSUME NEW e \in Invocation, JobOf[e] \in SyncJob
      PROVE  /\ pc'[e] \notin {"idle", "called", "prepare"}
             /\ pc'[e] \in Working => pc[e] \in Working
  <2>1. pc[e] \notin {"idle", "called", "prepare"}
    BY <1>3 DEF SyncJobs
  <2>2. CASE ~(Deliver(e) \/ Step(e) \/ Interrupt(e) \/ Kill(e))
    BY <2>1, <2>2, NotMine
  <2>3. CASE Publish(e) \/ PublishFails(e) \/ Put(e) \/ PutFails(e) \/ Tidy(e) \/ Discard(e)
    BY <1>0, <2>1, <2>3 DEF TypeOK, Publish, PublishFails, Put, PutFails, Tidy, Discard, Afterwards, Goto,
                            At, After, Working
  <2>4. CASE InferFails(e) \/ Succeed(e) \/ SucceedFails(e) \/ Fail(e) \/ Finally(e) \/ Interrupt(e)
             \/ Kill(e) \/ DropUpload(e) \/ Infer(e)
    BY <1>0, <2>1, <2>4 DEF TypeOK, InferFails, Succeed, SucceedFails, Fail, Finally, Interrupt, Kill,
                            DropUpload, Infer, Goto, At, Working, Ended
  <2>5. CASE Deliver(e) \/ Claim(e) \/ Decline(e) \/ Prepare(e) \/ PrepareFails(e)
    BY <2>1, <2>5 DEF Deliver, Claim, Decline, Prepare, PrepareFails, At
  <2>. QED  BY <2>2, <2>3, <2>4, <2>5 DEF Step
<1>4. ASSUME NEW e \in Invocation, JobOf[e] \in SyncJob, pc'[e] \in Working
      PROVE  state'[JobOf[e]] = "running"
  <2>1. JobOf[e] \in Job /\ state[JobOf[e]] = "running" /\ \A d \in Invocation : JobOf[d] = JobOf[e] => d = e
    BY <1>3, <1>4 DEF SyncJobs, LocalJobsAssumption
  <2>2. \A prior \in Open : <<JobOf[e], prior>> \notin readers
    BY <1>4 DEF SyncJobs
  <2>3. ASSUME NEW d \in Invocation, state[JobOf[d]] = "queued" PROVE JobOf[d] # JobOf[e]
    BY <2>1, <2>3
  <2>4. ASSUME NEW d \in Invocation, pc'[d] = "finally" PROVE JobOf[d] # JobOf[e]
    BY <1>4, <2>1, <2>4 DEF Working
  <2>. QED  BY <1>0, <2>1, <2>2, <2>3, <2>4, StateSteps DEF TypeOK
<1>. QED  BY <1>1, <1>2, <1>3, <1>4 DEF SyncJobs

LEMMA NextSettled ==
  ASSUME LocalJobsAssumption, Shape, SyncJobs, [Next]_vars
  PROVE  SettledIsFinal
<1> SUFFICES ASSUME NEW j \in Job, state[j] \in Settled
             PROVE  state'[j] = state[j] /\ rows'[j] = rows[j]
  BY DEF SettledIsFinal
<1>0. TypeOK /\ Functions /\ state[j] # "queued" /\ state[j] # "running" /\ state[j] \notin Open
  BY DEF Shape, Settled, Open
<1>1. state'[j] = state[j]
  BY <1>0, StateSteps DEF TypeOK
<1>2. ASSUME rows' = rows PROVE rows'[j] = rows[j]
  BY <1>2
<1>3. ASSUME NEW e \in Invocation, Publish(e) PROVE rows'[j] = rows[j]
  <2>1. state[JobOf[e]] = "running"
    BY <1>3 DEF Publish, MayPublish, SyncJobs, At, Working
  <2>2. JobOf[e] # j
    BY <1>0, <2>1
  <2>3. rows' = [rows EXCEPT ![JobOf[e]] = [rows[JobOf[e]] EXCEPT ![Plan(JobOf[e])[pos[e]]] = Key(e)]]
    BY <1>3 DEF Publish
  <2>. QED  BY <1>0, <2>2, <2>3 DEF Functions
<1>4. ASSUME NEW e \in Invocation, Tidy(e) \/ Discard(e) PROVE rows' = rows
  BY <1>4 DEF Tidy, Discard
<1>5. ASSUME NEW k, Drain(k) PROVE rows' = rows
  BY <1>5 DEF Drain
<1>. QED  BY <1>1, <1>2, <1>3, <1>4, <1>5, StoreSteps

LEMMA NextComplete ==
  ASSUME LocalJobsAssumption, Shape, Progress, SucceededIsComplete, [Next]_vars
  PROVE  SucceededIsComplete'
<1> SUFFICES ASSUME NEW j \in Job, state'[j] = "succeeded", NEW n \in Named(j)
             PROVE  rows'[j][n] # NoKey
  BY DEF SucceededIsComplete
<1>0. TypeOK /\ Functions /\ Control
  BY DEF Shape
<1>1. rows[j][n] # NoKey => rows'[j][n] # NoKey
  BY NewRows
<1>2. CASE state[j] = "succeeded"
  BY <1>1, <1>2 DEF SucceededIsComplete
<1>3. CASE state[j] # "succeeded"
  <2>1. PICK e \in Invocation : Succeed(e) /\ JobOf[e] = j
    BY <1>0, <1>3, StateSteps DEF TypeOK
  <2>2. pos[e] = Size(j) + 1 /\ Size(j) \in Nat
    BY <1>0, <2>1, PlanFacts DEF Succeed, At, Control, Placed
  <2>3. PICK i \in 1 .. Size(j) : n = Plan(j)[i]
    BY DEF Named, Size
  <2>4. rows[j][n] # NoKey
    BY <2>1, <2>2, <2>3 DEF Progress
  <2>. QED  BY <1>1, <2>4
<1>. QED  BY <1>2, <1>3

(* Only jobs that came with an upload have one. *)
OwnUploads == \A j \in Job : upload[j] # "none" <=> j \in Uploaded

(* Who may let an upload go, and when. *)
LEMMA UploadSteps ==
  ASSUME LocalJobsAssumption, Shape, [Next]_vars, NEW j \in Job, upload'[j] # upload[j]
  PROVE  /\ upload'[j] = "gone"
         /\ \/ \E e \in Invocation : JobOf[e] = j /\ pc[e] = "drop"
            \/ \E e \in Invocation : JobOf[e] = j /\ e \in staged /\ e \in claimed' /\ pc'[e] \in Ended
            \/ upload[j] = "kept" /\ state[j] \in Settled
<1>0. TypeOK /\ Functions /\ Control
  BY DEF Shape
<1>1. ASSUME NEW e \in Invocation, DropUpload(e) PROVE JobOf[e] = j /\ pc[e] = "drop" /\ upload'[j] = "gone"
  BY <1>0, <1>1 DEF DropUpload, At, TypeOK
<1>2. ASSUME NEW e \in Invocation, Finally(e)
      PROVE  /\ JobOf[e] = j /\ e \in staged /\ e \in claimed' /\ pc'[e] \in Ended
             /\ upload'[j] = "gone"
  <2>1. e \in staged /\ upload' = [upload EXCEPT ![JobOf[e]] = "gone"]
    BY <1>2 DEF Finally
  <2>2. JobOf[e] = j /\ upload'[j] = "gone"
    BY <1>0, <2>1 DEF TypeOK
  <2>. QED  BY <1>0, <1>2, <2>1, <2>2 DEF Finally, Goto, TypeOK, Control, Placed, Ended
<1>3. ASSUME NEW e \in Invocation,
             \/ Deliver(e) \/ Claim(e) \/ Decline(e) \/ Prepare(e) \/ PrepareFails(e) \/ Put(e) \/ PutFails(e)
             \/ Publish(e) \/ PublishFails(e) \/ Tidy(e) \/ Discard(e) \/ Succeed(e)
             \/ Fail(e) \/ Infer(e) \/ InferFails(e) \/ SucceedFails(e) \/ Interrupt(e) \/ Kill(e)
      PROVE  FALSE
  BY <1>3 DEF Deliver, Claim, Decline, Prepare, PrepareFails, Put, PutFails, Publish, PublishFails, Tidy,
              Discard, Succeed, Fail, Infer, InferFails, SucceedFails, Interrupt, Kill, jobVars
<1>4. ASSUME NEW i \in Job, ExpireUpload(i) PROVE i = j /\ upload[j] = "kept" /\ state[j] \in Settled /\ upload'[j] = "gone"
  BY <1>0, <1>4 DEF ExpireUpload, TypeOK
<1>5. ASSUME NEW i \in Job, Poll(i) \/ \E prior \in Open : Resolve(i, prior) PROVE FALSE
  BY <1>5 DEF Poll, Resolve, jobVars
<1>6. ASSUME NEW k, Drain(k) PROVE FALSE
  BY <1>6 DEF Drain, jobVars
<1>7. CASE UNCHANGED vars
  BY <1>7 DEF vars, jobVars
<1>. QED  BY <1>1, <1>2, <1>3, <1>4, <1>5, <1>6, <1>7 DEF Next, Step

(* An execution that has ended does nothing more. *)
LEMMA EndedStays ==
  ASSUME Shape, [Next]_vars, NEW e \in claimed, e \in Invocation, pc[e] \in Ended
  PROVE  e \in claimed' /\ pc'[e] \in Ended
<1>1. ASSUME Deliver(e) \/ Step(e) \/ Interrupt(e) \/ Kill(e) PROVE FALSE
  BY <1>1 DEF Deliver, Claim, Decline, Prepare, PrepareFails, Put, PutFails, Publish, PublishFails, Tidy,
              Discard, DropUpload, Infer, InferFails, Succeed, SucceedFails, Fail, Finally, Interrupt,
              Kill, Step, At, Ended
<1>. QED  BY <1>1, NotMine

LEMMA NextUploads ==
  ASSUME LocalJobsAssumption, Shape, SyncJobs, Progress, OwnUploads, UploadKeptUntilCopied, [Next]_vars
  PROVE  OwnUploads' /\ UploadKeptUntilCopied'
<1>0. TypeOK /\ Functions /\ Control
  BY DEF Shape
<1>1. ASSUME NEW j \in Job, NEW e \in Invocation, JobOf[e] = j, e \in staged \/ pc[e] = "drop"
      PROVE  j \in Uploaded
  BY <1>0, <1>1 DEF Control, Placed
<1>2. OwnUploads'
  <2> SUFFICES ASSUME NEW j \in Job PROVE upload'[j] # "none" <=> j \in Uploaded
    BY DEF OwnUploads
  <2>1. CASE upload'[j] = upload[j]
    BY <2>1 DEF OwnUploads
  <2>2. CASE upload'[j] # upload[j]
    BY <1>1, <2>2, UploadSteps DEF OwnUploads
  <2>. QED  BY <2>1, <2>2
<1>3. UploadKeptUntilCopied'
  <2> SUFFICES ASSUME NEW j \in Job, state'[j] \in Open, upload'[j] = "gone"
               PROVE  \/ rows'[j][SourceName[j]] # NoKey
                      \/ \E e \in claimed' : JobOf[e] = j /\ pc'[e] \in Ended
    BY DEF UploadKeptUntilCopied
  <2>1. state[j] \notin Settled
    BY NextSettled DEF SettledIsFinal, Open, Settled
  <2>2. state[j] \in Open
    BY <1>0, <2>1 DEF TypeOK
  <2>3. j \in Uploaded
    BY <1>2 DEF OwnUploads
  <2>4. 1 \in 1 .. Size(j) /\ Plan(j)[1] = SourceName[j] /\ SourceName[j] \in Named(j)
    <3>1. j \notin SyncJob \cup Speech
      BY <2>3 DEF LocalJobsAssumption
    <3>2. Size(j) \in Nat /\ Len(Inputs(j)) \in Nat /\ Len(Inputs(j)) <= Size(j) /\ Len(Inputs(j)) > 0
          /\ Plan(j)[1] = SourceName[j] /\ \A i \in 1 .. Size(j) : Plan(j)[i] \in Named(j)
      BY <3>1, PlanFacts
    <3>. QED  BY <3>2
  <2>5. rows[j][SourceName[j]] # NoKey => rows'[j][SourceName[j]] # NoKey
    BY <2>4, NewRows
  <2>6. CASE upload[j] = "gone"
    <3>1. CASE rows[j][SourceName[j]] # NoKey
      BY <2>5, <3>1
    <3>2. ASSUME NEW e \in claimed, JobOf[e] = j, pc[e] \in Ended
          PROVE  e \in claimed' /\ JobOf[e] = j /\ pc'[e] \in Ended
      BY <1>0, <3>2, EndedStays DEF TypeOK
    <3>. QED  BY <2>2, <2>6, <3>1, <3>2 DEF UploadKeptUntilCopied
  <2>7. CASE upload[j] # "gone"
    <3>1. ASSUME NEW e \in Invocation, JobOf[e] = j, pc[e] = "drop" PROVE rows[j][SourceName[j]] # NoKey
      <4>1. pos[e] = 2
        BY <1>0, <3>1 DEF Control, Placed
      <4>. QED  BY <2>4, <3>1, <4>1 DEF Progress
    <3>2. upload'[j] # upload[j]
      BY <2>7
    <3>. QED  BY <2>1, <2>5, <3>1, <3>2, UploadSteps
  <2>. QED  BY <2>6, <2>7
<1>. QED  BY <1>2, <1>3

-----------------------------------------------------------------------------
(* Objects that no row names                                               *)

Mild == Faults \subseteq {"error", "replay"}

Accounted(k) ==
  \/ Referenced(k)
  \/ k \in pending
  \/ \E e \in Invocation : pc[e] \in {"publish", "discard"} /\ k = Key(e)

LEMMA NextUnnamed ==
  ASSUME LocalJobsAssumption, Shape, UnnamedObjectsAccountedFor, [Next]_vars
  PROVE  UnnamedObjectsAccountedFor'
<1> SUFFICES ASSUME Mild, NEW k \in objects' PROVE Accounted(k)'
  BY DEF UnnamedObjectsAccountedFor, Mild, Accounted
<1>0. TypeOK /\ Functions /\ Control /\ ~Can("db_error") /\ ~Can("interrupt") /\ ~Can("kill")
  BY DEF Shape, Mild, Can
<1>1. ASSUME NEW e \in Invocation, pc[e] \in {"publish", "discard"}, k = Key(e) PROVE Accounted(k)'
  <2>1. CASE ~(Deliver(e) \/ Step(e) \/ Interrupt(e) \/ Kill(e))
    BY <1>1, <2>1, NotMine DEF Accounted, Key
  <2>2. CASE Publish(e)
    <3>. DEFINE name == Plan(JobOf[e])[pos[e]]
    <3>1. JobOf[e] \in Job /\ name \in Named(JobOf[e])
      BY <1>0, <1>1, PlanFacts DEF Control, Placed, TypeOK, Size, LocalJobsAssumption
    <3>2. rows' = [rows EXCEPT ![JobOf[e]][name] = Key(e)]
      BY <2>2 DEF Publish
    <3>3. DOMAIN rows = Job /\ DOMAIN rows[JobOf[e]] = Named(JobOf[e])
      BY <1>0, <3>1 DEF TypeOK, Functions
    <3>. HIDE DEF name
    <3>4. rows'[JobOf[e]][name] = k
      BY <1>1, <3>1, <3>2, <3>3
    <3>. QED  BY <3>1, <3>4 DEF Accounted, Referenced
  <2>3. CASE PublishFails(e)
    BY <1>0, <1>1, <2>3 DEF PublishFails, Goto, TypeOK, Accounted, Key
  <2>4. CASE Discard(e)
    BY <1>0, <1>1, <2>4 DEF Discard, Processed, Accounted, Referenced
  <2>5. pc[e] \notin {"idle", "called", "prepare", "put", "tidy", "drop", "infer", "succeed", "fail", "finally"}
    BY <1>1
  <2>6. Step(e) \/ Deliver(e) => Publish(e) \/ PublishFails(e) \/ Discard(e)
    BY <2>5 DEF Step, Deliver, Claim, Decline, Prepare, PrepareFails, Put, PutFails, Tidy, DropUpload,
                Infer, InferFails, Succeed, SucceedFails, Fail, Finally, At
  <2>7. ~Interrupt(e) /\ ~Kill(e)
    BY <1>0 DEF Interrupt, Kill
  <2>. QED  BY <2>1, <2>2, <2>3, <2>4, <2>6, <2>7
<1>2. CASE Referenced(k)
  <2>1. PICK j \in Job : \E n \in Named(j) : rows[j][n] = k
    BY <1>2 DEF Referenced
  <2>2. PICK n \in Named(j) : rows[j][n] = k
    BY <2>1
  <2>3. k # NoKey
    <3>1. k \in objects' /\ objects' \subseteq AnyKey
      BY NextShape DEF Shape, TypeOK
    <3>. QED  BY <3>1 DEF LocalJobsAssumption
  <2>4. CASE rows'[j][n] = rows[j][n]
    BY <2>2, <2>4 DEF Accounted, Referenced
  <2>5. CASE rows'[j][n] # rows[j][n]
    <3>1. PICK e \in Invocation : Publish(e) /\ JobOf[e] = j /\ n = Plan(j)[pos[e]]
      BY <2>5, NewRows
    <3>2. k \in pending'
      BY <2>2, <2>3, <3>1 DEF Publish
    <3>. QED  BY <3>2 DEF Accounted
  <2>. QED  BY <2>4, <2>5
<1>3. CASE k \in pending
  <2>1. k \in pending' \/ (Referenced(k) /\ rows' = rows)
    <3>1. ASSUME NEW e \in Invocation, Publish(e) PROVE k \in pending'
      BY <1>3, <3>1 DEF Publish
    <3>2. ASSUME NEW i, Processed(i) PROVE k \in pending' \/ Referenced(k)
      BY <1>3, <3>2 DEF Processed
    <3>3. ASSUME NEW e \in Invocation, Tidy(e) PROVE k \in pending' \/ (Referenced(k) /\ rows' = rows)
      BY <3>2, <3>3 DEF Tidy
    <3>4. ASSUME NEW e \in Invocation, Discard(e) PROVE k \in pending' \/ (Referenced(k) /\ rows' = rows)
      BY <1>3, <3>2, <3>4 DEF Discard
    <3>5. ASSUME NEW i, Drain(i) PROVE k \in pending' \/ (Referenced(k) /\ rows' = rows)
      BY <3>2, <3>5 DEF Drain
    <3>. QED  BY <1>3, <3>1, <3>3, <3>4, <3>5, StoreSteps
  <2>. QED  BY <2>1 DEF Accounted, Referenced
<1>4. CASE k \notin objects
  <2>1. ASSUME NEW e \in Invocation, Put(e) \/ PutFails(e) PROVE Accounted(k)'
    <3>1. k = Key(e)
      BY <1>4, <2>1 DEF Put, PutFails
    <3>2. pc'[e] \in {"publish", "discard"} /\ pos' = pos
      BY <1>0, <2>1 DEF Put, PutFails, Goto, TypeOK
    <3>. QED  BY <3>1, <3>2 DEF Accounted, Key
  <2>2. ASSUME NEW e \in Invocation, Deliver(e) \/ Step(e) \/ Interrupt(e) \/ Kill(e), ~Put(e), ~PutFails(e)
        PROVE  objects' \subseteq objects
    BY <2>2 DEF Deliver, Claim, Decline, Prepare, PrepareFails, Publish, PublishFails, Tidy,
                Discard, DropUpload, Infer, InferFails, Succeed, SucceedFails, Fail, Finally, Interrupt,
                Kill, Step, storeVars, Processed
  <2>3. ASSUME NEW j \in Job, Poll(j) \/ ExpireUpload(j) \/ \E prior \in Open : Resolve(j, prior)
        PROVE  objects' = objects
    BY <2>3 DEF Poll, ExpireUpload, Resolve, storeVars
  <2>4. ASSUME NEW i, Drain(i) PROVE objects' \subseteq objects
    BY <2>4 DEF Drain, Processed
  <2>5. CASE UNCHANGED vars
    BY <1>4, <2>5 DEF vars, storeVars
  <2>. QED  BY <1>4, <2>1, <2>2, <2>3, <2>4, <2>5 DEF Next
<1>. QED  BY <1>1, <1>2, <1>3, <1>4 DEF UnnamedObjectsAccountedFor, Mild

-----------------------------------------------------------------------------
(* The theorems                                                            *)

IInv ==
  /\ Shape /\ SyncJobs /\ Progress /\ KeysAreFresh /\ ObjectsStay /\ RowsHaveObjects
  /\ SucceededIsComplete /\ OwnUploads /\ UploadKeptUntilCopied /\ UnnamedObjectsAccountedFor

LEMMA InitIInv ==
  ASSUME LocalJobsAssumption, Init
  PROVE  IInv
<1>1. Shape
  BY InitShape
<1>2. \A j \in Job : \A n \in Named(j) : rows[j][n] = NoKey
  BY DEF Init
<1>3. SyncJobs
  BY DEF Init, SyncJobs, LocalJobsAssumption
<1>4. Progress
  <2> SUFFICES ASSUME NEW e \in Invocation PROVE pos[e] = 1 /\ pc[e] # "tidy" /\ Size(JobOf[e]) \in Nat
    BY DEF Progress
  <2>1. JobOf[e] \in Job
    BY DEF LocalJobsAssumption
  <2>. QED  BY <2>1, PlanFacts DEF Init
<1>5. KeysAreFresh
  <2> SUFFICES ASSUME NEW e \in Invocation, NEW i \in 1 .. Size(JobOf[e]) PROVE ~Used(<<e, i>>)
    BY DEF KeysAreFresh
  <2>1. <<e, i>> # NoKey
    BY KeyFacts
  <2>. QED  BY <1>2, <2>1 DEF Used, Referenced, Init
<1>6. ObjectsStay /\ RowsHaveObjects /\ UnnamedObjectsAccountedFor
  BY <1>2 DEF ObjectsStay, RowsHaveObjects, UnnamedObjectsAccountedFor, Init
<1>7. SucceededIsComplete /\ OwnUploads /\ UploadKeptUntilCopied
  BY DEF SucceededIsComplete, OwnUploads, UploadKeptUntilCopied, Init
<1>. QED  BY <1>1, <1>3, <1>4, <1>5, <1>6, <1>7 DEF IInv

LEMMA NextIInv ==
  ASSUME LocalJobsAssumption, IInv, [Next]_vars
  PROVE  IInv'
<1>. USE DEF IInv
<1>1. Shape' /\ SyncJobs' /\ Progress'
  BY NextShape, NextSyncJobs, NextProgress
<1>2. KeysAreFresh' /\ ObjectsStay' /\ RowsHaveObjects'
  BY NextKeysAreFresh, NextObjectsStay, NextRowsHaveObjects
<1>3. SucceededIsComplete' /\ OwnUploads' /\ UploadKeptUntilCopied' /\ UnnamedObjectsAccountedFor'
  BY NextComplete, NextUploads, NextUnnamed
<1>. QED  BY <1>1, <1>2, <1>3

LEMMA AlwaysIInv == ASSUME LocalJobsAssumption PROVE Spec => []IInv
<1>1. Init => IInv
  BY InitIInv
<1>2. IInv /\ [Next]_vars => IInv'
  BY NextIInv
<1>. QED  BY <1>1, <1>2, PTL DEF Spec

(* Whatever is compensated, replaced, drained, interrupted or killed       *)
(* meanwhile, the object of every row is in the store (replace_artifact,   *)
(* process_pending_artifact_deletion).                                     *)
THEOREM RowsKeepTheirObjects == ASSUME LocalJobsAssumption PROVE Spec => []RowsHaveObjects
<1>1. IInv => RowsHaveObjects
  BY DEF IInv
<1>. QED  BY <1>1, AlwaysIInv, PTL

(* A job that succeeded has a row for everything it was asked for, however *)
(* often its task is delivered (execute_transcription_job).                *)
THEOREM SuccessIsComplete == ASSUME LocalJobsAssumption PROVE Spec => []SucceededIsComplete
<1>1. IInv => SucceededIsComplete
  BY DEF IInv
<1>. QED  BY <1>1, AlwaysIInv, PTL

(* An unfinished job has its upload until its copy is published or its     *)
(* execution has ended (delete_staged_media, cleanup_expired_staged_media).*)
THEOREM UploadsAreKept == ASSUME LocalJobsAssumption PROVE Spec => []UploadKeptUntilCopied
<1>1. IInv => UploadKeptUntilCopied
  BY DEF IInv
<1>. QED  BY <1>1, AlwaysIInv, PTL

(* While calls of executions may fail but no execution is cut down, every  *)
(* object is named, queued for deletion, or about to be published or       *)
(* discarded (the except branch of replace_artifact).                      *)
THEOREM NoObjectIsForgotten == ASSUME LocalJobsAssumption PROVE Spec => []UnnamedObjectsAccountedFor
<1>1. IInv => UnnamedObjectsAccountedFor
  BY DEF IInv
<1>. QED  BY <1>1, AlwaysIInv, PTL

(* A settled job keeps its state and its rows (the fences of mark_job_* and *)
(* replace_artifact, the conditional update of reconcile_job_state).        *)
THEOREM SettledStays == ASSUME LocalJobsAssumption PROVE Spec => [][SettledIsFinal]_vars
<1>1. IInv /\ [Next]_vars => [SettledIsFinal]_vars
  BY NextSettled DEF IInv
<1>. QED  BY <1>1, AlwaysIInv, PTL DEF Spec

(* Batch jobs live as JobLifecycle promises, with one attempt, whatever the *)
(* task backend delivers again and whoever reconciles meanwhile.            *)
LEMMA LifecycleStart ==
  ASSUME LocalJobsAssumption, Init
  PROVE  Lifecycle!Init
<1>1. \A j \in Job \ SyncJob : state[j] = "queued"
  BY DEF Init
<1>2. \A j \in Job \ SyncJob : Attempts(j) = 0
  BY DEF Init, Attempts
<1>. QED  BY <1>1, <1>2 DEF Lifecycle!Init

LEMMA LifecycleNext ==
  ASSUME LocalJobsAssumption, Shape, [Next]_vars
  PROVE  [Lifecycle!Next]_Lifecycle!vars
<1>0. TypeOK /\ Functions /\ Control
  BY DEF Shape
<1>. DEFINE Batch == Job \ SyncJob
            shown == [j \in Batch |-> state[j]]
            tried == [j \in Batch |-> Attempts(j)]
            won == [j \in Batch |-> IF state[j] = "succeeded" THEN 1 ELSE 0]
            Still == shown' = shown /\ tried' = tried /\ won' = won
<1>1. ASSUME claimed' = claimed PROVE tried' = tried
  BY <1>1 DEF Attempts
<1>2. CASE UNCHANGED <<state, claimed>>
  <2>1. Still
    BY <1>1, <1>2
  <2>. QED  BY <2>1 DEF Lifecycle!vars
<1>3. ASSUME NEW e \in Invocation, state[JobOf[e]] = "queued",
             state' = [state EXCEPT ![JobOf[e]] = "running"], claimed' = claimed \cup {e}
      PROVE  [Lifecycle!Next]_Lifecycle!vars
  <2>0. PICK j : j = JobOf[e]
    OBVIOUS
  <2>1. j \in Job
    BY <2>0 DEF LocalJobsAssumption
  <2>2. Attempts(j) = 0 /\ Attempts(j)' = 1
    <3>1. \A d \in claimed : JobOf[d] # j
      BY <1>0, <1>3, <2>0 DEF TypeOK, Control, Placed
    <3>2. e \in claimed' /\ JobOf[e] = j
      BY <1>3, <2>0
    <3>. QED  BY <3>1, <3>2 DEF Attempts
  <2>3. \A i \in Batch \ {j} : Attempts(i)' = Attempts(i)
    BY <1>3, <2>0 DEF Attempts
  <2>4. \A i \in Batch : state'[i] = IF i = j THEN "running" ELSE state[i]
    BY <1>0, <1>3, <2>0, <2>1 DEF TypeOK
  <2>5. won' = won
    BY <1>3, <2>0, <2>4
  <2>6. CASE j \in Batch
    <3>1. shown' = [shown EXCEPT ![j] = "running"]
      BY <2>4, <2>6
    <3>2. tried' = [tried EXCEPT ![j] = tried[j] + 1] /\ tried[j] < 1
      <4>1. tried[j] = 0 /\ tried[j] + 1 = 1
        BY <2>2, <2>6
      <4>2. tried' = [i \in Batch |-> IF i = j THEN 1 ELSE tried[i]]
        BY <2>2, <2>3, <2>6
      <4>3. tried' = [tried EXCEPT ![j] = 1]
        BY <4>2
      <4>. HIDE DEF tried
      <4>4. tried[j] < 1
        BY <4>1
      <4>. QED  BY <4>1, <4>3, <4>4, Zenon
    <3>3. shown[j] \in {"queued", "running"}
      BY <1>3, <2>0, <2>6
    <3>4. Lifecycle!Attempt(j)
      BY <2>5, <3>1, <3>2, <3>3 DEF Lifecycle!Attempt
    <3>. QED  BY <2>6, <3>4 DEF Lifecycle!Next
  <2>7. CASE j \notin Batch
    <3>1. shown' = shown /\ tried' = tried
      BY <2>3, <2>4, <2>7
    <3>. QED  BY <2>5, <3>1 DEF Lifecycle!vars
  <2>. QED  BY <2>6, <2>7
<1>4. ASSUME NEW j \in Job, state[j] \in Open, state' = [state EXCEPT ![j] = "failed"], claimed' = claimed
      PROVE  [Lifecycle!Next]_Lifecycle!vars
  <2>1. \A i \in Batch : state'[i] = IF i \in {j} THEN "failed" ELSE state[i]
    BY <1>0, <1>4 DEF TypeOK
  <2>2. won' = won /\ tried' = tried
    BY <1>1, <1>4, <2>1 DEF Open
  <2>3. Lifecycle!Fail({j} \cap Batch)
    <3>1. \A i \in {j} \cap Batch : shown[i] \in {"queued", "running"}
      BY <1>4 DEF Open
    <3>2. shown' = [i \in Batch |-> IF i \in {j} \cap Batch THEN "failed" ELSE shown[i]]
      BY <2>1
    <3>. QED  BY <2>2, <3>1, <3>2 DEF Lifecycle!Fail
  <2>. QED  BY <2>3 DEF Lifecycle!Next
<1>5. ASSUME NEW e \in Invocation, state[JobOf[e]] = "running", pc[e] \in Working,
             state' = [state EXCEPT ![JobOf[e]] = "succeeded"], claimed' = claimed
      PROVE  [Lifecycle!Next]_Lifecycle!vars
  <2>0. PICK j : j = JobOf[e]
    OBVIOUS
  <2>1. \A i \in Batch : state'[i] = IF i = j THEN "succeeded" ELSE state[i]
    BY <1>0, <1>5, <2>0 DEF TypeOK
  <2>2. tried' = tried
    BY <1>1, <1>5
  <2>3. Attempts(j) = 1
    BY <1>0, <1>5, <2>0 DEF Attempts, Control, Placed
  <2>4. CASE j \in Batch
    <3>1. shown' = [shown EXCEPT ![j] = "succeeded"]
      BY <2>1, <2>4
    <3>2. won' = [won EXCEPT ![j] = tried[j]]
      BY <2>1, <2>3, <2>4
    <3>3. shown[j] = "running"
      BY <1>5, <2>0, <2>4
    <3>4. Lifecycle!Succeed(j)
      BY <2>2, <3>1, <3>2, <3>3 DEF Lifecycle!Succeed
    <3>. QED  BY <2>4, <3>4 DEF Lifecycle!Next
  <2>5. CASE j \notin Batch
    <3>1. shown' = shown /\ won' = won
      BY <2>1, <2>5
    <3>. QED  BY <2>2, <3>1 DEF Lifecycle!vars
  <2>. QED  BY <2>4, <2>5
<1>6. ASSUME NEW e \in Invocation, state[JobOf[e]] = "running",
             state' = [state EXCEPT ![JobOf[e]] = "failed"], claimed' = claimed
      PROVE  [Lifecycle!Next]_Lifecycle!vars
  <2>1. JobOf[e] \in Job
    BY DEF LocalJobsAssumption
  <2>. QED  BY <1>4, <1>6, <2>1 DEF Open
<1>. HIDE DEF Batch, shown, tried, won, Still
<1>. QED  BY <1>0, <1>2, <1>3, <1>4, <1>5, <1>6, StateSteps DEF Settled

THEOREM LivesAsPromised == ASSUME LocalJobsAssumption PROVE Spec => Lifecycle!Spec
<1>1. Init => Lifecycle!Init
  BY LifecycleStart
<1>2. IInv /\ [Next]_vars => [Lifecycle!Next]_Lifecycle!vars
  BY LifecycleNext DEF IInv
<1>. QED  BY <1>1, <1>2, AlwaysIInv, PTL DEF Spec, Lifecycle!Spec
=============================================================================
