----------------------------- MODULE MediaProofs -----------------------------
(***************************************************************************)
(* What works on media, proved for every value of the constants: each      *)
(* component's inductive invariant, IInv of its module, holds at its start *)
(* and is kept by every step of MediaNext (MediaInv), and it implies the   *)
(* properties of MCMedia.  A component's variables lie in the slots s1,    *)
(* s2, ... in the order in which its module declares them.  ServicesProofs *)
(* draws the theorems about the run from this.                             *)
(***************************************************************************)
EXTENDS MCMedia, FiniteSetTheorems, SequenceTheorems, TLAPS

-----------------------------------------------------------------------------
(* The calls of a process that transcribes *)

LEMMA ChainsRuns ==
  ASSUME [MediaNext]_all, running' = "chains"
  PROVE  running = "chains" /\ [Chains!Next]_(Chains!vars)
  BY DEF MediaNext, Step, all, slots, Chains!vars

LEMMA ChainsStart == ASSUME MediaInit, running = "chains" PROVE Chains!Init
  BY DEF MediaInit, Launch

(* A chain of at most n back ends, and what one that is added makes of it. *)
Chain(chain, n) == chain \in Seq(Chains!Backends) /\ Len(chain) <= n

LEMMA AddedIsChain ==
  ASSUME NEW n \in Nat, NEW chain, Chain(chain, n), NEW name \in Chains!Backends \cup {"none"}
  PROVE  /\ Chain(Chains!Added(chain, name), n + 1)
         /\ name # "none" => Chains!Added(chain, name) # <<>>
         /\ chain # <<>> => Chains!Added(chain, name) # <<>>
<1>1. CASE name = "none" \/ (\E i \in DOMAIN chain : chain[i] = name)
  <2>1. Chains!Added(chain, name) = chain BY <1>1 DEF Chains!Added
  <2> QED BY <1>1, <2>1 DEF Chain
<1>2. CASE ~(name = "none" \/ (\E i \in DOMAIN chain : chain[i] = name))
  <2>1. Chains!Added(chain, name) = Append(chain, name) /\ name \in Chains!Backends
    BY <1>2 DEF Chains!Added
  <2> QED BY <2>1 DEF Chain
<1> QED BY <1>1, <1>2

(* Every chain has up to four back ends; who asks for a model by name has one. *)
LEMMA ChainIsShort ==
  ASSUME Chains!InferenceAssumption, Chains!TypeOK, NEW c \in Call
  PROVE  /\ Chains!Chain(c) \in Seq(Chains!Backends) /\ Len(Chains!Chain(c)) \in 1 .. 4
         /\ s9[c] \in {"whisperkit", "mlx-model", "whispercpp-model"} => Len(Chains!Chain(c)) = 1
<1>1. /\ SttBackend \in Chains!Backends /\ Fallback \in Chains!Backends \cup {"none"}
      /\ {"parakeet", "whispercpp", "mlx", "whisperkit"} = Chains!Backends
  BY DEF Chains!InferenceAssumption, Chains!Backends
<1>2. Chains!WordChain(c) \in Seq(Chains!Backends) /\ Len(Chains!WordChain(c)) \in 1 .. 4
  <2>1. PICK first : first = Chains!Added(<<>>, IF c \in Supported THEN "parakeet" ELSE "none") OBVIOUS
  <2>2. Chain(first, 1)
    <3>1. Chain(<<>>, 0) BY DEF Chain
    <3>2. (IF c \in Supported THEN "parakeet" ELSE "none") \in Chains!Backends \cup {"none"} BY <1>1
    <3>3. Chain(first, 0 + 1) BY <2>1, <3>1, <3>2, AddedIsChain
    <3> QED BY <3>3
  <2>3. PICK second : second = Chains!Added(first, "whispercpp") OBVIOUS
  <2>4. Chain(second, 2) /\ second # <<>>
    <3>1. "whispercpp" \in Chains!Backends \cup {"none"} BY <1>1
    <3>2. Chain(second, 1 + 1) /\ second # <<>> BY <2>2, <2>3, <3>1, AddedIsChain
    <3> QED BY <3>2
  <2>5. PICK third : third = Chains!Added(second, SttBackend) OBVIOUS
  <2>6. Chain(third, 3) /\ third # <<>>
    <3>1. Chain(third, 2 + 1) /\ third # <<>> BY <2>4, <2>5, <1>1, AddedIsChain
    <3> QED BY <3>1
  <2>7. Chains!WordChain(c) = Chains!Added(third, Fallback)
    BY <2>1, <2>3, <2>5 DEF Chains!WordChain
  <2>8. Chain(Chains!WordChain(c), 4) /\ Chains!WordChain(c) # <<>>
    <3>1. Chain(Chains!WordChain(c), 3 + 1) /\ Chains!WordChain(c) # <<>>
      BY <2>6, <2>7, <1>1, AddedIsChain
    <3> QED BY <3>1
  <2>9. PICK w : w = Chains!WordChain(c) OBVIOUS
  <2>10. PICK B : B = Chains!Backends OBVIOUS
  <2>11. w \in Seq(B) /\ Len(w) <= 4 /\ w # <<>> BY <2>8, <2>9, <2>10 DEF Chain
  <2>12. w \in Seq(B) /\ Len(w) \in 1 .. 4
    <3>1. Len(w) \in Nat BY <2>11
    <3>2. Len(w) # 0 BY <2>11
    <3>3. PICK n \in Nat : n = Len(w) BY <3>1
    <3>4. n <= 4 /\ n # 0 BY <2>11, <3>2, <3>3
    <3>5. n \in 1 .. 4 BY <3>4
    <3> QED BY <2>11, <3>3, <3>5, Zenon
  <2> QED BY <2>9, <2>10, <2>12
<1>3. /\ Chains!ModelChain(s9[c]) \in Seq(Chains!Backends) /\ Len(Chains!ModelChain(s9[c])) \in 1 .. 2
      /\ s9[c] # "auto" => Len(Chains!ModelChain(s9[c])) = 1
  <2>1. Chains!Primary(s9[c]) \in Chains!Backends
    BY <1>1 DEF Chains!Primary
  <2>2. CASE s9[c] = "auto" /\ Fallback \notin {"none", Chains!Primary(s9[c])}
    <3>1. Chains!ModelChain(s9[c]) = <<Chains!Primary(s9[c])>> \o <<Fallback>>
      BY <2>2 DEF Chains!ModelChain
    <3>2. Fallback \in Chains!Backends BY <1>1, <2>2
    <3>3. PICK b \in Chains!Backends : b = Chains!Primary(s9[c]) BY <2>1
    <3>4. Chains!ModelChain(s9[c]) = <<b>> \o <<Fallback>> BY <3>1, <3>3, Zenon
    <3> HIDE DEF Chains!Backends
    <3>5. /\ <<b>> \o <<Fallback>> \in Seq(Chains!Backends) /\ Len(<<b>> \o <<Fallback>>) = 2
      BY <3>2
    <3>6. /\ Chains!ModelChain(s9[c]) \in Seq(Chains!Backends)
          /\ Len(Chains!ModelChain(s9[c])) = 2
      BY <3>4, <3>5, Zenon
    <3>7. s9[c] = "auto" BY <2>2
    <3> QED BY <3>6, <3>7
  <2>3. CASE ~(s9[c] = "auto" /\ Fallback \notin {"none", Chains!Primary(s9[c])})
    <3>1. Chains!ModelChain(s9[c]) = <<Chains!Primary(s9[c])>> \o <<>>
      BY <2>3, Zenon DEF Chains!ModelChain
    <3>2. PICK b \in Chains!Backends : b = Chains!Primary(s9[c]) BY <2>1
    <3>3. Chains!ModelChain(s9[c]) = <<b>> \o <<>> BY <3>1, <3>2, Zenon
    <3>4. <<b>> \o <<>> \in Seq(Chains!Backends) /\ Len(<<b>> \o <<>>) = 1 OBVIOUS
    <3> QED BY <3>3, <3>4
  <2> QED BY <2>2, <2>3
<1>4. Chains!Chain(c) \in {Chains!WordChain(c), Chains!ModelChain(s9[c])} BY DEF Chains!Chain
<1>5. s9[c] # "auto" => Chains!Chain(c) = Chains!ModelChain(s9[c]) BY DEF Chains!Chain
<1> QED BY <1>2, <1>3, <1>4, <1>5

LEMMA ChainsInit ==
  ASSUME Chains!InferenceAssumption, Chains!Init
  PROVE  Chains!IInv
<1>1. Chains!TypeOK
  BY DEF Chains!InferenceAssumption, Chains!Init, Chains!TypeOK, Chains!Requests
<1>2. \A c \in Call : s1[c] = "idle" /\ s2[c] = 1 /\ s4[c] = "none" BY DEF Chains!Init
<1>3. Chains!WithinChain BY <1>1, <1>2, ChainIsShort DEF Chains!WithinChain, Chains!Inside
<1>4. Chains!OneComputesAtATime
  <2>1. s6 = {} BY DEF Chains!Init
  <2>2. {c \in Call : s1[c] = "compute"} = {} BY <1>2
  <2> QED BY <2>1, <2>2 DEF Chains!OneComputesAtATime
<1>5. Chains!RefusedBefore BY <1>2 DEF Chains!RefusedBefore
<1>6. Chains!BrokenFailed BY DEF Chains!Init, Chains!BrokenFailed
<1>7. Chains!NoChildLeft /\ Chains!NoSilentSwitch
  BY <1>2 DEF Chains!NoChildLeft, Chains!NoSilentSwitch
<1> QED BY <1>1, <1>3, <1>4, <1>5, <1>6, <1>7 DEF Chains!IInv

LEMMA ChainsKept ==
  ASSUME s9' = s9, NEW c \in Call
  PROVE  Chains!Chain(c)' = Chains!Chain(c)
  BY DEF Chains!Chain, Chains!WordChain, Chains!ModelChain, Chains!Added, Chains!Primary

(* A step that leaves the calls where they are. *)
LEMMA ChainsStay ==
  ASSUME Chains!IInv, UNCHANGED <<s1, s2, s4, s6, s7, s8, s9>>,
         s3' \subseteq Cancellable, s5' \subseteq Call
  PROVE  Chains!IInv'
<1>1. \A c \in Call : Chains!Chain(c)' = Chains!Chain(c) BY ChainsKept
<1>2. Chains!TypeOK' BY DEF Chains!IInv, Chains!TypeOK
<1>3. Chains!WithinChain' BY <1>1 DEF Chains!IInv, Chains!WithinChain
<1>4. Chains!RefusedBefore' BY <1>1 DEF Chains!IInv, Chains!RefusedBefore
<1>5. Chains!NoSilentSwitch' BY <1>1 DEF Chains!IInv, Chains!NoSilentSwitch
<1>6. Chains!BrokenFailed' /\ Chains!NoChildLeft' /\ Chains!OneComputesAtATime'
  BY DEF Chains!IInv, Chains!BrokenFailed, Chains!NoChildLeft,
     Chains!OneComputesAtATime
<1> QED BY <1>2, <1>3, <1>4, <1>5, <1>6 DEF Chains!IInv

Placed == (Chains!Inside \ {"next"}) \cup {"done"}

(* A step of call c to the label l (s1 at, s4 child, s6 lock, s8 broke), and what it   *)
(* does to the place in its chain (s2 turn, s7 refused).                                *)
Moves(c, l) ==
  /\ s1' = [s1 EXCEPT ![c] = l] /\ s9' = s9
  /\ s3' \subseteq Cancellable /\ s5' \subseteq Call
  /\ s4' \in [Call -> {"none", "works", "hangs", "stubborn"}]
  /\ \A d \in Call \ {c} : s4'[d] = s4[d]
  /\ l \in {"child", "stopping"} <=> s4'[c] # "none"
  /\ s6' = (IF l = "compute" THEN s6 \cup {c} ELSE s6 \ {c})
  /\ l = "compute" => s6 \subseteq {c}
  /\ s8' = s8 \/ (s8' = s8 \cup {c} /\ l = "failed")
  /\ c \notin s8

Turns(c, l) ==
  \/ UNCHANGED <<s2, s7>> /\ (l \in Placed => s2[c] <= Len(Chains!Chain(c)))
  \/ Chains!Skip(c) /\ s2[c] <= Len(Chains!Chain(c))

LEMMA ChainsMove ==
  ASSUME Chains!InferenceAssumption, Chains!IInv, NEW c \in Call,
         NEW l \in {"idle", "queue"} \cup Chains!Inside \cup Chains!Ends,
         Moves(c, l), Turns(c, l)
  PROVE  Chains!IInv'
<1>1. Chains!TypeOK BY DEF Chains!IInv
<1>2. /\ s1' \in [Call -> {"idle", "queue"} \cup Chains!Inside \cup Chains!Ends] /\ s1'[c] = l
      /\ \A d \in Call \ {c} : s1'[d] = s1[d]
  BY <1>1 DEF Chains!TypeOK, Moves
<1>3. \A d \in Call : Chains!Chain(d)' = Chains!Chain(d)
  BY ChainsKept DEF Moves
<1>4. /\ s2' \in [Call -> 1 .. 5] /\ s7' \in [Call -> SUBSET Chains!Backends]
      /\ \A d \in Call \ {c} : s2'[d] = s2[d] /\ s7'[d] = s7[d]
      /\ s2'[c] <= Len(Chains!Chain(c)) + 1
      /\ l \in Placed => s2'[c] <= Len(Chains!Chain(c))
      /\ \A i \in 1 .. s2'[c] - 1 : Chains!Chain(c)[i] \in s7'[c]
  <2>1. /\ Chains!Chain(c) \in Seq(Chains!Backends) /\ Len(Chains!Chain(c)) \in 1 .. 4
    BY <1>1, ChainIsShort
  <2>2. /\ s2[c] \in 1 .. 5 /\ s2[c] <= Len(Chains!Chain(c)) + 1
        /\ \A i \in 1 .. s2[c] - 1 : Chains!Chain(c)[i] \in s7[c]
    BY <1>1 DEF Chains!IInv, Chains!TypeOK, Chains!WithinChain, Chains!RefusedBefore
  <2>3. CASE UNCHANGED <<s2, s7>> /\ (l \in Placed => s2[c] <= Len(Chains!Chain(c)))
    BY <1>1, <2>2, <2>3 DEF Chains!TypeOK
  <2>4. CASE Chains!Skip(c) /\ s2[c] <= Len(Chains!Chain(c))
    <3>1. /\ s2' = [s2 EXCEPT ![c] = s2[c] + 1] /\ s1' = [s1 EXCEPT ![c] = "next"]
          /\ s7' = [s7 EXCEPT ![c] = s7[c] \cup {Chains!Chain(c)[s2[c]]}]
      BY <2>4 DEF Chains!Skip, Chains!Goto, Chains!Backend
    <3>2. l = "next" BY <1>1, <1>2, <3>1 DEF Chains!TypeOK
    <3>3. Chains!Chain(c)[s2[c]] \in Chains!Backends BY <2>1, <2>2, <2>4
    <3>4. s2'[c] = s2[c] + 1 /\ s7'[c] = s7[c] \cup {Chains!Chain(c)[s2[c]]}
      BY <1>1, <3>1 DEF Chains!TypeOK
    <3>5. \A i \in 1 .. s2'[c] - 1 : Chains!Chain(c)[i] \in s7'[c]
      <4> SUFFICES ASSUME NEW i \in 1 .. s2'[c] - 1 PROVE Chains!Chain(c)[i] \in s7'[c] OBVIOUS
      <4>1. i \in 1 .. s2[c] - 1 \/ i = s2[c] BY <3>4, <2>2
      <4> QED BY <4>1, <3>4, <2>2
    <3>6. l \notin Placed BY <3>2 DEF Placed
    <3>7. s2' \in [Call -> 1 .. 5]
      <4>1. PICK n \in 1 .. 4 : n = Len(Chains!Chain(c)) BY <2>1
      <4>2. s2[c] \in 1 .. 5 /\ s2[c] <= n BY <2>2, <2>4, <4>1
      <4>3. s2[c] + 1 \in 1 .. 5 BY <4>2
      <4> QED BY <1>1, <3>1, <4>3 DEF Chains!TypeOK
    <3>8. s7' \in [Call -> SUBSET Chains!Backends] BY <1>1, <3>1, <3>3 DEF Chains!TypeOK
    <3>9. \A d \in Call \ {c} : s2'[d] = s2[d] /\ s7'[d] = s7[d]
      BY <1>1, <3>1 DEF Chains!TypeOK
    <3>10. s2'[c] <= Len(Chains!Chain(c)) + 1 BY <3>4, <2>1, <2>2, <2>4
    <3> QED BY <3>5, <3>6, <3>7, <3>8, <3>9, <3>10
  <2> QED BY <2>3, <2>4 DEF Turns
<1>5. /\ s6 = {d \in Call : s1[d] = "compute"} /\ s6 \subseteq Call
  BY DEF Chains!IInv, Chains!OneComputesAtATime
<1>6. s6' = {d \in Call : s1'[d] = "compute"} /\ s6' \subseteq Call
  BY <1>2, <1>5 DEF Moves
<1>7. \A d, e \in s6' : d = e
  <2>1. \A d, e \in s6 : d = e BY DEF Chains!IInv, Chains!OneComputesAtATime
  <2> QED BY <2>1 DEF Moves
<1>8. Chains!OneComputesAtATime' BY <1>6, <1>7 DEF Chains!OneComputesAtATime
<1>9. \A d \in Call : s1'[d] \in {"child", "stopping"} <=> s4'[d] # "none"
  BY <1>1, <1>2 DEF Chains!TypeOK, Moves
<1>10. Chains!TypeOK'
  BY <1>1, <1>2, <1>4, <1>6, <1>9 DEF Chains!TypeOK, Moves
<1>11. Chains!WithinChain'
  <2> SUFFICES ASSUME NEW d \in Call
               PROVE  /\ s2'[d] <= Len(Chains!Chain(d)) + 1
                      /\ s1'[d] \in Placed => s2'[d] <= Len(Chains!Chain(d))
    BY <1>3 DEF Chains!WithinChain, Placed
  <2>1. CASE d = c BY <2>1, <1>2, <1>4
  <2>2. CASE d # c BY <2>2, <1>2, <1>4 DEF Chains!IInv, Chains!WithinChain, Placed
  <2> QED BY <2>1, <2>2
<1>12. Chains!RefusedBefore'
  <2> SUFFICES ASSUME NEW d \in Call, NEW i \in 1 .. s2'[d] - 1
               PROVE  Chains!Chain(d)[i] \in s7'[d]
    BY <1>3 DEF Chains!RefusedBefore
  <2>1. CASE d = c BY <2>1, <1>4
  <2>2. CASE d # c BY <2>2, <1>4 DEF Chains!IInv, Chains!RefusedBefore
  <2> QED BY <2>1, <2>2
<1>13. Chains!BrokenFailed'
  BY <1>1, <1>2 DEF Chains!IInv, Chains!BrokenFailed, Chains!TypeOK, Moves
<1>14. Chains!NoChildLeft'
  BY <1>9 DEF Chains!NoChildLeft, Chains!Ends
<1>15. Chains!NoSilentSwitch'
  <2> SUFFICES ASSUME NEW d \in Call, s1'[d] = "done"
               PROVE  /\ d \notin s8' /\ \A i \in 1 .. s2'[d] - 1 : Chains!Chain(d)[i] \in s7'[d]
                      /\ s9[d] \in {"whisperkit", "mlx-model", "whispercpp-model"} => s2'[d] = 1
    BY <1>3 DEF Chains!NoSilentSwitch, Moves
  <2>1. d \notin s8' BY <1>13 DEF Chains!BrokenFailed
  <2>2. s2'[d] <= Len(Chains!Chain(d))
    BY <1>3, <1>11 DEF Chains!WithinChain
  <2>3. s2'[d] \in 1 .. 5 BY <1>4
  <2>4. s9[d] \in {"whisperkit", "mlx-model", "whispercpp-model"} => s2'[d] = 1
    <3>1. Chains!TypeOK /\ d \in Call /\ Chains!InferenceAssumption BY <1>1
    <3>2. s9[d] \in {"whisperkit", "mlx-model", "whispercpp-model"} => s2'[d] <= 1
      BY <2>2, <3>1, ChainIsShort
    <3> QED BY <3>2, <2>3
  <2>5. \A i \in 1 .. s2'[d] - 1 : Chains!Chain(d)[i] \in s7'[d]
    BY <1>3, <1>12 DEF Chains!RefusedBefore
  <2> QED BY <2>1, <2>4, <2>5
<1> QED BY <1>10, <1>11, <1>12, <1>13, <1>14, <1>15, <1>8 DEF Chains!IInv

(* Every step of a call is such a move, but a cancel and the passing of its time limit. *)
LEMMA ChainsNext ==
  ASSUME Chains!InferenceAssumption, Chains!IInv, [Chains!Next]_(Chains!vars)
  PROVE  Chains!IInv'
<1>1. Chains!TypeOK /\ s6 = {d \in Call : s1[d] = "compute"} /\ s8 \subseteq Call
      /\ \A d, e \in s6 : d = e
  BY DEF Chains!IInv, Chains!OneComputesAtATime, Chains!TypeOK
<1>2. CASE UNCHANGED Chains!vars
  BY <1>1, <1>2, ChainsStay DEF Chains!vars, Chains!TypeOK
<1>3. ASSUME NEW c \in Call, Chains!Cancel(c) PROVE Chains!IInv'
  BY <1>1, <1>3, ChainsStay DEF Chains!Cancel, Chains!TypeOK
<1>4. ASSUME NEW c \in Call, Chains!RunOver(c) PROVE Chains!IInv'
  BY <1>1, <1>4, ChainsStay DEF Chains!RunOver, Chains!TypeOK
<1>5. ASSUME NEW c \in Call,
             \/ Chains!Begin(c) \/ Chains!Progress(c) \/ Chains!DecodeFails(c) \/ Chains!MlxMissing(c)
             \/ Chains!WhisperCppMissing(c) \/ Chains!ParakeetMissing(c)
             \/ Chains!WhisperKitMissing(c) \/ Chains!CallBreaks(c)
      PROVE  Chains!IInv'
  <2>1. /\ s1[c] \in Placed => s2[c] <= Len(Chains!Chain(c))
        /\ s1[c] # "failed" => c \notin s8
        /\ s2[c] \in Nat /\ Len(Chains!Chain(c)) \in Nat
        /\ s1[c] \in {"child", "stopping"} <=> s4[c] # "none"
        /\ c \in s6 <=> s1[c] = "compute"
        /\ s4 \in [Call -> {"none", "works", "hangs", "stubborn"}]
        /\ s3 \subseteq Cancellable /\ s5 \subseteq Call
    <3>1. s1[c] \in Placed => s2[c] <= Len(Chains!Chain(c))
      BY DEF Chains!IInv, Chains!WithinChain, Placed
    <3>2. s1[c] # "failed" => c \notin s8 BY DEF Chains!IInv, Chains!BrokenFailed
    <3>3. Len(Chains!Chain(c)) \in Nat
      <4>1. Len(Chains!Chain(c)) \in 1 .. 4 BY <1>1, ChainIsShort
      <4> QED BY <4>1
    <3>4. c \in s6 <=> s1[c] = "compute" BY <1>1
    <3> QED BY <1>1, <3>1, <3>2, <3>3, <3>4 DEF Chains!TypeOK
  <2> USE DEF Placed, Chains!Inside, Chains!Ends, Chains!Goto, Moves, Turns
  <2>2. CASE Chains!Begin(c) BY <2>1, <2>2, ChainsMove DEF Chains!Begin
  <2>3. CASE Chains!Admit(c)
    <3>1. PICK l \in {"cancelled", "next"} : s1' = [s1 EXCEPT ![c] = l]
      BY <2>3 DEF Chains!Admit
    <3> QED BY <2>1, <2>3, <3>1, ChainsMove DEF Chains!Admit
  <2>4. CASE Chains!TryNext(c)
    <3>1. PICK l \in {"cancelled", "unavailable", "prepare"} :
            s1' = [s1 EXCEPT ![c] = l] /\ (l = "prepare" => s2[c] <= Len(Chains!Chain(c)))
      <4>1. PICK n \in Nat : n = Len(Chains!Chain(c)) BY <2>1
      <4>2. s1' = [s1 EXCEPT ![c] = IF c \in s3 THEN "cancelled"
                                    ELSE IF s2[c] > n THEN "unavailable" ELSE "prepare"]
        BY <2>4, <4>1 DEF Chains!TryNext
      <4>3. ~(s2[c] > n) => s2[c] <= n BY <2>1
      <4> QED BY <4>1, <4>2, <4>3
    <3>2. UNCHANGED <<s2, s3, s4, s5, s6, s7, s8, s9>> /\ s1[c] = "next"
      BY <2>4 DEF Chains!TryNext
    <3>3. Moves(c, l) BY <2>1, <3>1, <3>2
    <3>4. Turns(c, l) BY <3>1, <3>2
    <3> QED BY <3>3, <3>4, ChainsMove
  <2>5. CASE Chains!WhisperCpp(c) \/ Chains!Parakeet(c)
    <3>1. s1[c] = "prepare" /\ Chains!StartChild(c) BY <2>5 DEF Chains!WhisperCpp, Chains!Parakeet
    <3>2. CASE c \in s3 BY <2>1, <3>1, <3>2, ChainsMove DEF Chains!StartChild
    <3>3. CASE c \notin s3
      <4>1. PICK kind \in {"works", "hangs", "stubborn"} : s4' = [s4 EXCEPT ![c] = kind]
        BY <3>1, <3>3 DEF Chains!StartChild
      <4>2. s4' \in [Call -> {"none", "works", "hangs", "stubborn"}] /\ s4'[c] # "none"
            /\ \A d \in Call \ {c} : s4'[d] = s4[d]
        BY <2>1, <4>1
      <4> QED BY <2>1, <3>1, <3>3, <4>2, ChainsMove DEF Chains!StartChild
    <3> QED BY <3>2, <3>3
  <2>6. CASE Chains!Approach(c)
    <3>1. PICK l \in {"lock", "request"} : s1' = [s1 EXCEPT ![c] = l]
      BY <2>6 DEF Chains!Approach
    <3>2. UNCHANGED <<s2, s3, s4, s5, s6, s7, s8, s9>> /\ s1[c] = "prepare"
      BY <2>6 DEF Chains!Approach
    <3>3. Moves(c, l) BY <2>1, <3>1, <3>2
    <3>4. Turns(c, l) BY <2>1, <3>1, <3>2
    <3> QED BY <3>3, <3>4, ChainsMove
  <2>7. CASE Chains!StopChild(c) BY <2>1, <2>7, ChainsMove DEF Chains!StopChild
  <2>8. CASE Chains!ChildExits(c) \/ Chains!ChildStopped(c) \/ Chains!CallBreaks(c)
    <3>1. PICK l \in {"done", "failed", "cancelled"} :
            /\ s1' = [s1 EXCEPT ![c] = l] /\ UNCHANGED <<s2, s7>>
            /\ s8' = s8 \/ (s8' = s8 \cup {c} /\ l = "failed")
      BY <2>8 DEF Chains!ChildExits, Chains!ChildStopped, Chains!CallBreaks, Chains!Succeed, Chains!Fail
    <3>2. s4' = [s4 EXCEPT ![c] = "none"] /\ s5' \subseteq Call /\ UNCHANGED <<s3, s6, s9>>
          /\ s1[c] \in {"child", "stopping"}
      BY <2>1, <2>8 DEF Chains!ChildExits, Chains!ChildStopped, Chains!CallBreaks
    <3>3. s4' \in [Call -> {"none", "works", "hangs", "stubborn"}] /\ s4'[c] = "none"
          /\ \A d \in Call \ {c} : s4'[d] = s4[d]
      BY <2>1, <3>2
    <3>4. Moves(c, l) BY <2>1, <3>1, <3>2, <3>3
    <3>5. Turns(c, l)
      <4>1. s1[c] \in Placed BY <3>2
      <4> QED BY <2>1, <3>1, <4>1
    <3> QED BY <3>4, <3>5, ChainsMove
  <2>9. CASE Chains!TakeLock(c)
    <3>1. CASE c \in s3 BY <2>1, <2>9, <3>1, ChainsMove DEF Chains!TakeLock
    <3>2. CASE c \notin s3 BY <2>1, <2>9, <3>2, ChainsMove DEF Chains!TakeLock
    <3> QED BY <3>1, <3>2
  <2>10. CASE Chains!Computed(c) \/ Chains!Answered(c) \/ Chains!DecodeFails(c)
    <3>1. PICK l \in {"done", "failed"} :
            /\ s1' = [s1 EXCEPT ![c] = l] /\ UNCHANGED <<s2, s7>>
            /\ s8' = s8 \/ (s8' = s8 \cup {c} /\ l = "failed")
      BY <2>10 DEF Chains!Computed, Chains!Answered, Chains!DecodeFails, Chains!Succeed, Chains!Fail
    <3>2. s6' = s6 \ {c} /\ UNCHANGED <<s3, s4, s5, s9>> /\ s1[c] \in {"compute", "request", "prepare"}
      BY <2>1, <2>10 DEF Chains!Computed, Chains!Answered, Chains!DecodeFails
    <3> QED BY <2>1, <3>1, <3>2, ChainsMove
  <2>11. CASE \/ Chains!MlxMissing(c) \/ Chains!WhisperCppMissing(c) \/ Chains!ParakeetMissing(c)
              \/ Chains!WhisperKitMissing(c)
    <3>1. Chains!Unavailable(c) /\ s1[c] \in {"prepare", "request"}
      BY <2>11 DEF Chains!MlxMissing, Chains!WhisperCppMissing, Chains!ParakeetMissing,
         Chains!WhisperKitMissing
    <3>2. s1' = [s1 EXCEPT ![c] = "next"] /\ Chains!Skip(c) /\ UNCHANGED <<s3, s4, s5, s6, s8, s9>>
      BY <3>1 DEF Chains!Unavailable, Chains!Skip
    <3> QED BY <2>1, <3>1, <3>2, ChainsMove
  <2> QED BY <1>5, <2>2, <2>3, <2>4, <2>5, <2>6, <2>7, <2>8, <2>9, <2>10, <2>11 DEF Chains!Progress
<1> QED BY <1>2, <1>3, <1>4, <1>5 DEF Chains!Next

ChainsInv == running = "chains" => Chains!IInv

LEMMA ChainsInductive ==
  /\ MediaInit => ChainsInv
  /\ ChainsInv /\ [MediaNext]_all => ChainsInv'
<1>1. Chains!InferenceAssumption BY MediaAssumption
<1>2. MediaInit => ChainsInv BY <1>1, ChainsStart, ChainsInit DEF ChainsInv
<1>3. ASSUME ChainsInv, [MediaNext]_all PROVE ChainsInv'
  <2> SUFFICES ASSUME running' = "chains" PROVE Chains!IInv' BY DEF ChainsInv
  <2> QED BY <1>1, <1>3, ChainsRuns, ChainsNext DEF ChainsInv
<1> QED BY <1>2, <1>3

(* Only the loop over the chain says that no back end is available. *)
LEMMA ChainsStepsHonest ==
  ASSUME Chains!IInv, [Chains!Next]_(Chains!vars)
  PROVE  Chains!CancelIsNoLackOfBackends
<1>1. s3 \subseteq Call /\ s1 \in [Call -> {"idle", "queue"} \cup Chains!Inside \cup Chains!Ends]
  BY MediaAssumption DEF Chains!IInv, Chains!TypeOK, Chains!InferenceAssumption
<1>2. ASSUME s1' = s1 PROVE Chains!CancelIsNoLackOfBackends
  BY <1>2 DEF Chains!CancelIsNoLackOfBackends
<1>3. ASSUME NEW c \in Call, NEW l, s1' = [s1 EXCEPT ![c] = l], l = "unavailable" => c \notin s3
      PROVE  Chains!CancelIsNoLackOfBackends
  BY <1>1, <1>3 DEF Chains!CancelIsNoLackOfBackends
<1>4. CASE UNCHANGED Chains!vars BY <1>2, <1>4 DEF Chains!vars
<1>5. ASSUME NEW c \in Call,
             \/ Chains!Begin(c) \/ Chains!Cancel(c) \/ Chains!Progress(c) \/ Chains!DecodeFails(c)
             \/ Chains!MlxMissing(c) \/ Chains!WhisperCppMissing(c) \/ Chains!ParakeetMissing(c)
             \/ Chains!WhisperKitMissing(c) \/ Chains!RunOver(c) \/ Chains!CallBreaks(c)
      PROVE  Chains!CancelIsNoLackOfBackends
  <2> USE DEF Chains!Goto, Chains!Fail, Chains!Succeed
  <2>1. CASE Chains!Cancel(c) \/ Chains!RunOver(c) BY <1>2, <2>1 DEF Chains!Cancel, Chains!RunOver
  <2>2. CASE Chains!TryNext(c)
    <3>1. CASE c \in s3 BY <1>3, <2>2, <3>1 DEF Chains!TryNext
    <3>2. CASE c \notin s3 BY <1>3, <2>2, <3>2 DEF Chains!TryNext
    <3> QED BY <3>1, <3>2
  <2>3. CASE Chains!Begin(c) \/ Chains!StopChild(c)
    BY <1>3, <2>3 DEF Chains!Begin, Chains!StopChild
  <2>4. CASE Chains!Admit(c)
    <3>1. \E l \in {"cancelled", "next"} : s1' = [s1 EXCEPT ![c] = l] BY <2>4 DEF Chains!Admit
    <3> QED BY <1>3, <3>1
  <2>5. CASE Chains!WhisperCpp(c) \/ Chains!Parakeet(c)
    <3>1. \E l \in {"cancelled", "child"} : s1' = [s1 EXCEPT ![c] = l]
      BY <2>5 DEF Chains!WhisperCpp, Chains!Parakeet, Chains!StartChild
    <3> QED BY <1>3, <3>1
  <2>6. CASE Chains!Approach(c) BY <1>3, <2>6 DEF Chains!Approach
  <2>7. CASE Chains!ChildExits(c) \/ Chains!ChildStopped(c) \/ Chains!CallBreaks(c)
              \/ Chains!Computed(c) \/ Chains!Answered(c) \/ Chains!DecodeFails(c)
    <3>1. \E l \in {"cancelled", "done", "failed"} : s1' = [s1 EXCEPT ![c] = l]
      BY <2>7 DEF Chains!ChildExits, Chains!ChildStopped, Chains!CallBreaks, Chains!Computed,
                  Chains!Answered, Chains!DecodeFails
    <3> QED BY <1>3, <3>1
  <2>8. CASE Chains!TakeLock(c)
    <3>1. \E l \in {"cancelled", "compute"} : s1' = [s1 EXCEPT ![c] = l] BY <2>8 DEF Chains!TakeLock
    <3> QED BY <1>3, <3>1
  <2>9. CASE \/ Chains!MlxMissing(c) \/ Chains!WhisperCppMissing(c) \/ Chains!ParakeetMissing(c)
             \/ Chains!WhisperKitMissing(c)
    <3>1. s1' = [s1 EXCEPT ![c] = "next"]
      BY <2>9 DEF Chains!MlxMissing, Chains!WhisperCppMissing, Chains!ParakeetMissing,
         Chains!WhisperKitMissing, Chains!Unavailable, Chains!Skip
    <3> QED BY <1>3, <3>1
  <2> QED BY <1>5, <2>1, <2>2, <2>3, <2>4, <2>5, <2>6, <2>7, <2>8, <2>9 DEF Chains!Progress
<1> QED BY <1>4, <1>5 DEF Chains!Next

-----------------------------------------------------------------------------
(* The windows around the chapter marks *)

LEMMA WindowsRuns ==
  ASSUME [MediaNext]_all, running' = "windows"
  PROVE  running = "windows" /\ [Windows!Next]_(Windows!vars)
  BY DEF MediaNext, Step, all, slots, Windows!vars

LEMMA WindowsStart == ASSUME MediaInit, running = "windows" PROVE Windows!Init
  BY DEF MediaInit, Launch

(* What the invariant says, with the slots for names. *)
LEMMA WindowsTypes ==
  ASSUME Windows!WindowAssumption, Windows!IInv
  PROVE  /\ s4 \in Seq(Nat) /\ s4 # <<>> /\ s5 \in Nat /\ s7 \in 1 .. Len(s4) /\ s8 \in 1 .. Len(Shifts)
         /\ s9 \in Windows!Clip \cup {Windows!None}
         /\ s10 = Windows!None \/ s10 \in [clip : Windows!Clip, form : {"words", "garbage"}]
         /\ s11 \in Seq({"ok", "abort"}) /\ s12 \in Seq(Windows!Window)
         /\ Windows!ThisClip \in Windows!Clip /\ Windows!ThisClip = [mark |-> s4[s7], start |-> Windows!ClipStart]
         /\ s4[s7] \in Nat /\ Windows!ClipStart \in Nat
<1>1. Windows!TypeOK BY DEF Windows!IInv
<1>2. s4 \in Seq(Nat) /\ s4 # <<>> /\ s7 \in 1 .. Len(s4)
  BY <1>1 DEF Windows!TypeOK, Windows!WindowAssumption
<1>3. s5 \in Nat BY <1>1 DEF Windows!TypeOK, Windows!WindowAssumption
<1>4. Shifts \in Seq(Int) /\ HalfWindow \in Nat /\ s8 \in 1 .. Len(Shifts)
  BY <1>1 DEF Windows!TypeOK, Windows!WindowAssumption
<1>5. s4[s7] \in Nat BY <1>2
<1>6. Shifts[s8] \in Int BY <1>4
<1>7. Windows!ClipStart \in Nat
  <2>1. PICK m \in Nat, d \in Int : m = s4[s7] /\ d = Shifts[s8] BY <1>5, <1>6
  <2>2. (IF m - HalfWindow + d < 0 THEN 0 ELSE m - HalfWindow + d) \in Nat BY <1>4
  <2> QED BY <2>1, <2>2 DEF Windows!ClipStart
<1>8. Windows!ThisClip \in Windows!Clip /\ Windows!ThisClip = [mark |-> s4[s7], start |-> Windows!ClipStart]
  BY <1>5, <1>7 DEF Windows!ThisClip, Windows!Clip
<1> QED BY <1>1, <1>2, <1>3, <1>4, <1>5, <1>7, <1>8 DEF Windows!TypeOK

LEMMA WindowsInit ==
  ASSUME Windows!WindowAssumption, Windows!Init
  PROVE  Windows!IInv
<1>1. s4 \in Seq(Nat) /\ s4 # <<>> /\ Shifts \in Seq(Int) /\ Shifts # <<>>
  BY DEF Windows!Init, Windows!WindowAssumption
<1>2. PICK m \in Nat, n \in Nat : m = Len(s4) /\ n = Len(Shifts) /\ m # 0 /\ n # 0 BY <1>1
<1>3. 1 \in 1 .. Len(s4) /\ 1 \in 1 .. Len(Shifts) /\ 0 <= Len(s4) /\ 0 <= Len(Shifts) BY <1>2
<1>4. <<>> \in Seq({"ok", "abort"}) /\ <<>> \in Seq(Windows!Window) /\ Len(<<>>) = 0 OBVIOUS
<1>5. Windows!TypeOK
  <2>1. s1 = "pinned" /\ s2 = 0 /\ 0 \in 0 .. Swaps /\ s3 = FALSE /\ s4 \in MarkLists /\ s5 \in Durations
    BY DEF Windows!Init, Windows!WindowAssumption
  <2>2. /\ s6 = "check" /\ s7 = 1 /\ s8 = 1 /\ s9 = Windows!None /\ s10 = Windows!None
        /\ s11 = <<>> /\ s12 = <<>> /\ s13 = "running"
    BY DEF Windows!Init
  <2>3. /\ s7 \in 1 .. Len(s4) /\ s8 \in 1 .. Len(Shifts)
        /\ s11 \in Seq({"ok", "abort"}) /\ Len(s11) <= Len(Shifts) /\ s12 \in Seq(Windows!Window)
    BY <2>2, <1>3, <1>4
  <2> QED BY <2>1, <2>2, <2>3 DEF Windows!TypeOK, Windows!Outcomes
<1> QED BY <1>3, <1>4, <1>5 DEF Windows!Init, Windows!IInv, Windows!FilesOfThisClip, Windows!CodesOfShifts,
     Windows!WindowsBefore, Windows!WordsOfTheirClip, Windows!OneWindowPerMark

(* Whoever ends the call leaves nothing behind, and answers only with all windows. *)
LEMMA WindowsEnd ==
  ASSUME Windows!WindowAssumption, Windows!IInv,
         NEW how \in Windows!Outcomes, how # "running", how = "answered" => s6 = "last",
         Windows!End(how)
  PROVE  Windows!IInv'
<1>1. /\ s13' = how /\ s6' = "over" /\ s9' = Windows!None /\ s10' = Windows!None
      /\ UNCHANGED <<s1, s2, s3, s4, s5, s7, s8, s11, s12>>
  BY DEF Windows!End, Windows!world, Windows!progress
<1>2. Windows!TypeOK' BY <1>1 DEF Windows!IInv, Windows!TypeOK
<1>3. Windows!FilesOfThisClip' /\ Windows!CodesOfShifts'
  BY <1>1 DEF Windows!FilesOfThisClip, Windows!CodesOfShifts
<1>4. Windows!WindowsBefore' BY <1>1 DEF Windows!IInv, Windows!WindowsBefore
<1>5. Windows!WordsOfTheirClip' BY <1>1 DEF Windows!IInv, Windows!WordsOfTheirClip
<1>6. Windows!OneWindowPerMark' BY <1>1 DEF Windows!IInv, Windows!OneWindowPerMark, Windows!WindowsBefore
<1> QED BY <1>2, <1>3, <1>4, <1>5, <1>6 DEF Windows!IInv

(* A step on the way to the next look at an exit code: the windows done, the marks and *)
(* the exit codes stay.                                                                  *)
LEMMA WindowsGoOn ==
  ASSUME Windows!WindowAssumption, Windows!IInv,
         UNCHANGED <<s2, s4, s5, s7, s8, s11, s12, s13>>, s13 = "running",
         s1' \in {"pinned", "other", "gone"}, s3' \in BOOLEAN,
         s6' \in {"clip", "decode", "clipped", "whisper"}, s6 \in {"check", "clip", "decode", "clipped"},
         s6 = "check" => \A i \in 1 .. Len(s4) : s4[i] <= s5,
         s9' \in Windows!Clip \cup {Windows!None},
         s10' = Windows!None \/ s10' \in [clip : Windows!Clip, form : {"words", "garbage"}],
         s6' \in {"clipped", "whisper"} => s9' = Windows!ThisClip,
         s6' = "whisper" => s10' = Windows!None
  PROVE  Windows!IInv'
<1>1. Windows!TypeOK' BY DEF Windows!IInv, Windows!TypeOK
<1>2. Windows!ThisClip' = Windows!ThisClip BY DEF Windows!ThisClip, Windows!ClipStart
<1>3. Windows!FilesOfThisClip' BY <1>2 DEF Windows!FilesOfThisClip
<1>4. Windows!CodesOfShifts' BY DEF Windows!IInv, Windows!CodesOfShifts
<1>5. Windows!WindowsBefore' BY DEF Windows!IInv, Windows!WindowsBefore
<1>6. Windows!WordsOfTheirClip' BY DEF Windows!IInv, Windows!WordsOfTheirClip
<1>7. Windows!OneWindowPerMark' BY DEF Windows!IInv, Windows!OneWindowPerMark
<1> QED BY <1>1, <1>3, <1>4, <1>5, <1>6, <1>7 DEF Windows!IInv

(* The next mark, or the last look. *)
LEMMA WindowsDone ==
  ASSUME Windows!WindowAssumption, Windows!IInv, s6 = "verdict", s13 = "running",
         NEW ok \in BOOLEAN, NEW words \in Windows!Clip \cup {Windows!None},
         ok => words = Windows!ThisClip,
         Windows!WindowDone(ok, words)
  PROVE  Windows!IInv'
<1>1. PICK window : window = [mark |-> s4[s7], ok |-> ok, clip_start |-> Windows!ClipStart,
                              codes |-> s11, words |-> words]
  OBVIOUS
<1>2. /\ s12' = Append(s12, window) /\ s9' = Windows!None /\ s10' = Windows!None /\ s11' = <<>> /\ s8' = 1
      /\ UNCHANGED <<s1, s2, s3, s4, s5, s13>>
      /\ s7 < Len(s4) => s7' = s7 + 1 /\ s6' = "clip"
      /\ ~(s7 < Len(s4)) => s7' = s7 /\ s6' = "identity"
  BY <1>1 DEF Windows!WindowDone, Windows!world, Windows!Goto
<1>3. /\ s4 \in Seq(Nat) /\ s5 \in Nat /\ s7 \in 1 .. Len(s4) /\ s12 \in Seq(Windows!Window)
      /\ s11 \in Seq({"ok", "abort"})
      /\ s4[s7] \in Nat /\ Windows!ClipStart \in Nat
      /\ Windows!ThisClip = [mark |-> s4[s7], start |-> Windows!ClipStart]
  BY WindowsTypes
<1>4. window \in Windows!Window BY <1>1, <1>3 DEF Windows!Window
<1>5. PICK n \in Nat : n = Len(s4) BY <1>3
<1>6. PICK k \in Nat : k = Len(s12) BY <1>3
<1>7. /\ k = s7 - 1 /\ s7 \in 1 .. n /\ \A i \in 1 .. n : s4[i] <= s5
  BY <1>3, <1>5, <1>6 DEF Windows!IInv, Windows!WindowsBefore
<1>8. /\ s12' \in Seq(Windows!Window) /\ Len(s12') = s7
      /\ \A i \in 1 .. k : s12'[i] = s12[i]
      /\ s12'[s7] = window
  <2>1. /\ Append(s12, window) \in Seq(Windows!Window) /\ Len(Append(s12, window)) = k + 1
        /\ \A i \in 1 .. k : Append(s12, window)[i] = s12[i]
        /\ Append(s12, window)[k + 1] = window
    BY <1>3, <1>4, <1>6
  <2>2. k + 1 = s7 BY <1>7
  <2> QED BY <2>1, <2>2, <1>2
<1>9. /\ s7' \in 1 .. n /\ s6' \in {"clip", "identity"} /\ (s7' = s7 + 1 \/ s7' = s7)
      /\ s6' = "clip" => s7' = s7 + 1
      /\ s6' = "identity" => s7 = n
  BY <1>2, <1>5, <1>7
<1>10. 1 \in 1 .. Len(Shifts)
  <2>1. PICK m \in Nat : m = Len(Shifts) BY DEF Windows!WindowAssumption
  <2>2. s8 \in 1 .. m BY <2>1, WindowsTypes
  <2> QED BY <2>1, <2>2
<1>11. <<>> \in Seq({"ok", "abort"}) /\ Len(<<>>) = 0 /\ 0 <= Len(Shifts)
  <2>1. PICK m \in Nat : m = Len(Shifts) BY DEF Windows!WindowAssumption
  <2> QED BY <2>1
<1>12. Windows!TypeOK'
  <2>1. Windows!TypeOK BY DEF Windows!IInv
  <2> QED BY <2>1, <1>2, <1>5, <1>8, <1>9, <1>10, <1>11 DEF Windows!TypeOK
<1>13. Windows!FilesOfThisClip' BY <1>9 DEF Windows!FilesOfThisClip
<1>14. Windows!CodesOfShifts' BY <1>2, <1>9, <1>11 DEF Windows!CodesOfShifts
<1>15. Windows!WindowsBefore'
  <2>1. \A i \in 1 .. Len(s4') : s4'[i] <= s5' BY <1>2, <1>5, <1>7
  <2>4. PICK j \in 1 .. n : j = s7 BY <1>7
  <2>5. s7 <= n BY <2>4
  <2>6. s6' = "clip" => s7 = s7' - 1
    <3>1. j + 1 - 1 = j BY <2>4
    <3>2. s6' = "clip" => s7' = j + 1 BY <2>4, <1>9
    <3> QED BY <3>1, <3>2, <2>4
  <2>2. s7 <= n /\ (s6' = "clip" => s7 = s7' - 1) /\ (s6' = "identity" => s7 = n) BY <2>5, <2>6, <1>9
  <2>3. Len(s12') = s7 /\ Len(s4') = n BY <1>2, <1>5, <1>8
  <2> QED BY <2>1, <2>2, <2>3, <1>9 DEF Windows!WindowsBefore
<1>16. \A i \in 1 .. s7 : i \in 1 .. k \/ i = s7 BY <1>7
<1>17. Windows!WordsOfTheirClip'
  <2> SUFFICES ASSUME NEW i \in 1 .. s7, s12'[i].ok
               PROVE  s12'[i].words = [mark |-> s12'[i].mark, start |-> s12'[i].clip_start]
    BY <1>8 DEF Windows!WordsOfTheirClip
  <2>1. CASE i \in 1 .. k BY <2>1, <1>6, <1>8 DEF Windows!IInv, Windows!WordsOfTheirClip
  <2>2. CASE i = s7 BY <2>2, <1>1, <1>3, <1>8
  <2> QED BY <2>1, <2>2, <1>16
<1>18. Windows!OneWindowPerMark'
  <2>1. ASSUME NEW i \in 1 .. s7 PROVE s12'[i].mark = s4'[i] /\ s4'[i] <= s5'
    <3>1. CASE i \in 1 .. k BY <3>1, <1>2, <1>6, <1>8 DEF Windows!IInv, Windows!OneWindowPerMark
    <3>2. CASE i = s7 BY <3>2, <1>1, <1>2, <1>7, <1>8
    <3> QED BY <3>1, <3>2, <1>16
  <2>2. s13' # "answered" BY <1>2
  <2> QED BY <2>1, <2>2, <1>8 DEF Windows!OneWindowPerMark
<1> QED BY <1>12, <1>13, <1>14, <1>15, <1>17, <1>18 DEF Windows!IInv

LEMMA WindowsWhisper ==
  ASSUME Windows!WindowAssumption, Windows!IInv, s13 = "running",
         NEW code \in {"ok", "abort"}, NEW form \in {"none", "words", "garbage"},
         Windows!WhisperEnds(code, form)
  PROVE  Windows!IInv'
<1>1. /\ s6 = "whisper" /\ s6' = "verdict" /\ s11' = Append(s11, code)
      /\ s10' = IF form = "none" THEN s10 ELSE [clip |-> s9, form |-> form]
      /\ UNCHANGED <<s1, s2, s3, s4, s5, s7, s8, s9, s12, s13>>
  BY DEF Windows!WhisperEnds, Windows!world, Windows!Goto
<1>2. /\ s8 \in 1 .. Len(Shifts) /\ s11 \in Seq({"ok", "abort"})
      /\ Windows!ThisClip \in Windows!Clip
  BY WindowsTypes
<1>3. s9 = Windows!ThisClip /\ s10 = Windows!None BY <1>1 DEF Windows!IInv, Windows!FilesOfThisClip
<1>4. \/ s10' = Windows!None
      \/ s10' \in [clip : Windows!Clip, form : {"words", "garbage"}] /\ s10'.clip = Windows!ThisClip
  <2>1. CASE form = "none" BY <2>1, <1>1, <1>3
  <2>2. CASE form # "none" BY <2>2, <1>1, <1>2, <1>3
  <2> QED BY <2>1, <2>2
<1>5. s11' \in Seq({"ok", "abort"}) /\ Len(s11') = s8 /\ Len(s11') <= Len(Shifts)
  <2>1. PICK n \in Nat : n = Len(s11) BY <1>2
  <2>2. PICK m \in Nat : m = Len(Shifts) BY DEF Windows!WindowAssumption
  <2>3. n = s8 - 1 BY <1>1, <2>1 DEF Windows!IInv, Windows!CodesOfShifts
  <2>4. Append(s11, code) \in Seq({"ok", "abort"}) /\ Len(Append(s11, code)) = n + 1 BY <1>2, <2>1
  <2>5. s8 \in 1 .. m BY <1>2, <2>2
  <2>6. n + 1 = s8 /\ s8 <= m BY <2>3, <2>5
  <2> QED BY <1>1, <2>2, <2>4, <2>6
<1>6. Windows!TypeOK'
  <2>1. Windows!TypeOK BY DEF Windows!IInv
  <2> QED BY <2>1, <1>1, <1>4, <1>5 DEF Windows!TypeOK
<1>7. Windows!ThisClip' = Windows!ThisClip BY <1>1 DEF Windows!ThisClip, Windows!ClipStart
<1>8. Windows!FilesOfThisClip' BY <1>1, <1>3, <1>4, <1>7 DEF Windows!FilesOfThisClip
<1>9. Windows!CodesOfShifts' BY <1>1, <1>5 DEF Windows!CodesOfShifts
<1>10. Windows!WindowsBefore' BY <1>1 DEF Windows!IInv, Windows!WindowsBefore
<1>11. Windows!WordsOfTheirClip' BY <1>1 DEF Windows!IInv, Windows!WordsOfTheirClip
<1>12. Windows!OneWindowPerMark' BY <1>1 DEF Windows!IInv, Windows!OneWindowPerMark
<1> QED BY <1>6, <1>8, <1>9, <1>10, <1>11, <1>12 DEF Windows!IInv

(* The next shift of this mark. *)
LEMMA WindowsShift ==
  ASSUME Windows!WindowAssumption, Windows!IInv, s6 = "verdict", s13 = "running",
         s8 < Len(Shifts), s8' = s8 + 1, s6' = "clip",
         UNCHANGED <<s1, s2, s3, s4, s5, s7, s9, s10, s11, s12, s13>>
  PROVE  Windows!IInv'
<1>1. PICK m \in Nat : m = Len(Shifts) BY DEF Windows!WindowAssumption
<1>2. s8 \in 1 .. m /\ s8 < m BY <1>1, WindowsTypes
<1>3. s8' \in 1 .. Len(Shifts) /\ s8' - 1 = s8 BY <1>1, <1>2
<1>4. Windows!TypeOK' BY <1>3 DEF Windows!IInv, Windows!TypeOK
<1>5. Windows!FilesOfThisClip' BY DEF Windows!FilesOfThisClip
<1>6. Windows!CodesOfShifts' BY <1>3 DEF Windows!IInv, Windows!CodesOfShifts
<1>7. Windows!WindowsBefore' BY DEF Windows!IInv, Windows!WindowsBefore
<1>8. Windows!WordsOfTheirClip' BY DEF Windows!IInv, Windows!WordsOfTheirClip
<1>9. Windows!OneWindowPerMark' BY DEF Windows!IInv, Windows!OneWindowPerMark
<1> QED BY <1>4, <1>5, <1>6, <1>7, <1>8, <1>9 DEF Windows!IInv

(* The last look, with whisper.cpp's version. *)
LEMMA WindowsIdentified ==
  ASSUME Windows!WindowAssumption, Windows!IInv, s6 = "identity", s13 = "running", s6' = "last",
         UNCHANGED <<s1, s2, s3, s4, s5, s7, s8, s9, s10, s11, s12, s13>>
  PROVE  Windows!IInv'
<1>1. Windows!TypeOK' BY DEF Windows!IInv, Windows!TypeOK
<1>2. Windows!FilesOfThisClip' BY DEF Windows!FilesOfThisClip
<1>3. Windows!CodesOfShifts' BY DEF Windows!IInv, Windows!CodesOfShifts
<1>4. Windows!WindowsBefore' BY DEF Windows!IInv, Windows!WindowsBefore
<1>5. Windows!WordsOfTheirClip' BY DEF Windows!IInv, Windows!WordsOfTheirClip
<1>6. Windows!OneWindowPerMark' BY DEF Windows!IInv, Windows!OneWindowPerMark
<1> QED BY <1>1, <1>2, <1>3, <1>4, <1>5, <1>6 DEF Windows!IInv

LEMMA WindowsStep ==
  ASSUME Windows!WindowAssumption, Windows!IInv, Windows!Step
  PROVE  Windows!IInv'
<1> USE DEF Windows!UnlessCancelled, Windows!Goto, Windows!world, Windows!files, Windows!progress
<1>1. Windows!TypeOK /\ Windows!FilesOfThisClip BY DEF Windows!IInv
<1>2. {"answered", "cancelled", "unavailable", "failed", "badmarks"} \subseteq Windows!Outcomes
  BY DEF Windows!Outcomes
<1>3. s6 # "over" => s13 = "running" BY <1>1 DEF Windows!TypeOK
<1>4. CASE Windows!Begin
  <2>1. CASE \E i \in 1 .. Len(s4) : s4[i] > s5
    <3>1. Windows!End("badmarks") BY <1>4, <2>1 DEF Windows!Begin
    <3> QED BY <3>1, <1>2, WindowsEnd
  <2>2. CASE ~(\E i \in 1 .. Len(s4) : s4[i] > s5) /\ s1 # "pinned"
    <3>1. Windows!End("unavailable") BY <1>4, <2>2 DEF Windows!Begin
    <3> QED BY <3>1, <1>2, WindowsEnd
  <2>3. CASE ~(\E i \in 1 .. Len(s4) : s4[i] > s5) /\ s1 = "pinned"
    <3>1. s6 = "check" /\ s6' = "clip" /\ UNCHANGED <<s1, s2, s3, s4, s5, s7, s8, s9, s10, s11, s12, s13>>
      BY <1>4, <2>3 DEF Windows!Begin
    <3>2. \A i \in 1 .. Len(s4) : s4[i] <= s5
      <4> SUFFICES ASSUME NEW i \in 1 .. Len(s4) PROVE s4[i] <= s5 OBVIOUS
      <4>1. s4[i] \in Nat /\ s5 \in Nat
        <5>1. s4 \in Seq(Nat) /\ s5 \in Nat BY WindowsTypes, Zenon
        <5> QED BY <5>1
      <4>2. ~(s4[i] > s5) BY <2>3
      <4> QED BY <4>1, <4>2
    <3> QED BY <3>1, <3>2, <1>1, <1>3, WindowsGoOn DEF Windows!TypeOK
  <2> QED BY <2>1, <2>2, <2>3
<1>5. CASE Windows!StartClip
  <2>1. CASE s3
    <3>1. Windows!End("cancelled") BY <1>5, <2>1 DEF Windows!StartClip
    <3> QED BY <3>1, <1>2, WindowsEnd
  <2>2. CASE ~s3
    <3>1. s6 = "clip" /\ s6' = "decode" /\ UNCHANGED <<s1, s2, s3, s4, s5, s7, s8, s9, s10, s11, s12, s13>>
      BY <1>5, <2>2 DEF Windows!StartClip
    <3> QED BY <3>1, <1>1, <1>3, WindowsGoOn DEF Windows!TypeOK
  <2> QED BY <2>1, <2>2
<1>6. CASE Windows!Decoded
  <2>1. s6 = "decode" /\ s6' = "clipped" /\ s9' = Windows!ThisClip
        /\ UNCHANGED <<s1, s2, s3, s4, s5, s7, s8, s10, s11, s12, s13>>
    BY <1>6 DEF Windows!Decoded
  <2>2. Windows!ThisClip \in Windows!Clip BY WindowsTypes
  <2> QED BY <2>1, <2>2, <1>1, <1>3, WindowsGoOn DEF Windows!TypeOK
<1>7. CASE Windows!StartWhisper
  <2>1. CASE s3
    <3>1. Windows!End("cancelled") BY <1>7, <2>1 DEF Windows!StartWhisper
    <3> QED BY <3>1, <1>2, WindowsEnd
  <2>2. CASE ~s3
    <3>1. s6 = "clipped" /\ s6' = "whisper" /\ s10' = Windows!None
          /\ UNCHANGED <<s1, s2, s3, s4, s5, s7, s8, s9, s11, s12, s13>>
      BY <1>7, <2>2 DEF Windows!StartWhisper
    <3>2. s9 = Windows!ThisClip BY <3>1, <1>1 DEF Windows!FilesOfThisClip
    <3> QED BY <3>1, <3>2, <1>1, <1>3, WindowsGoOn DEF Windows!TypeOK
  <2> QED BY <2>1, <2>2
<1>8. ASSUME NEW code \in {"ok", "abort"}, NEW form \in {"none", "words", "garbage"},
             Windows!WhisperEnds(code, form)
      PROVE  Windows!IInv'
  <2>1. s6 = "whisper" BY <1>8 DEF Windows!WhisperEnds
  <2> QED BY <2>1, <1>3, <1>8, WindowsWhisper
<1>9. CASE Windows!ChildBreaks BY <1>9, <1>2, WindowsEnd DEF Windows!ChildBreaks
<1>10. CASE Windows!ChildCancelled BY <1>10, <1>2, WindowsEnd DEF Windows!ChildCancelled
<1>11. CASE Windows!Judge
  <2>1. s6 = "verdict" BY <1>11 DEF Windows!Judge
  <2>2. CASE Windows!ClipSucceeded /\ s10.form = "garbage"
    <3>1. Windows!End("failed") BY <1>11, <2>2 DEF Windows!Judge
    <3> QED BY <3>1, <1>2, WindowsEnd
  <2>3. CASE Windows!ClipSucceeded /\ s10.form # "garbage"
    <3>1. Windows!WindowDone(TRUE, s10.clip) BY <1>11, <2>3, Zenon DEF Windows!Judge
    <3>2. s10.clip = Windows!ThisClip BY <2>1, <2>3, <1>1 DEF Windows!ClipSucceeded, Windows!FilesOfThisClip
    <3>3. Windows!ThisClip \in Windows!Clip BY WindowsTypes
    <3> QED BY <2>1, <3>1, <3>2, <3>3, <1>3, WindowsDone
  <2>4. CASE ~Windows!ClipSucceeded /\ s1 # "pinned"
    <3>1. Windows!End("unavailable") BY <1>11, <2>4 DEF Windows!Judge
    <3> QED BY <3>1, <1>2, WindowsEnd
  <2>5. CASE ~Windows!ClipSucceeded /\ s1 = "pinned" /\ s8 < Len(Shifts)
    <3>1. s8' = s8 + 1 /\ s6' = "clip" /\ UNCHANGED <<s1, s2, s3, s4, s5, s7, s9, s10, s11, s12, s13>>
      BY <1>11, <2>5 DEF Windows!Judge
    <3> QED BY <2>1, <2>5, <3>1, <1>3, WindowsShift
  <2>6. CASE ~Windows!ClipSucceeded /\ s1 = "pinned" /\ ~(s8 < Len(Shifts))
    <3>1. Windows!WindowDone(FALSE, Windows!None) BY <1>11, <2>6 DEF Windows!Judge
    <3> QED BY <2>1, <3>1, <1>3, WindowsDone
  <2> QED BY <2>2, <2>3, <2>4, <2>5, <2>6
<1>13. CASE Windows!Identify
  <2>1. s6 = "identity" /\ s6' = "last" /\ UNCHANGED <<s1, s2, s3, s4, s5, s7, s8, s9, s10, s11, s12, s13>>
    BY <1>13 DEF Windows!Identify
  <2> QED BY <2>1, <1>3, WindowsIdentified
<1>12. CASE Windows!Answer
  <2>1. s6 = "last" /\ (Windows!End("cancelled") \/ Windows!End("answered"))
    BY <1>12 DEF Windows!Answer
  <2> QED BY <2>1, <1>2, WindowsEnd
<1> QED BY <1>4, <1>5, <1>6, <1>7, <1>8, <1>9, <1>10, <1>11, <1>12, <1>13 DEF Windows!Step

(* Nobody works on the call: it is cancelled, or the model is replaced. *)
LEMMA WindowsStay ==
  ASSUME Windows!IInv, UNCHANGED <<s4, s5, s6, s7, s8, s9, s10, s11, s12, s13>>,
         s1' \in {"pinned", "other", "gone"}, s2' \in 0 .. Swaps, s3' \in BOOLEAN
  PROVE  Windows!IInv'
<1>1. Windows!TypeOK' BY DEF Windows!IInv, Windows!TypeOK
<1>2. Windows!ThisClip' = Windows!ThisClip BY DEF Windows!ThisClip, Windows!ClipStart
<1>3. Windows!FilesOfThisClip' BY <1>2 DEF Windows!IInv, Windows!FilesOfThisClip
<1>4. Windows!CodesOfShifts' BY DEF Windows!IInv, Windows!CodesOfShifts
<1>5. Windows!WindowsBefore' BY DEF Windows!IInv, Windows!WindowsBefore
<1>6. Windows!WordsOfTheirClip' BY DEF Windows!IInv, Windows!WordsOfTheirClip
<1>7. Windows!OneWindowPerMark' BY DEF Windows!IInv, Windows!OneWindowPerMark
<1> QED BY <1>1, <1>3, <1>4, <1>5, <1>6, <1>7 DEF Windows!IInv

LEMMA WindowsNext ==
  ASSUME Windows!WindowAssumption, Windows!IInv, [Windows!Next]_(Windows!vars)
  PROVE  Windows!IInv'
<1>1. Windows!TypeOK /\ Swaps \in Nat BY DEF Windows!IInv, Windows!WindowAssumption
<1>2. CASE UNCHANGED Windows!vars
  BY <1>1, <1>2, WindowsStay DEF Windows!vars, Windows!TypeOK
<1>3. CASE Windows!Step BY <1>3, WindowsStep
<1>4. CASE Windows!Cancel
  BY <1>1, <1>4, WindowsStay DEF Windows!Cancel, Windows!files, Windows!progress, Windows!TypeOK
<1>5. ASSUME NEW file \in {"pinned", "other", "gone"}, Windows!SwapModel(file) PROVE Windows!IInv'
  <2>1. s2 \in 0 .. Swaps /\ s2 < Swaps /\ s2' = s2 + 1 /\ s1' = file
        /\ UNCHANGED <<s3, s4, s5, s6, s7, s8, s9, s10, s11, s12, s13>>
    BY <1>1, <1>5 DEF Windows!SwapModel, Windows!files, Windows!progress, Windows!TypeOK
  <2>2. s2' \in 0 .. Swaps BY <1>1, <2>1
  <2>3. s3' \in BOOLEAN BY <1>1, <2>1 DEF Windows!TypeOK
  <2> QED BY <2>1, <2>2, <2>3, WindowsStay
<1> QED BY <1>2, <1>3, <1>4, <1>5 DEF Windows!Next

WindowsInv == running = "windows" => Windows!IInv

LEMMA WindowsInductive ==
  /\ MediaInit => WindowsInv
  /\ WindowsInv /\ [MediaNext]_all => WindowsInv'
<1>1. Windows!WindowAssumption BY MediaAssumption
<1>2. MediaInit => WindowsInv BY <1>1, WindowsStart, WindowsInit DEF WindowsInv
<1>3. ASSUME WindowsInv, [MediaNext]_all PROVE WindowsInv'
  <2> SUFFICES ASSUME running' = "windows" PROVE Windows!IInv' BY DEF WindowsInv
  <2> QED BY <1>1, <1>3, WindowsRuns, WindowsNext DEF WindowsInv
<1> QED BY <1>2, <1>3

(* The list of windows grows only with a verdict, and an answer is given only after a look *)
(* at the event.                                                                             *)
LEMMA WindowsStepsHonest ==
  ASSUME Windows!WindowAssumption, Windows!IInv, [Windows!Next]_(Windows!vars)
  PROVE  Windows!GapsAreFailedClips /\ Windows!CancelledNotAnswered
<1>1. s12 \in Seq(Windows!Window) /\ s8 \in 1 .. Len(Shifts) /\ Len(Shifts) \in Nat
  <2>1. Shifts \in Seq(Int) BY DEF Windows!WindowAssumption
  <2>2. Len(Shifts) \in Nat BY <2>1
  <2> QED BY <2>2, WindowsTypes
<1>2. ASSUME s12' = s12, s13' # "answered" \/ s13' = s13
      PROVE  Windows!GapsAreFailedClips /\ Windows!CancelledNotAnswered
  BY <1>2 DEF Windows!GapsAreFailedClips, Windows!CancelledNotAnswered
<1>3. ASSUME NEW how, Windows!End(how), how # "answered"
      PROVE  Windows!GapsAreFailedClips /\ Windows!CancelledNotAnswered
  BY <1>2, <1>3 DEF Windows!End, Windows!progress
<1>4. ASSUME NEW ok \in BOOLEAN, NEW words, Windows!WindowDone(ok, words),
             ok \/ (s1 = "pinned" /\ Len(s11) = Len(Shifts))
      PROVE  Windows!GapsAreFailedClips /\ Windows!CancelledNotAnswered
  <2>1. PICK window : window = [mark |-> s4[s7], ok |-> ok, clip_start |-> Windows!ClipStart,
                                codes |-> s11, words |-> words]
    OBVIOUS
  <2>2. s12' = Append(s12, window) BY <1>4, <2>1, Zenon DEF Windows!WindowDone
  <2>3. s13' = s13 BY <1>4 DEF Windows!WindowDone, Windows!Goto
  <2>4. s12'[Len(s12')] = window
    <3>1. PICK seq \in Seq(Windows!Window) : seq = s12 BY <1>1
    <3>2. PICK n \in Nat : n = Len(seq) BY <3>1
    <3>3. Len(Append(seq, window)) = n + 1 /\ Append(seq, window)[n + 1] = window BY <3>1, <3>2
    <3> QED BY <2>2, <3>1, <3>3
  <2>5. window.ok = ok /\ window.codes = s11 BY <2>1
  <2>6. Windows!GapsAreFailedClips BY <1>4, <2>4, <2>5 DEF Windows!GapsAreFailedClips
  <2>7. Windows!CancelledNotAnswered BY <2>3 DEF Windows!CancelledNotAnswered
  <2> QED BY <2>6, <2>7
<1>5. CASE UNCHANGED Windows!vars
  BY <1>2, <1>5 DEF Windows!vars, Windows!progress
<1>6. CASE Windows!Cancel \/ \E file \in {"pinned", "other", "gone"} : Windows!SwapModel(file)
  BY <1>2, <1>6 DEF Windows!Cancel, Windows!SwapModel, Windows!progress
<1>7. CASE Windows!Step
  <2> USE DEF Windows!UnlessCancelled, Windows!Goto, Windows!progress
  <2>1. CASE Windows!Begin BY <1>2, <1>3, <2>1 DEF Windows!Begin
  <2>2. CASE Windows!StartClip BY <1>2, <1>3, <2>2 DEF Windows!StartClip
  <2>3. CASE Windows!Decoded BY <1>2, <2>3 DEF Windows!Decoded
  <2>4. CASE Windows!StartWhisper BY <1>2, <1>3, <2>4 DEF Windows!StartWhisper
  <2>5. ASSUME NEW code \in {"ok", "abort"}, NEW form \in {"none", "words", "garbage"},
               Windows!WhisperEnds(code, form)
        PROVE  Windows!GapsAreFailedClips /\ Windows!CancelledNotAnswered
    BY <1>2, <2>5 DEF Windows!WhisperEnds
  <2>6. CASE Windows!ChildBreaks \/ Windows!ChildCancelled
    BY <1>3, <2>6 DEF Windows!ChildBreaks, Windows!ChildCancelled
  <2>7. CASE Windows!Judge
    <3>1. CASE Windows!ClipSucceeded /\ s10.form = "garbage" BY <1>3, <2>7, <3>1 DEF Windows!Judge
    <3>2. CASE Windows!ClipSucceeded /\ s10.form # "garbage"
      <4>1. Windows!WindowDone(TRUE, s10.clip) BY <2>7, <3>2, Zenon DEF Windows!Judge
      <4> QED BY <1>4, <4>1
    <3>3. CASE ~Windows!ClipSucceeded /\ s1 # "pinned" BY <1>3, <2>7, <3>3 DEF Windows!Judge
    <3>4. CASE ~Windows!ClipSucceeded /\ s1 = "pinned" /\ s8 < Len(Shifts)
      BY <1>2, <2>7, <3>4 DEF Windows!Judge
    <3>5. CASE ~Windows!ClipSucceeded /\ s1 = "pinned" /\ ~(s8 < Len(Shifts))
      <4>1. Windows!WindowDone(FALSE, Windows!None) BY <2>7, <3>5 DEF Windows!Judge
      <4>2. s6 = "verdict" BY <2>7 DEF Windows!Judge
      <4>3. Len(s11) = s8 BY <4>2 DEF Windows!IInv, Windows!CodesOfShifts
      <4>4. s8 = Len(Shifts) BY <1>1, <3>5
      <4> QED BY <1>4, <3>5, <4>1, <4>3, <4>4
    <3> QED BY <3>1, <3>2, <3>3, <3>4, <3>5
  <2>9. CASE Windows!Identify BY <1>2, <2>9 DEF Windows!Identify
  <2>8. CASE Windows!Answer
    <3>1. CASE s3 BY <1>3, <2>8, <3>1 DEF Windows!Answer
    <3>2. CASE ~s3
      <4>1. s12' = s12 BY <2>8, <3>2 DEF Windows!Answer, Windows!End
      <4> QED BY <3>2, <4>1 DEF Windows!GapsAreFailedClips, Windows!CancelledNotAnswered
    <3> QED BY <3>1, <3>2
  <2> QED BY <1>7, <2>1, <2>2, <2>3, <2>4, <2>5, <2>6, <2>7, <2>8, <2>9 DEF Windows!Step
<1> QED BY <1>5, <1>6, <1>7 DEF Windows!Next

-----------------------------------------------------------------------------
(* The profile run *)

LEMMA ProfileRuns ==
  ASSUME [MediaNext]_all, running' = "profile"
  PROVE  running = "profile" /\ [Profile!Next]_(Profile!vars)
  BY DEF MediaNext, Step, all, slots, Profile!vars, Profile!chapter, Profile!request, Profile!drift

LEMMA ProfileStart == ASSUME MediaInit, running = "profile" PROVE Profile!Init
  BY DEF MediaInit, Launch

(* The windows of the profile run are those that are also checked alone. *)
LEMMA ChapterInvariants ==
  /\ Profile!Chapter!TypeOK <=> Windows!TypeOK
  /\ Profile!Chapter!Init <=> Windows!Init
  BY DEF Profile!Chapter!None, Windows!None, Profile!Chapter!Clip, Windows!Clip,
     Profile!Chapter!Window, Windows!Window, Profile!Chapter!Outcomes, Windows!Outcomes,
     Profile!Chapter!TypeOK, Windows!TypeOK, Profile!Chapter!Init, Windows!Init

LEMMA ChapterTypes == ASSUME Windows!TypeOK' PROVE Profile!Chapter!TypeOK'
  BY DEF Profile!Chapter!None, Windows!None, Profile!Chapter!Clip, Windows!Clip,
     Profile!Chapter!Window, Windows!Window, Profile!Chapter!Outcomes, Windows!Outcomes,
     Profile!Chapter!TypeOK, Windows!TypeOK

LEMMA ChapterSteps == Profile!Chapter!Step <=> Windows!Step
  BY DEF Profile!Chapter!None, Windows!None, Profile!Chapter!Clip, Windows!Clip,
     Profile!Chapter!Goto, Windows!Goto, Profile!Chapter!End, Windows!End,
     Profile!Chapter!UnlessCancelled, Windows!UnlessCancelled, Profile!Chapter!Begin,
     Windows!Begin, Profile!Chapter!StartClip, Windows!StartClip, Profile!Chapter!Decoded,
     Windows!Decoded, Profile!Chapter!StartWhisper, Windows!StartWhisper,
     Profile!Chapter!WhisperEnds, Windows!WhisperEnds, Profile!Chapter!ChildBreaks,
     Windows!ChildBreaks, Profile!Chapter!ChildCancelled, Windows!ChildCancelled,
     Profile!Chapter!Judge, Windows!Judge, Profile!Chapter!Identify, Windows!Identify, Profile!Chapter!Answer, Windows!Answer,
     Profile!Chapter!WindowDone, Windows!WindowDone, Profile!Chapter!ClipSucceeded,
     Windows!ClipSucceeded, Profile!Chapter!ThisClip, Windows!ThisClip,
     Profile!Chapter!ClipStart, Windows!ClipStart,
     Profile!Chapter!world, Windows!world, Profile!Chapter!files, Windows!files,
     Profile!Chapter!progress, Windows!progress, Profile!Chapter!Step, Windows!Step

LEMMA ChapterEvents ==
  /\ Profile!Chapter!Cancel <=> Windows!Cancel
  /\ \A file : (Profile!Chapter!SwapModel(file) <=> Windows!SwapModel(file))
  BY DEF Profile!Chapter!Cancel, Windows!Cancel, Profile!Chapter!SwapModel, Windows!SwapModel,
     Profile!Chapter!files, Windows!files, Profile!Chapter!progress, Windows!progress

(* Where a step of the windows leads, and that it looks at the event between two children. *)
LEMMA WindowsMoves ==
  ASSUME Windows!WindowAssumption, Windows!IInv, Windows!Step
  PROVE  /\ UNCHANGED <<s1, s2, s3, s4, s5>> /\ s13 = "running"
         /\ s6 = "check" => s6' \in {"clip", "over"}
         /\ s6 = "clip" => s6' = IF s3 THEN "over" ELSE "decode"
         /\ s6 = "decode" => s6' \in {"clipped", "over"}
         /\ s6 = "clipped" => s6' = IF s3 THEN "over" ELSE "whisper"
         /\ s6 = "whisper" => s6' \in {"verdict", "over"}
         /\ s6 = "verdict" => s6' \in {"clip", "identity", "over"}
         /\ s6 = "identity" => s6' = "last"
         /\ s6 = "last" => s6' = "over"
         /\ s6' \in {"check", "clip", "decode", "clipped", "whisper", "verdict", "identity", "last", "over"}
         /\ s13' \in {"running", "answered", "cancelled", "unavailable", "failed", "badmarks"}
         /\ s6' = "over" <=> s13' # "running"
         /\ s13' = "answered" => s6 = "last" /\ ~s3
<1> USE DEF Windows!UnlessCancelled, Windows!Goto, Windows!End, Windows!world, Windows!files, Windows!progress
<1>1. s3 \in BOOLEAN /\ (s13 # "running" <=> s6 = "over") BY DEF Windows!IInv, Windows!TypeOK
<1>2. CASE Windows!Begin BY <1>1, <1>2 DEF Windows!Begin
<1>3. CASE Windows!StartClip BY <1>1, <1>3 DEF Windows!StartClip
<1>4. CASE Windows!Decoded BY <1>1, <1>4 DEF Windows!Decoded
<1>5. CASE Windows!StartWhisper BY <1>1, <1>5 DEF Windows!StartWhisper
<1>6. CASE \E code \in {"ok", "abort"}, form \in {"none", "words", "garbage"} : Windows!WhisperEnds(code, form)
  BY <1>1, <1>6 DEF Windows!WhisperEnds
<1>7. CASE Windows!ChildBreaks BY <1>1, <1>7 DEF Windows!ChildBreaks
<1>8. CASE Windows!ChildCancelled BY <1>1, <1>8 DEF Windows!ChildCancelled
<1>9. CASE Windows!Judge
  <2>1. s6 = "verdict" BY <1>9 DEF Windows!Judge
  <2>2. ASSUME NEW ok, NEW words, Windows!WindowDone(ok, words)
        PROVE  UNCHANGED <<s1, s2, s3, s4, s5, s13>> /\ s6' \in {"clip", "identity"}
    BY <2>2 DEF Windows!WindowDone
  <2>3. \/ UNCHANGED <<s1, s2, s3, s4, s5, s13>> /\ s6' \in {"clip", "identity"}
        \/ UNCHANGED <<s1, s2, s3, s4, s5>> /\ s6' = "over" /\ s13' \in {"unavailable", "failed"}
    <3>1. CASE Windows!ClipSucceeded /\ s10.form # "garbage"
      <4>1. Windows!WindowDone(TRUE, s10.clip) BY <1>9, <3>1, Zenon DEF Windows!Judge
      <4> QED BY <4>1, <2>2, Zenon
    <3>2. CASE Windows!ClipSucceeded /\ s10.form = "garbage" BY <1>9, <3>2 DEF Windows!Judge
    <3>3. CASE ~Windows!ClipSucceeded /\ s1 # "pinned"
      <4>1. UNCHANGED <<s1, s2, s3, s4, s5>> /\ s6' = "over" /\ s13' = "unavailable"
        BY <1>9, <3>3, Zenon DEF Windows!Judge
      <4> QED BY <4>1
    <3>5. CASE ~Windows!ClipSucceeded /\ s1 = "pinned" /\ s8 < Len(Shifts)
      <4>1. UNCHANGED <<s1, s2, s3, s4, s5, s13>> /\ s6' = "clip"
        BY <1>9, <3>5, Zenon DEF Windows!Judge
      <4> QED BY <4>1
    <3>4. CASE ~Windows!ClipSucceeded /\ s1 = "pinned" /\ ~(s8 < Len(Shifts))
      <4>1. Windows!WindowDone(FALSE, Windows!None) BY <1>9, <3>4 DEF Windows!Judge
      <4> QED BY <4>1, <2>2, Zenon
    <3> QED BY <3>1, <3>2, <3>3, <3>4, <3>5
  <2> QED BY <1>1, <2>1, <2>3
<1>10. CASE Windows!Identify BY <1>1, <1>10 DEF Windows!Identify
<1>11. CASE Windows!Answer BY <1>1, <1>11 DEF Windows!Answer
<1> QED BY <1>2, <1>3, <1>4, <1>5, <1>6, <1>7, <1>8, <1>9, <1>10, <1>11 DEF Windows!Step

(* Where a step of the windows leads the run. *)
LEMMA ProfileMoves ==
  ASSUME Profile!ChapterStep, s20 = "running"
  PROVE  /\ s13' = "running" => s16' = "windows" /\ s20' = "running"
         /\ s13' = "answered" => s16' = "identity" /\ s20' = "running"
         /\ s13' \notin {"running", "answered"} =>
              s16' = "over" /\ s20' = s13' /\ s20' \notin {"running", "answered"}
<1>1. s20' = IF s13' \in {"running", "answered"} THEN s20 ELSE s13' BY DEF Profile!ChapterStep
<1>2. s16' = CASE s13' = "running" -> "windows"
               [] s13' = "answered" -> "identity"
               [] OTHER -> "over"
  BY DEF Profile!ChapterStep
<1>3. CASE s13' = "running" BY <1>1, <1>2, <1>3
<1>4. CASE s13' = "answered" BY <1>1, <1>2, <1>4
<1>5. CASE s13' \notin {"running", "answered"} BY <1>1, <1>2, <1>5
<1> QED BY <1>3, <1>4, <1>5

LEMMA ProfileInit ==
  ASSUME Profile!GridAssumption, Windows!IInv, Profile!Init
  PROVE  Profile!IInv
<1>1. <<>> \in Seq([flagged : BOOLEAN, agrees : BOOLEAN, sure : BOOLEAN, accepted : BOOLEAN])
      /\ <<>> \in Seq({"parakeet", "retry"}) /\ Len(<<>>) = 0
  OBVIOUS
<1>2. /\ s6 = "check" /\ s13 = "running" /\ s14 \in BOOLEAN /\ s15 \in BOOLEAN
      /\ s16 = "start" /\ s17 = <<>> /\ s18 = <<>> /\ s19 = <<>> /\ s20 = "running"
      /\ s21 = [work |-> 0, versions |-> 0]
  BY ChapterInvariants DEF Profile!Init, Windows!Init
<1>3. Profile!TypeOK
  BY <1>1, <1>2, ChapterInvariants
  DEF Profile!TypeOK, Profile!ChildPhases, Profile!Closing, Windows!IInv
<1>4. Profile!WorkedLast /\ Profile!IdentifiedLast /\ Profile!CancelledSoon
  BY <1>2 DEF Profile!WorkedLast, Profile!IdentifiedLast, Profile!CancelledSoon
<1> QED BY <1>1, <1>2, <1>3, <1>4 DEF Profile!IInv, Profile!ChapterOfPhase, Profile!RecordsOfGrid,
     Profile!AnswerIsComplete, Profile!MarksBeforeParakeet, Profile!OnlyDriftIsRepaired,
     Profile!Closing

(* What has run since the cancellation; the other parts of the invariant do without it. *)
Lateness ==
  /\ s21 \in [work : Nat, versions : Nat]
  /\ Profile!WorkedLast /\ Profile!IdentifiedLast /\ Profile!CancelledSoon

LEMMA ProfileWorked ==
  ASSUME s21 \in [work : Nat, versions : Nat], Profile!Worked
  PROVE  /\ s21' \in [work : Nat, versions : Nat] /\ s21'.versions = s21.versions
         /\ s3 => s21'.work = s21.work + 1
         /\ ~s3 => s21'.work = s21.work
<1>1. CASE s3
  <2>1. s21' = [s21 EXCEPT !.work = s21.work + 1] BY <1>1 DEF Profile!Worked
  <2> QED BY <1>1, <2>1
<1>2. CASE ~s3 BY <1>2 DEF Profile!Worked
<1> QED BY <1>1, <1>2

LEMMA ProfileIdentified ==
  ASSUME s21 \in [work : Nat, versions : Nat], Profile!Identified
  PROVE  /\ s21' \in [work : Nat, versions : Nat] /\ s21'.work = s21.work
         /\ s21'.versions = s21.versions \/ (s3 /\ s21'.versions = s21.versions + 1)
<1>1. CASE s3 /\ s21' = [s21 EXCEPT !.versions = s21.versions + 1] BY <1>1
<1>2. CASE s21' = s21 BY <1>2
<1> QED BY <1>1, <1>2 DEF Profile!Identified

(* The bounds on what runs late, and how far the run is then. *)
LEMMA ProfileLate ==
  ASSUME Windows!WindowAssumption, Profile!IInv, Windows!IInv, Profile!Step
  PROVE  Lateness'
<1>1. /\ s21 \in [work : Nat, versions : Nat] /\ s3 \in BOOLEAN /\ s14 \in BOOLEAN /\ s15 \in BOOLEAN
      /\ s20 # "running" <=> s16 = "over"
  BY DEF Profile!IInv, Profile!TypeOK, Windows!IInv, Windows!TypeOK
<1>2. Profile!WorkedLast /\ Profile!IdentifiedLast /\ Profile!CancelledSoon
  BY DEF Profile!IInv
<1> DEFINE Same == UNCHANGED <<s3, s6, s14, s15>>
<1> USE DEF Profile!WorkedLast, Profile!IdentifiedLast, Profile!CancelledSoon, Profile!Closing
<1>4. ASSUME NEW how \in {"cancelled", "unavailable", "failed", "badmarks"}, Profile!End(how),
             s16 \notin {"cli", "engine", "over"}
      PROVE  Lateness'
  <2>1. Same /\ s16' = "over" /\ s20' = how /\ s21' = s21
    BY <1>4 DEF Profile!End, Profile!Still, Profile!chapter, Profile!request
  <2> QED BY <1>1, <1>2, <1>4, <2>1 DEF Lateness
<1>5. ASSUME Same, s20' = "running", s21' = s21,
             \/ ~s3
             \/ s16 = "drift" /\ s16' \in {"drift", "windows"} /\ s6 = "check"
             \/ s16 = "drift" /\ s16' = "identity" /\ ~s15 /\ ~s14
      PROVE  Lateness'
  BY <1>1, <1>2, <1>5 DEF Lateness
<1>6. ASSUME Same, s20' = "running", Profile!Worked,
             s16 \in Profile!ChildPhases, s16' \in {"parakeet", "drift", "clipped", "identify"},
             s16' = "parakeet" => ~s3
      PROVE  Lateness'
  <2>1. s21.work = 0 /\ s21.versions = 0
    <3>1. s21.work \in Nat /\ s21.versions \in Nat BY <1>1
    <3>2. s21.work <= 1 /\ s21.work # 1 /\ ~(s21.versions > 0)
      BY <1>2, <1>6 DEF Profile!ChildPhases
    <3> QED BY <3>1, <3>2
  <2>2. s21' \in [work : Nat, versions : Nat] /\ s21'.versions = 0 /\ s21'.work = IF s3 THEN 1 ELSE 0
    BY <1>1, <1>6, <2>1, ProfileWorked
  <2> QED BY <1>1, <1>6, <2>2 DEF Lateness
<1> USE DEF Profile!Still, Profile!Goto, Profile!chapter, Profile!request
<1>7. CASE Profile!Resolve
  <2>1. CASE s3 \/ s1 # "pinned" BY <1>4, <1>7, <2>1 DEF Profile!Resolve
  <2>2. CASE ~(s3 \/ s1 # "pinned") BY <1>1, <1>5, <1>7, <2>2 DEF Profile!Resolve
  <2> QED BY <2>1, <2>2
<1>8. CASE Profile!ToolMissing BY <1>4, <1>8 DEF Profile!ToolMissing
<1>9. CASE Profile!Probed
  <2>1. CASE (\E i \in 1 .. Len(s4) : s4[i] > s5) \/ s3 BY <1>4, <1>9, <2>1 DEF Profile!Probed
  <2>2. CASE ~((\E i \in 1 .. Len(s4) : s4[i] > s5) \/ s3)
    <3>1. s16 = "probe" /\ s16' = "parakeet" /\ Profile!Worked /\ Same /\ s20' = s20
      BY <1>9, <2>2 DEF Profile!Probed
    <3> QED BY <1>1, <1>6, <2>2, <3>1 DEF Profile!ChildPhases
  <2> QED BY <2>1, <2>2
<1>10. CASE Profile!Transcribed
  <2>1. s16 = "parakeet" /\ s16' = "drift" /\ Profile!Worked /\ Same /\ s20' = s20
    BY <1>10 DEF Profile!Transcribed
  <2> QED BY <1>1, <1>6, <2>1 DEF Profile!ChildPhases
<1>11. CASE Profile!CheckDrift
  <2>1. s16 = "drift" /\ s20 = "running" /\ s6 = "check"
    BY <1>1, <1>11 DEF Profile!CheckDrift, Profile!IInv, Profile!ChapterOfPhase
  <2>2. CASE Profile!End("cancelled") BY <1>4, <2>1, <2>2
  <2>3. CASE /\ Same /\ s20' = s20 /\ s21' = s21
             /\ ~s3 \/ s16' \in {"drift", "windows"} \/ (s16' = "identity" /\ ~s15 /\ ~s14)
    BY <1>5, <2>1, <2>3
  <2> QED BY <1>11, <2>1, <2>2, <2>3, Zenon DEF Profile!CheckDrift, Profile!ToChapters
<1>12. CASE Profile!ResolveRetry \/ Profile!StartRetry
  <2>1. s16 \in {"runtime", "clipped"}
        /\ (\/ Profile!End("cancelled") \/ Profile!End("unavailable")
            \/ ~s3 /\ Same /\ s20' = s20 /\ s21' = s21)
    BY <1>12 DEF Profile!ResolveRetry, Profile!StartRetry
  <2> QED BY <1>1, <1>4, <1>5, <2>1
<1>13. CASE Profile!RetryDecoded \/ Profile!RetryRead
  <2>1. s16 \in {"decode", "whisper"} /\ s16' \in {"clipped", "identify"} /\ Profile!Worked /\ Same /\ s20' = s20
    BY <1>13 DEF Profile!RetryDecoded, Profile!RetryRead
  <2> QED BY <1>1, <1>6, <2>1 DEF Profile!ChildPhases
<1>14. CASE Profile!RetryIdentified
  <2>1. s16 = "identify" /\ s16' = "version" /\ Profile!Identified /\ Same /\ s20' = s20 /\ s20 = "running"
    BY <1>1, <1>14 DEF Profile!RetryIdentified
  <2>2. s21.versions = 0 BY <1>1, <1>2, <2>1
  <2> QED BY <1>1, <1>2, <2>1, <2>2, ProfileIdentified DEF Lateness
<1>15. ASSUME NEW agrees \in BOOLEAN, NEW sure \in BOOLEAN, Profile!RetryJudged(agrees, sure)
       PROVE  Lateness'
  <2>1. CASE s3 BY <1>4, <1>15, <2>1 DEF Profile!RetryJudged
  <2>2. CASE ~s3 BY <1>1, <1>5, <1>15, <2>2 DEF Profile!RetryJudged
  <2> QED BY <2>1, <2>2
<1>16. CASE Profile!ChildBreaks \/ Profile!ChildCancelled
  BY <1>4, <1>16 DEF Profile!ChildBreaks, Profile!ChildCancelled, Profile!ChildPhases
<1>17. CASE Profile!ChapterStep
  <2>1. s16 = "windows" /\ UNCHANGED <<s14, s15>> /\ s20 = "running" /\ s14
    BY <1>1, <1>17 DEF Profile!ChapterStep, Profile!IInv, Profile!ChapterOfPhase
  <2>2. Windows!Step BY <1>17, ChapterSteps DEF Profile!ChapterStep
  <2>3. /\ s3' = s3
        /\ s13' = "answered" => ~s3 /\ s6 = "last"
        /\ s6' = "over" <=> s13' # "running"
    BY <2>2, WindowsMoves
  <2>4. /\ s13' = "running" => s16' = "windows" /\ s20' = "running"
        /\ s13' = "answered" => s16' = "identity" /\ s20' = "running"
        /\ s13' \notin {"running", "answered"} => s16' = "over" /\ s20' \notin {"running", "answered"}
    BY <1>17, <2>1, ProfileMoves
  <2>5. s21.work \in Nat /\ s21.versions \in Nat BY <1>1
  <2>6. CASE s6 \in {"decode", "whisper"} /\ s6' # "over"
    <3>1. Profile!Worked BY <1>17, <2>6 DEF Profile!ChapterStep
    <3>2. s21.work = 0 /\ s21.versions = 0 BY <1>2, <2>1, <2>5, <2>6
    <3>3. s21' \in [work : Nat, versions : Nat] /\ s21'.versions = 0 /\ s21'.work = IF s3 THEN 1 ELSE 0
      BY <1>1, <3>1, <3>2, ProfileWorked
    <3>4. s16' = "windows" /\ s20' = "running" /\ s6' \in {"clipped", "verdict"}
      BY <2>2, <2>3, <2>4, <2>6, WindowsMoves
    <3> QED BY <2>3, <3>3, <3>4 DEF Lateness
  <2>7. CASE s6 = "identity"
    <3>1. Profile!Identified BY <1>17, <2>7 DEF Profile!ChapterStep
    <3>2. s21.versions = 0 BY <1>2, <2>1, <2>5, <2>7
    <3>3. s6' = "last" /\ s16' = "windows" /\ s20' = "running"
      BY <2>2, <2>3, <2>4, <2>7, WindowsMoves
    <3>4. /\ s21' \in [work : Nat, versions : Nat] /\ s21'.work = s21.work
          /\ s21'.versions = 0 \/ (s3 /\ s21'.versions = 1)
      BY <1>1, <3>1, <3>2, ProfileIdentified
    <3> QED BY <1>2, <2>1, <2>3, <2>5, <3>3, <3>4 DEF Lateness
  <2>8. CASE ~(s6 \in {"decode", "whisper"} /\ s6' # "over") /\ s6 # "identity"
    <3>1. s21' = s21 BY <1>17, <2>8 DEF Profile!ChapterStep
    <3>2. s21.versions <= 1 BY <1>2, <2>1, <2>5
    <3>3. s3 /\ s16' # "over" => s6 \in {"check", "verdict"} /\ s6' \in {"check", "clip", "verdict", "identity"}
      <4> SUFFICES ASSUME s3, s16' # "over"
                   PROVE  s6 \in {"check", "verdict"} /\ s6' \in {"check", "clip", "verdict", "identity"}
        OBVIOUS
      <4>1. s13' = "running" /\ s6' # "over"
        <5>1. s13' \in {"running", "answered"} BY <2>4
        <5> QED BY <5>1, <2>3
      <4>2. s6 \in {"check", "clip", "decode", "clipped", "whisper", "verdict", "identity", "last", "over"}
            /\ s13 = "running" /\ (s13 # "running" <=> s6 = "over")
        BY <2>2, WindowsMoves DEF Windows!IInv, Windows!TypeOK
      <4>3. s6 \in {"check", "verdict"} BY <4>1, <4>2, <2>2, <2>8, WindowsMoves
      <4> QED BY <4>1, <4>3, <2>2, WindowsMoves
    <3>4. s16' = "identity" => ~s3 BY <2>3, <2>4
    <3>5. s16' \in {"windows", "identity", "over"} /\ s20' # "answered" /\ (s20' # "running" <=> s16' = "over")
      BY <2>4
    <3> QED BY <1>1, <1>2, <2>1, <2>3, <2>5, <3>1, <3>2, <3>3, <3>4, <3>5 DEF Lateness
  <2> QED BY <2>6, <2>7, <2>8
<1>18. CASE Profile!AskInterpreter \/ Profile!AskParakeet \/ Profile!Answer
  <2>1. /\ Same /\ Profile!Identified /\ s16 \in {"identity", "cli", "engine"} /\ s20 = "running"
        /\ \/ s16' \in {"cli", "engine"} /\ s16 \in {"identity", "cli"} /\ s20' = "running"
              /\ (s16 = "cli" => s16' = "engine")
           \/ s16 = "engine" /\ s16' = "over" /\ s20' = "answered"
    BY <1>1, <1>18 DEF Profile!AskInterpreter, Profile!AskParakeet, Profile!Answer
  <2>2. /\ s21' \in [work : Nat, versions : Nat] /\ s21'.work = s21.work
        /\ s21'.versions = s21.versions \/ (s3 /\ s21'.versions = s21.versions + 1)
    BY <1>1, <2>1, ProfileIdentified
  <2>3. s21.work \in Nat /\ s21.versions \in Nat BY <1>1
  <2>4. s21.work <= 1 /\ (s21.work = 1 => s3 /\ ~s14 /\ ~s15) BY <1>2, <2>1, <2>3
  <2>5. /\ s21.versions > 0 => s3
        /\ s16 = "identity" => s21.versions = 0
        /\ s16 = "cli" => s21.versions <= 1
        /\ s21.versions <= 2
    BY <1>2, <2>1, <2>3
  <2>6. /\ s21'.versions > 0 => s3
        /\ s21'.versions <= 3
        /\ s16' = "cli" => s21'.versions <= 1
        /\ s16' = "engine" => s21'.versions <= 2
    BY <2>1, <2>2, <2>3, <2>5
  <2>7. s21'.work <= 1 /\ (s21'.work = 1 => s3 /\ ~s14 /\ ~s15) BY <2>2, <2>4
  <2> QED BY <1>1, <2>1, <2>2, <2>6, <2>7 DEF Lateness
<1> QED BY <1>7, <1>8, <1>9, <1>10, <1>11, <1>12, <1>13, <1>14, <1>15, <1>16, <1>17, <1>18
     DEF Profile!Step

(* However the run ends, it is an answer only when nothing is missing. *)
LEMMA ProfileOver ==
  ASSUME Profile!GridAssumption, Profile!IInv, Windows!IInv, Windows!IInv', Lateness',
         NEW how \in {"answered", "cancelled", "unavailable", "failed", "badmarks"},
         how = "answered" => s16 = "engine",
         s16' = "over", s20' = how,
         UNCHANGED <<s1, s2, s3, s4, s5, s6, s7, s8, s9, s10, s11, s12, s13, s14, s15, s17, s18, s19>>
  PROVE  Profile!IInv'
<1>1. /\ s16' = "over" /\ s20' = how
      /\ UNCHANGED <<s1, s2, s3, s4, s5, s6, s7, s8, s9, s10, s11, s12, s13, s14, s15, s17, s18, s19>>
  OBVIOUS
<1>2. Profile!TypeOK'
  BY <1>1, ChapterTypes DEF Lateness, Profile!IInv, Profile!TypeOK, Windows!IInv
<1>3. Profile!ChapterOfPhase' BY <1>1 DEF Profile!ChapterOfPhase, Profile!Closing
<1>4. Profile!RecordsOfGrid' BY <1>1 DEF Profile!IInv, Profile!RecordsOfGrid, Profile!Closing
<1>6. Profile!MarksBeforeParakeet' /\ Profile!OnlyDriftIsRepaired'
  BY <1>1 DEF Profile!IInv, Profile!MarksBeforeParakeet, Profile!OnlyDriftIsRepaired
<1>7. Profile!AnswerIsComplete'
  <2> SUFFICES ASSUME s16 = "engine"
               PROVE  /\ s15 => Len(s18) = Len(s17) /\ \A i \in 1 .. Len(s17) : s17[i] => s18[i].flagged
                      /\ s14 => Len(s12) = Len(s4)
    BY <1>1 DEF Profile!AnswerIsComplete
  <2>1. s15 => Len(s18) = Len(s17) /\ \A i \in 1 .. Len(s18) : s18[i].flagged = s17[i]
    BY DEF Profile!IInv, Profile!RecordsOfGrid, Profile!Closing
  <2>2. s14 => s13 = "answered" BY DEF Profile!IInv, Profile!ChapterOfPhase, Profile!Closing
  <2>3. s14 => Len(s12) = Len(s4) BY <2>2 DEF Windows!IInv, Windows!OneWindowPerMark
  <2> QED BY <2>1, <2>3
<1> QED BY <1>2, <1>3, <1>4, <1>6, <1>7 DEF Profile!IInv, Lateness

LEMMA ProfileEnd ==
  ASSUME Profile!GridAssumption, Profile!IInv, Windows!IInv, Windows!IInv', Lateness',
         NEW how \in {"cancelled", "unavailable", "failed", "badmarks"}, Profile!End(how)
  PROVE  Profile!IInv'
<1>1. /\ s16' = "over" /\ s20' = how
      /\ UNCHANGED <<s1, s2, s3, s4, s5, s6, s7, s8, s9, s10, s11, s12, s13, s14, s15, s17, s18, s19>>
  BY DEF Profile!End, Profile!Still, Profile!chapter, Profile!request, Profile!drift
<1> QED BY <1>1, ProfileOver

(* A step before the windows that records nothing. *)
LEMMA ProfileGoOn ==
  ASSUME Profile!GridAssumption, Profile!IInv, Windows!IInv', Lateness', s20 = "running",
         UNCHANGED <<s1, s2, s3, s4, s5, s6, s7, s8, s9, s10, s11, s12, s13, s14, s15, s17, s18, s19, s20>>,
         s16 \notin {"windows", "identity", "cli", "engine", "over"},
         s16' \in {"probe", "parakeet", "drift", "runtime", "decode", "clipped", "whisper", "identify",
                   "version", "windows", "identity"},
         s16' \in {"probe", "parakeet"} => s18 = <<>>,
         s16' \in {"runtime", "decode", "clipped", "whisper", "identify", "version"} =>
           s15 /\ Len(s18) < Len(s17) /\ s17[Len(s18) + 1],
         s16' \in {"windows", "identity"} /\ s15 => Len(s18) = Len(s17),
         s16' = "windows" => s14, s16' = "identity" => ~s14,
         s14 /\ s16' # "probe" => \A i \in 1 .. Len(s4) : s4[i] <= s5
  PROVE  Profile!IInv'
<1>1. s6 = "check" /\ s13 = "running" BY DEF Profile!IInv, Profile!ChapterOfPhase, Profile!Closing
<1>2. Profile!TypeOK'
  BY ChapterTypes DEF Lateness, Profile!IInv, Profile!TypeOK, Profile!ChildPhases, Profile!Closing, Windows!IInv
<1>3. Profile!ChapterOfPhase' BY <1>1 DEF Profile!ChapterOfPhase, Profile!Closing
<1>4. Profile!RecordsOfGrid' BY DEF Profile!IInv, Profile!RecordsOfGrid, Profile!Closing
<1>6. Profile!MarksBeforeParakeet' BY DEF Profile!MarksBeforeParakeet
<1>8. Profile!OnlyDriftIsRepaired' BY DEF Profile!IInv, Profile!OnlyDriftIsRepaired
<1>9. Profile!AnswerIsComplete' BY DEF Profile!AnswerIsComplete
<1> QED BY <1>2, <1>3, <1>4, <1>6, <1>8, <1>9 DEF Profile!IInv, Lateness

(* The command lines are asked for their versions. *)
LEMMA ProfileAsks ==
  ASSUME Profile!GridAssumption, Profile!IInv, Windows!IInv', Lateness', s20 = "running",
         UNCHANGED <<s1, s2, s3, s4, s5, s6, s7, s8, s9, s10, s11, s12, s13, s14, s15, s17, s18, s19, s20>>,
         s16 \in {"identity", "cli"}, s16' \in {"cli", "engine"}
  PROVE  Profile!IInv'
<1>1. Profile!TypeOK'
  BY ChapterTypes DEF Lateness, Profile!IInv, Profile!TypeOK, Profile!ChildPhases, Profile!Closing, Windows!IInv
<1>2. Profile!ChapterOfPhase' BY DEF Profile!IInv, Profile!ChapterOfPhase, Profile!Closing
<1>3. Profile!RecordsOfGrid' BY DEF Profile!IInv, Profile!RecordsOfGrid, Profile!Closing
<1>4. Profile!MarksBeforeParakeet' BY DEF Profile!IInv, Profile!MarksBeforeParakeet
<1>5. Profile!OnlyDriftIsRepaired' BY DEF Profile!IInv, Profile!OnlyDriftIsRepaired
<1>6. Profile!AnswerIsComplete' BY DEF Profile!AnswerIsComplete
<1> QED BY <1>1, <1>2, <1>3, <1>4, <1>5, <1>6 DEF Profile!IInv, Lateness

(* The loop of the drift check sees one more grid window. *)
LEMMA ProfileRecorded ==
  ASSUME Profile!GridAssumption, Profile!IInv, Windows!IInv', Lateness', s20 = "running",
         s16 \in {"drift", "version"}, s16' = "drift", s15, Len(s18) < Len(s17),
         NEW flagged \in BOOLEAN, NEW agrees \in BOOLEAN, NEW sure \in BOOLEAN,
         flagged = s17[Len(s18) + 1], ~flagged => ~agrees,
         UNCHANGED <<s1, s2, s3, s4, s5, s6, s7, s8, s9, s10, s11, s12, s13, s14, s15, s20>>,
         Profile!Recorded([flagged |-> flagged, agrees |-> agrees, sure |-> sure, accepted |-> agrees /\ sure])
  PROVE  Profile!IInv'
<1> DEFINE Record == [flagged : BOOLEAN, agrees : BOOLEAN, sure : BOOLEAN, accepted : BOOLEAN]
<1>1. PICK record \in Record :
        record = [flagged |-> flagged, agrees |-> agrees, sure |-> sure, accepted |-> agrees /\ sure]
  OBVIOUS
<1>2. /\ s17 \in Seq(BOOLEAN) /\ s18 \in Seq(Record) /\ s19 \in Seq({"parakeet", "retry"})
      /\ Len(s19) = Len(s17)
  <2>1. s17 \in Grids \cup {<<>>} /\ s18 \in Seq(Record) /\ s19 \in Seq({"parakeet", "retry"})
        /\ Len(s19) = Len(s17)
    BY DEF Profile!IInv, Profile!TypeOK
  <2> QED BY <2>1 DEF Profile!GridAssumption
<1>3. PICK k \in Nat : k = Len(s18) BY <1>2
<1>4. PICK n \in Nat : n = Len(s17) BY <1>2
<1>5. s18' = Append(s18, record) /\ s17' = s17
      /\ s19' = IF agrees /\ sure THEN [s19 EXCEPT ![k + 1] = "retry"] ELSE s19
  BY <1>1, <1>3 DEF Profile!Recorded
<1>6. k < n /\ k + 1 \in 1 .. n BY <1>3, <1>4
<1>7. /\ s18' \in Seq(Record) /\ Len(s18') = k + 1
      /\ \A i \in 1 .. k : s18'[i] = s18[i]
      /\ s18'[k + 1] = record
  BY <1>1, <1>2, <1>3, <1>5
<1>8. s19' \in Seq({"parakeet", "retry"}) /\ Len(s19') = n
  <2>1. CASE agrees /\ sure
    <3>1. s19' = [s19 EXCEPT ![k + 1] = "retry"] BY <1>5, <2>1
    <3> QED BY <3>1, <1>2, <1>4, <1>6
  <2>2. CASE ~(agrees /\ sure) BY <1>2, <1>4, <1>5, <2>2
  <2> QED BY <2>1, <2>2
<1>9. \A i \in 1 .. n : s19'[i] = IF i = k + 1 /\ agrees /\ sure THEN "retry" ELSE s19[i]
  <2>1. CASE agrees /\ sure
    <3>1. s19' = [s19 EXCEPT ![k + 1] = "retry"] BY <1>5, <2>1
    <3>2. DOMAIN s19 = 1 .. n BY <1>2, <1>4
    <3> QED BY <3>1, <3>2, <2>1
  <2>2. CASE ~(agrees /\ sure) BY <1>5, <2>2
  <2> QED BY <2>1, <2>2
<1>10. s6 = "check" /\ s13 = "running" BY DEF Profile!IInv, Profile!ChapterOfPhase, Profile!Closing
<1>11. Profile!TypeOK'
  <2>1. Len(s18') <= Len(s17') BY <1>4, <1>5, <1>6, <1>7
  <2>2. Len(s19') = Len(s17') BY <1>4, <1>5, <1>8
  <2>3. Profile!Chapter!TypeOK' BY ChapterTypes DEF Windows!IInv
  <2> QED BY <1>5, <1>7, <1>8, <2>1, <2>2, <2>3 DEF Lateness, Profile!IInv, Profile!TypeOK
<1>12. Profile!ChapterOfPhase' BY <1>10 DEF Profile!ChapterOfPhase, Profile!Closing
<1>13. \A i \in 1 .. k + 1 : i \in 1 .. k \/ i = k + 1 OBVIOUS
<1>14. Profile!RecordsOfGrid'
  <2>1. ASSUME NEW i \in 1 .. k + 1 PROVE s18'[i].flagged = s17[i]
    <3>1. CASE i \in 1 .. k BY <3>1, <1>3, <1>7 DEF Profile!IInv, Profile!RecordsOfGrid
    <3>2. CASE i = k + 1 BY <3>2, <1>1, <1>3, <1>7
    <3> QED BY <3>1, <3>2, <1>13
  <2> QED BY <2>1, <1>5, <1>7 DEF Profile!RecordsOfGrid, Profile!Closing
<1>16. Profile!MarksBeforeParakeet' BY DEF Profile!IInv, Profile!MarksBeforeParakeet
<1>18. Profile!OnlyDriftIsRepaired'
  <2> SUFFICES ASSUME NEW i \in 1 .. n
               PROVE  s19'[i] = "retry" <=>
                        i <= k + 1 /\ s15 /\ s17[i] /\ s18'[i].agrees /\ s18'[i].sure
    BY <1>4, <1>5, <1>7 DEF Profile!OnlyDriftIsRepaired
  <2>1. s19[i] = "retry" <=> i <= k /\ s15 /\ s17[i] /\ s18[i].agrees /\ s18[i].sure
    BY <1>3, <1>4 DEF Profile!IInv, Profile!OnlyDriftIsRepaired
  <2>2. CASE i \in 1 .. k
    <3>1. s18'[i] = s18[i] /\ i <= k /\ i <= k + 1 /\ i # k + 1 BY <2>2, <1>7
    <3>2. s19'[i] = s19[i] BY <3>1, <1>9
    <3> QED BY <3>1, <3>2, <2>1
  <2>3. CASE i = k + 1
    <3>1. s18'[i].agrees = agrees /\ s18'[i].sure = sure /\ s17[i] = flagged BY <2>3, <1>1, <1>3, <1>7
    <3>2. s19[i] # "retry" BY <2>1, <2>3
    <3>3. s19'[i] = "retry" <=> agrees /\ sure BY <2>3, <3>2, <1>9
    <3>4. i <= k + 1 BY <2>3
    <3> QED BY <3>1, <3>3, <3>4
  <2>4. CASE i \notin 1 .. k /\ i # k + 1
    <3>1. ~(i <= k + 1) /\ ~(i <= k) BY <2>4
    <3>2. s19'[i] = s19[i] BY <2>4, <1>9
    <3> QED BY <3>1, <3>2, <2>1
  <2> QED BY <2>2, <2>3, <2>4
<1>19. Profile!AnswerIsComplete' BY DEF Profile!AnswerIsComplete
<1> QED BY <1>11, <1>12, <1>14, <1>16, <1>18, <1>19 DEF Profile!IInv, Lateness

LEMMA ProfileTranscribed ==
  ASSUME Profile!GridAssumption, Profile!IInv, Windows!IInv', Lateness', s20 = "running", Profile!Transcribed
  PROVE  Profile!IInv'
<1>1. PICK g \in Grids : s17' = g /\ s19' = [i \in 1 .. Len(g) |-> "parakeet"]
  BY DEF Profile!Transcribed
<1>2. /\ s16 = "parakeet" /\ s16' = "drift" /\ s18' = s18 /\ s20' = s20
      /\ UNCHANGED <<s1, s2, s3, s4, s5, s6, s7, s8, s9, s10, s11, s12, s13, s14, s15>>
  BY DEF Profile!Transcribed, Profile!Still, Profile!chapter, Profile!request
<1>3. g \in Seq(BOOLEAN) BY DEF Profile!GridAssumption
<1>4. PICK n \in Nat : n = Len(g) BY <1>3
<1>5. s19' \in Seq({"parakeet", "retry"}) /\ Len(s19') = n /\ \A i \in 1 .. n : s19'[i] = "parakeet"
  BY <1>1, <1>4
<1>6. s18 = <<>> /\ Len(s18') = 0 BY <1>2 DEF Profile!IInv, Profile!RecordsOfGrid
<1>8. Profile!TypeOK'
  <2>1. Profile!Chapter!TypeOK' BY ChapterTypes DEF Windows!IInv
  <2>2. Len(s18') <= Len(s17') /\ Len(s19') = Len(s17') BY <1>1, <1>4, <1>5, <1>6
  <2> QED BY <1>1, <1>2, <1>5, <2>1, <2>2 DEF Lateness, Profile!IInv, Profile!TypeOK
<1>9. Profile!ChapterOfPhase' BY <1>2 DEF Profile!IInv, Profile!ChapterOfPhase, Profile!Closing
<1>10. Profile!RecordsOfGrid' BY <1>2, <1>6 DEF Profile!RecordsOfGrid, Profile!Closing
<1>12. Profile!MarksBeforeParakeet' BY <1>2 DEF Profile!IInv, Profile!MarksBeforeParakeet
<1>14. Profile!OnlyDriftIsRepaired'
  <2>1. \A i \in 1 .. n : ~(i <= 0) OBVIOUS
  <2> QED BY <2>1, <1>1, <1>4, <1>5, <1>6 DEF Profile!OnlyDriftIsRepaired
<1>15. Profile!AnswerIsComplete' BY <1>2 DEF Profile!AnswerIsComplete
<1> QED BY <1>8, <1>9, <1>10, <1>12, <1>14, <1>15 DEF Profile!IInv, Lateness

(* The windows around the marks go on, or end the run. *)
LEMMA ProfileChapterStep ==
  ASSUME Windows!WindowAssumption, Profile!GridAssumption, Profile!IInv, Windows!IInv, Windows!IInv',
         Lateness', s20 = "running", Profile!ChapterStep
  PROVE  Profile!IInv'
<1>1. Windows!Step BY ChapterSteps DEF Profile!ChapterStep
<1>2. /\ UNCHANGED <<s4, s5>>
      /\ s13' \in {"running", "answered", "cancelled", "unavailable", "failed", "badmarks"}
  BY <1>1, WindowsMoves
<1>3. s16 = "windows" /\ UNCHANGED <<s14, s15, s17, s18, s19>>
  BY DEF Profile!ChapterStep, Profile!drift
<1>4. /\ s16' \in {"windows", "identity", "over"}
      /\ s20' \in {"running", "cancelled", "unavailable", "failed", "badmarks"}
      /\ s20' # "running" <=> s16' = "over"
      /\ s16' = "windows" => s13' = "running"
      /\ s16' = "identity" => s13' = "answered"
  <2>1. CASE s13' = "running" BY <2>1, ProfileMoves
  <2>2. CASE s13' = "answered" BY <2>2, ProfileMoves
  <2>3. CASE s13' \notin {"running", "answered"} BY <2>3, <1>2, ProfileMoves
  <2> QED BY <2>1, <2>2, <2>3
<1>5. s14 BY <1>3 DEF Profile!IInv, Profile!ChapterOfPhase
<1>6. Profile!TypeOK'
  <2>1. Profile!Chapter!TypeOK' BY ChapterTypes DEF Windows!IInv
  <2> QED BY <2>1, <1>3, <1>4 DEF Lateness, Profile!IInv, Profile!TypeOK, Profile!Closing
<1>7. Profile!ChapterOfPhase' BY <1>3, <1>4, <1>5 DEF Profile!ChapterOfPhase, Profile!Closing
<1>8. Profile!RecordsOfGrid' BY <1>3, <1>4 DEF Profile!IInv, Profile!RecordsOfGrid, Profile!Closing
<1>9. Profile!MarksBeforeParakeet' BY <1>2, <1>3 DEF Profile!IInv, Profile!MarksBeforeParakeet
<1>10. Profile!OnlyDriftIsRepaired' BY <1>3 DEF Profile!IInv, Profile!OnlyDriftIsRepaired
<1>11. Profile!AnswerIsComplete' BY <1>4 DEF Profile!AnswerIsComplete
<1> QED BY <1>6, <1>7, <1>8, <1>9, <1>10, <1>11 DEF Profile!IInv, Lateness

(* The caller cancels, or the model is replaced. *)
LEMMA ProfileOutside ==
  ASSUME Profile!GridAssumption, Profile!IInv, Windows!IInv', s20 = "running" \/ s3' = s3,
         s3 \in BOOLEAN, s3 => s3',
         UNCHANGED <<s4, s5, s6, s7, s8, s9, s10, s11, s12, s13, s14, s15, s16, s17, s18, s19, s20, s21>>
  PROVE  Profile!IInv'
<1>1. Profile!TypeOK' BY ChapterTypes DEF Profile!IInv, Profile!TypeOK, Windows!IInv
<1>2. Profile!ChapterOfPhase' BY DEF Profile!IInv, Profile!ChapterOfPhase
<1>3. Profile!RecordsOfGrid' BY DEF Profile!IInv, Profile!RecordsOfGrid
<1>4. Profile!WorkedLast' /\ Profile!IdentifiedLast'
  BY DEF Profile!IInv, Profile!WorkedLast, Profile!IdentifiedLast
<1>5. Profile!MarksBeforeParakeet' BY DEF Profile!IInv, Profile!MarksBeforeParakeet
<1>6. Profile!CancelledSoon' BY DEF Profile!IInv, Profile!CancelledSoon
<1>7. Profile!OnlyDriftIsRepaired' BY DEF Profile!IInv, Profile!OnlyDriftIsRepaired
<1>8. Profile!AnswerIsComplete' BY DEF Profile!IInv, Profile!AnswerIsComplete
<1> QED BY <1>1, <1>2, <1>3, <1>4, <1>5, <1>6, <1>7, <1>8 DEF Profile!IInv

(* For the windows, a step of the run is one of theirs or none. *)
LEMMA ProfileIsChapter ==
  ASSUME [Profile!Next]_(Profile!vars)
  PROVE  [Windows!Next]_(Windows!vars)
<1> USE DEF Profile!Still, Profile!End, Profile!Goto, Profile!chapter, Profile!request, Windows!vars
<1>1. CASE UNCHANGED Profile!vars BY <1>1 DEF Profile!vars
<1>2. CASE Profile!Resolve \/ Profile!ToolMissing \/ Profile!Probed
  BY <1>2 DEF Profile!Resolve, Profile!ToolMissing, Profile!Probed
<1>3. CASE Profile!Transcribed BY <1>3 DEF Profile!Transcribed
<1>4. CASE Profile!CheckDrift BY <1>4 DEF Profile!CheckDrift, Profile!ToChapters
<1>5. CASE Profile!ResolveRetry \/ Profile!RetryDecoded \/ Profile!StartRetry \/ Profile!RetryRead
            \/ Profile!RetryIdentified
  BY <1>5 DEF Profile!ResolveRetry, Profile!RetryDecoded, Profile!StartRetry, Profile!RetryRead,
     Profile!RetryIdentified
<1>6. CASE \E agrees \in BOOLEAN, sure \in BOOLEAN : Profile!RetryJudged(agrees, sure)
  BY <1>6 DEF Profile!RetryJudged
<1>7. CASE \/ Profile!ChildBreaks \/ Profile!ChildCancelled
            \/ Profile!AskInterpreter \/ Profile!AskParakeet \/ Profile!Answer
  BY <1>7 DEF Profile!ChildBreaks, Profile!ChildCancelled, Profile!AskInterpreter, Profile!AskParakeet,
     Profile!Answer
<1>8. CASE Profile!ChapterStep BY <1>8, ChapterSteps DEF Profile!ChapterStep, Windows!Next
<1>9. CASE Profile!Cancel BY <1>9, ChapterEvents DEF Profile!Cancel, Profile!Outside, Windows!Next
<1>10. CASE Profile!SwapModel BY <1>10, ChapterEvents DEF Profile!SwapModel, Profile!Outside, Windows!Next
<1> QED BY <1>1, <1>2, <1>3, <1>4, <1>5, <1>6, <1>7, <1>8, <1>9, <1>10 DEF Profile!Next, Profile!Step

LEMMA ProfileStep ==
  ASSUME Windows!WindowAssumption, Profile!GridAssumption, Profile!IInv, Windows!IInv, Windows!IInv',
         Profile!Step
  PROVE  Profile!IInv'
<1>1. Profile!TypeOK /\ Profile!ChapterOfPhase /\ Profile!RecordsOfGrid /\ Profile!MarksBeforeParakeet
  BY DEF Profile!IInv
<1>2. /\ s3 \in BOOLEAN /\ s14 \in BOOLEAN /\ s15 \in BOOLEAN /\ Lateness'
      /\ s20 # "running" <=> s16 = "over"
  <2>1. s3 \in BOOLEAN BY DEF Windows!IInv, Windows!TypeOK
  <2> QED BY <2>1, <1>1, ProfileLate DEF Profile!TypeOK
<1>14. s17 \in Seq(BOOLEAN) /\ Len(s18) \in Nat /\ Len(s17) \in Nat
  <2>1. s17 \in Grids \cup {<<>>} BY <1>1 DEF Profile!TypeOK
  <2>2. \A g \in Grids : g \in Seq(BOOLEAN) BY DEF Profile!GridAssumption
  <2>5. <<>> \in Seq(BOOLEAN) OBVIOUS
  <2>3. s17 \in Seq(BOOLEAN) BY <2>1, <2>2, <2>5, Zenon
  <2>4. s18 \in Seq([flagged : BOOLEAN, agrees : BOOLEAN, sure : BOOLEAN, accepted : BOOLEAN])
    BY <1>1 DEF Profile!TypeOK
  <2> QED BY <2>3, <2>4
<1> DEFINE KeptHere == UNCHANGED <<s1, s2, s3, s4, s5, s6, s7, s8, s9, s10, s11, s12, s13, s14, s15, s17, s18,
                               s19, s20>>
<1> USE DEF Profile!Still, Profile!Goto, Profile!chapter, Profile!request, Profile!drift
<1>3. CASE Profile!Resolve
  <2>1. CASE s3 \/ s1 # "pinned"
    <3>1. Profile!End("cancelled") \/ Profile!End("unavailable") BY <1>3, <2>1 DEF Profile!Resolve
    <3> QED BY <1>2, <3>1, ProfileEnd
  <2>2. CASE ~(s3 \/ s1 # "pinned")
    <3>1. s16 = "start" /\ KeptHere /\ s16' = IF s14 THEN "probe" ELSE "parakeet"
      BY <1>3, <2>2 DEF Profile!Resolve
    <3>2. s18 = <<>> /\ s20 = "running" BY <1>1, <1>2, <3>1 DEF Profile!RecordsOfGrid
    <3> QED BY <1>2, <3>1, <3>2, ProfileGoOn
  <2> QED BY <2>1, <2>2
<1>4. CASE Profile!ToolMissing BY <1>2, <1>4, ProfileEnd DEF Profile!ToolMissing
<1>5. CASE Profile!Probed
  <2>1. CASE \E i \in 1 .. Len(s4) : s4[i] > s5
    <3>1. Profile!End("badmarks") BY <1>5, <2>1 DEF Profile!Probed
    <3> QED BY <1>2, <3>1, ProfileEnd
  <2>2. CASE ~(\E i \in 1 .. Len(s4) : s4[i] > s5) /\ s3
    <3>1. Profile!End("cancelled") BY <1>5, <2>2 DEF Profile!Probed
    <3> QED BY <1>2, <3>1, ProfileEnd
  <2>3. CASE ~(\E i \in 1 .. Len(s4) : s4[i] > s5) /\ ~s3
    <3>1. s16 = "probe" /\ KeptHere /\ s16' = "parakeet" BY <1>5, <2>3 DEF Profile!Probed
    <3>2. s18 = <<>> /\ s20 = "running" BY <1>1, <1>2, <3>1 DEF Profile!RecordsOfGrid
    <3>3. \A i \in 1 .. Len(s4) : s4[i] <= s5
      <4> SUFFICES ASSUME NEW i \in 1 .. Len(s4) PROVE s4[i] <= s5 OBVIOUS
      <4>1. s4 \in Seq(Nat) /\ s5 \in Nat BY WindowsTypes, Zenon
      <4>2. s4[i] \in Nat BY <4>1
      <4>3. ~(s4[i] > s5) BY <2>3
      <4> QED BY <4>1, <4>2, <4>3
    <3> QED BY <1>2, <3>1, <3>2, <3>3, ProfileGoOn
  <2> QED BY <2>1, <2>2, <2>3
<1>6. CASE Profile!Transcribed
  <2>1. s20 = "running" BY <1>2, <1>6 DEF Profile!Transcribed
  <2> QED BY <1>2, <1>6, <2>1, ProfileTranscribed
<1>7. CASE Profile!CheckDrift
  <2>1. s16 = "drift" /\ s20 = "running" BY <1>2, <1>7 DEF Profile!CheckDrift
  <2>2. s14 => \A i \in 1 .. Len(s4) : s4[i] <= s5 BY <1>1, <2>1 DEF Profile!MarksBeforeParakeet
  <2>3. Profile!TypeOK BY <1>1
  <2>4. PICK k \in Nat : k = Len(s18) BY <2>3 DEF Profile!TypeOK
  <2>5. PICK n \in Nat : n = Len(s17) /\ k <= n /\ s17 \in Seq(BOOLEAN)
    <3>1. s17 \in Grids \cup {<<>>} /\ Len(s18) <= Len(s17) BY <2>3 DEF Profile!TypeOK
    <3> QED BY <3>1, <1>14, <2>4
  <2>6. CASE ~s15 \/ (k = n /\ ~s3)
    <3>1. KeptHere /\ s16' = IF s14 THEN "windows" ELSE "identity"
      BY <1>7, <2>4, <2>5, <2>6 DEF Profile!CheckDrift, Profile!ToChapters
    <3>2. s15 => Len(s18) = Len(s17) BY <2>4, <2>5, <2>6
    <3> QED BY <1>2, <2>1, <2>2, <3>1, <3>2, ProfileGoOn
  <2>7. CASE s15 /\ k = n /\ s3
    <3>1. Profile!End("cancelled") BY <1>7, <2>4, <2>5, <2>7 DEF Profile!CheckDrift
    <3> QED BY <1>2, <3>1, ProfileEnd
  <2>8. CASE s15 /\ k # n /\ ~s17[k + 1]
    <3>5. s15 /\ Len(s18) # Len(s17) /\ ~s17[Len(s18) + 1] BY <2>4, <2>5, <2>8
    <3>1. /\ Profile!Recorded([flagged |-> FALSE, agrees |-> FALSE, sure |-> FALSE, accepted |-> FALSE])
          /\ UNCHANGED <<s1, s2, s3, s4, s5, s6, s7, s8, s9, s10, s11, s12, s13, s14, s15, s16, s20>>
      BY <1>7, <3>5, Zenon DEF Profile!CheckDrift
    <3>2. Profile!Recorded([flagged |-> FALSE, agrees |-> FALSE, sure |-> FALSE, accepted |-> FALSE /\ FALSE])
      <4>1. (FALSE /\ FALSE) = FALSE OBVIOUS
      <4> QED BY <3>1, <4>1, Zenon
    <3>3. k < n /\ k + 1 \in 1 .. n BY <2>5, <2>8
    <3>4. s17[Len(s18) + 1] = FALSE BY <2>4, <2>5, <2>8, <3>3
    <3>6. Len(s18) < Len(s17) BY <2>4, <2>5, <3>3
    <3>7. FALSE \in BOOLEAN /\ s16' = "drift" BY <2>1, <3>1
    <3>8. UNCHANGED <<s1, s2, s3, s4, s5, s6, s7, s8, s9, s10, s11, s12, s13, s14, s15, s20>> BY <3>1
    <3> QED BY <2>1, <3>2, <3>4, <3>5, <3>6, <3>7, <3>8, <1>2, ProfileRecorded, Zenon
  <2>9. CASE s15 /\ k # n /\ s17[k + 1] /\ s3
    <3>1. Profile!End("cancelled") BY <1>7, <2>4, <2>5, <2>9 DEF Profile!CheckDrift
    <3> QED BY <1>2, <3>1, ProfileEnd
  <2>10. CASE s15 /\ k # n /\ s17[k + 1] /\ ~s3
    <3>1. KeptHere /\ s16' = "runtime"
      BY <1>7, <2>4, <2>5, <2>10 DEF Profile!CheckDrift
    <3>2. Len(s18) < Len(s17) /\ s17[Len(s18) + 1] BY <2>4, <2>5, <2>10
    <3> QED BY <1>2, <2>1, <2>2, <2>10, <3>1, <3>2, ProfileGoOn
  <2> QED BY <1>2, <2>6, <2>7, <2>8, <2>9, <2>10
<1>8. CASE \/ Profile!ResolveRetry \/ Profile!RetryDecoded \/ Profile!StartRetry \/ Profile!RetryRead
           \/ Profile!RetryIdentified
  <2>5. s16 \in {"runtime", "decode", "clipped", "whisper", "identify"}
    BY <1>8 DEF Profile!ResolveRetry, Profile!RetryDecoded, Profile!StartRetry, Profile!RetryRead,
       Profile!RetryIdentified
  <2>1. /\ s20 = "running" /\ s15 /\ Len(s18) < Len(s17) /\ s17[Len(s18) + 1]
        /\ s14 => \A i \in 1 .. Len(s4) : s4[i] <= s5
    BY <1>1, <1>2, <2>5 DEF Profile!RecordsOfGrid, Profile!MarksBeforeParakeet
  <2>2. \/ Profile!End("cancelled") \/ Profile!End("unavailable")
        \/ KeptHere /\ s16' \in {"decode", "clipped", "whisper", "identify", "version"}
    BY <1>8 DEF Profile!ResolveRetry, Profile!RetryDecoded, Profile!StartRetry, Profile!RetryRead,
       Profile!RetryIdentified
  <2>3. CASE Profile!End("cancelled") \/ Profile!End("unavailable") BY <1>2, <2>3, ProfileEnd
  <2>4. CASE KeptHere /\ s16' \in {"decode", "clipped", "whisper", "identify", "version"}
    BY <1>2, <2>1, <2>4, <2>5, ProfileGoOn
  <2> QED BY <2>2, <2>3, <2>4
<1>9. ASSUME NEW agrees \in BOOLEAN, NEW sure \in BOOLEAN, Profile!RetryJudged(agrees, sure)
      PROVE  Profile!IInv'
  <2>1. CASE s3
    <3>1. Profile!End("cancelled") BY <1>9, <2>1 DEF Profile!RetryJudged
    <3> QED BY <1>2, <3>1, ProfileEnd
  <2>2. CASE ~s3
    <3>1. /\ s16 = "version" /\ s16' = "drift"
          /\ Profile!Recorded([flagged |-> TRUE, agrees |-> agrees, sure |-> sure, accepted |-> agrees /\ sure])
          /\ UNCHANGED <<s1, s2, s3, s4, s5, s6, s7, s8, s9, s10, s11, s12, s13, s14, s15, s20>>
      BY <1>2, <1>9, <2>2 DEF Profile!RetryJudged
    <3>2. s20 = "running" /\ s15 /\ Len(s18) < Len(s17) /\ s17[Len(s18) + 1] = TRUE
      <4>1. s15 /\ Len(s18) < Len(s17) /\ s17[Len(s18) + 1] BY <1>1, <3>1 DEF Profile!RecordsOfGrid
      <4>4. PICK k \in Nat, n \in Nat : k = Len(s18) /\ n = Len(s17) BY <1>14
      <4>5. k + 1 \in 1 .. n BY <4>1, <4>4
      <4>6. s17[k + 1] \in BOOLEAN BY <1>14, <4>4, <4>5
      <4> QED BY <4>1, <4>4, <4>6, <1>2, <3>1
    <3> QED BY <1>2, <3>1, <3>2, ProfileRecorded
  <2> QED BY <2>1, <2>2
<1>10. CASE Profile!ChildBreaks \/ Profile!ChildCancelled
  <2>1. Profile!End("failed") \/ Profile!End("cancelled")
    BY <1>10 DEF Profile!ChildBreaks, Profile!ChildCancelled
  <2> QED BY <1>2, <2>1, ProfileEnd
<1>11. CASE Profile!ChapterStep
  <2>1. s20 = "running" BY <1>2, <1>11 DEF Profile!ChapterStep
  <2> QED BY <1>2, <1>11, <2>1, ProfileChapterStep
<1>12. CASE Profile!AskInterpreter \/ Profile!AskParakeet
  <2>1. KeptHere /\ s16 \in {"identity", "cli"} /\ s16' \in {"cli", "engine"}
    BY <1>12 DEF Profile!AskInterpreter, Profile!AskParakeet
  <2>2. s20 = "running" BY <1>2, <2>1
  <2> QED BY <1>2, <2>1, <2>2, ProfileAsks
<1>13. CASE Profile!Answer
  <2>1. /\ s16 = "engine" /\ s16' = "over" /\ s20' = "answered"
        /\ UNCHANGED <<s1, s2, s3, s4, s5, s6, s7, s8, s9, s10, s11, s12, s13, s14, s15, s17, s18, s19>>
    BY <1>13 DEF Profile!Answer
  <2> QED BY <1>2, <2>1, ProfileOver
<1> QED BY <1>3, <1>4, <1>5, <1>6, <1>7, <1>8, <1>9, <1>10, <1>11, <1>12, <1>13 DEF Profile!Step

ProfileInv == running = "profile" => Profile!IInv /\ Windows!IInv

LEMMA ProfileInductive ==
  /\ MediaInit => ProfileInv
  /\ ProfileInv /\ [MediaNext]_all => ProfileInv'
<1>1. Windows!WindowAssumption /\ Profile!GridAssumption BY MediaAssumption
<1>2. MediaInit => ProfileInv
  <2> SUFFICES ASSUME MediaInit, running = "profile" PROVE Profile!IInv /\ Windows!IInv
    BY DEF ProfileInv
  <2>1. Profile!Init BY ProfileStart
  <2>2. Windows!IInv BY <1>1, <2>1, ChapterInvariants, WindowsInit DEF Profile!Init
  <2> QED BY <1>1, <2>1, <2>2, ProfileInit
<1>3. ASSUME ProfileInv, [MediaNext]_all PROVE ProfileInv'
  <2> SUFFICES ASSUME running' = "profile" PROVE Profile!IInv' /\ Windows!IInv' BY DEF ProfileInv
  <2>1. Profile!IInv /\ Windows!IInv /\ [Profile!Next]_(Profile!vars)
    BY <1>3, ProfileRuns DEF ProfileInv
  <2>2. Windows!IInv' BY <1>1, <2>1, ProfileIsChapter, WindowsNext
  <2>3. s3 \in BOOLEAN BY <2>1 DEF Windows!IInv, Windows!TypeOK
  <2>4. CASE UNCHANGED Profile!vars
    BY <1>1, <2>1, <2>2, <2>3, <2>4, ProfileOutside
    DEF Profile!vars, Profile!chapter, Profile!request, Profile!drift
  <2>5. CASE Profile!Step BY <1>1, <2>1, <2>2, <2>5, ProfileStep
  <2>6. CASE Profile!Cancel
    <3>1. Windows!Cancel /\ s20 = "running" /\ UNCHANGED <<s14, s15, s16, s17, s18, s19, s20, s21>>
      BY <2>6, ChapterEvents DEF Profile!Cancel, Profile!Outside, Profile!drift
    <3>2. s3' /\ UNCHANGED <<s4, s5, s6, s7, s8, s9, s10, s11, s12, s13>>
      BY <3>1 DEF Windows!Cancel, Windows!files, Windows!progress
    <3> QED BY <1>1, <2>1, <2>2, <2>3, <3>1, <3>2, ProfileOutside
  <2>7. CASE Profile!SwapModel
    <3>1. \E file : Windows!SwapModel(file) /\ s20 = "running" /\ UNCHANGED <<s14, s15, s16, s17, s18, s19, s20, s21>>
      BY <2>7, ChapterEvents DEF Profile!SwapModel, Profile!Outside, Profile!drift
    <3>2. UNCHANGED <<s3, s4, s5, s6, s7, s8, s9, s10, s11, s12, s13>>
      BY <3>1 DEF Windows!SwapModel, Windows!files, Windows!progress
    <3>3. UNCHANGED <<s14, s15, s16, s17, s18, s19, s20, s21>> BY <3>1
    <3> QED BY <1>1, <2>1, <2>2, <2>3, <3>2, <3>3, ProfileOutside
  <2> QED BY <2>1, <2>2, <2>4, <2>5, <2>6, <2>7 DEF Profile!Next
<1> QED BY <1>2, <1>3

-----------------------------------------------------------------------------
(* The sidecar *)

(* A step of the run is a step of the component that runs, and leaves it running. *)
LEMMA SidecarRuns ==
  ASSUME [MediaNext]_all, running' = "sidecar"
  PROVE  running = "sidecar" /\ [Sidecar!Next]_(Sidecar!vars)
  BY DEF MediaNext, Step, all, slots, Sidecar!vars

LEMMA SidecarStart == ASSUME MediaInit, running = "sidecar" PROVE Sidecar!Init
  BY DEF MediaInit, Launch

LEMMA SidecarInit ==
  ASSUME Sidecar!WyomingAssumption, Sidecar!Init
  PROVE  Sidecar!IInv
<1>1. {MaxData, MaxPayload, MaxAudio, MaxSpeech, MaxEvents} \subseteq Nat
  BY DEF Sidecar!WyomingAssumption
<1>2. Sidecar!SidecarTypes BY <1>1 DEF Sidecar!Init, Sidecar!SidecarTypes, Sidecar!TypeOK
<1>3. Sidecar!MemoryBounded BY <1>1 DEF Sidecar!Init, Sidecar!MemoryBounded, Sidecar!Size
<1>4. Sidecar!AnswersInOrder BY DEF Sidecar!Init, Sidecar!AnswersInOrder
<1> QED BY <1>2, <1>3, <1>4 DEF Sidecar!Init, Sidecar!IInv, Sidecar!HeardIsHeld, Sidecar!Idle,
     Sidecar!UsesWhatWasHeard, Sidecar!FilesOfPhase, Sidecar!NoFileLeft,
     Sidecar!SpeechOfPhase, Sidecar!MidSpeech

Answers == {"info", "error", "transcript", "start", "chunk", "stop"}

(* One more answer (s10 is what was sent, s1 the phase) keeps the order: speech is   *)
(* followed by speech or an error, and nothing else is.                              *)
LEMMA SidecarAnswers ==
  ASSUME Sidecar!IInv, NEW x \in Answers, s10' = s10 \o <<x>>, s1 # "closed",
         x \in {"chunk", "stop"} => Sidecar!MidSpeech,
         Sidecar!MidSpeech => x \in {"chunk", "stop", "error"},
         x = "transcript" => s1' = "closed"
  PROVE  Sidecar!AnswersInOrder' /\ s10' \in Seq(Answers) /\ (Sidecar!MidSpeech' <=> x \in {"start", "chunk"})
<1>1. s10 \in Seq(Answers) BY DEF Sidecar!IInv, Sidecar!SidecarTypes, Answers
<1>2. /\ s10' \in Seq(Answers) /\ Len(s10') = Len(s10) + 1 /\ s10'[Len(s10')] = x
      /\ \A i \in 1 .. Len(s10) : s10'[i] = s10[i]
  BY <1>1
<1>3. \A i \in 1 .. Len(s10) : s10[i] # "transcript"
  BY DEF Sidecar!IInv, Sidecar!AnswersInOrder
<1>4. \A i \in 1 .. Len(s10') : s10'[i] = "transcript" => i = Len(s10') /\ s1' = "closed"
  <2> SUFFICES ASSUME NEW i \in 1 .. Len(s10'), s10'[i] = "transcript"
               PROVE  i = Len(s10') /\ s1' = "closed"
    OBVIOUS
  <2>1. i = Len(s10') \/ i \in 1 .. Len(s10) BY <1>1, <1>2
  <2> QED BY <2>1, <1>2, <1>3
<1>5. \A i \in 1 .. Len(s10') - 1 :
        s10'[i] \in {"start", "chunk"} <=> s10'[i + 1] \in {"chunk", "stop"}
                                           \/ (s10'[i] \in {"start", "chunk"} /\ s10'[i + 1] = "error")
  <2> SUFFICES ASSUME NEW i \in 1 .. Len(s10') - 1
               PROVE  s10'[i] \in {"start", "chunk"} <=> s10'[i + 1] \in {"chunk", "stop"}
                        \/ (s10'[i] \in {"start", "chunk"} /\ s10'[i + 1] = "error")
    OBVIOUS
  <2>1. i \in 1 .. Len(s10) /\ s10'[i] = s10[i] BY <1>1, <1>2
  <2>2. CASE i = Len(s10)
    <3>1. s10'[i + 1] = x BY <2>2, <1>1, <1>2
    <3>2. Sidecar!MidSpeech <=> s10[i] \in {"start", "chunk"}
      BY <2>1, <2>2, <1>1 DEF Sidecar!MidSpeech, Sidecar!Speaking
    <3> QED BY <3>1, <3>2, <2>1
  <2>3. CASE i # Len(s10)
    <3>1. i \in 1 .. Len(s10) - 1 /\ i + 1 \in 1 .. Len(s10) BY <2>1, <2>3, <1>1
    <3> QED BY <3>1, <2>1, <1>2 DEF Sidecar!IInv, Sidecar!AnswersInOrder
  <2> QED BY <2>2, <2>3
<1>6. Sidecar!MidSpeech' <=> x \in {"start", "chunk"}
  BY <1>1, <1>2 DEF Sidecar!MidSpeech, Sidecar!Speaking
<1> QED BY <1>2, <1>4, <1>5, <1>6 DEF Sidecar!AnswersInOrder

(* An answer that may be sent in this phase, whether or not the client is there. *)
LEMMA SidecarReplies ==
  ASSUME Sidecar!IInv, NEW x \in Answers, NEW then, Sidecar!Reply(<<x>>, then), s1 # "closed",
         x \in {"chunk", "stop"} => s1 = "speaking",
         s1 = "speaking" => x \in {"chunk", "stop", "error"},
         x = "transcript" => then = "closed",
         x \in {"start", "chunk"} <=> then = "speaking"
  PROVE  Sidecar!AnswersInOrder' /\ Sidecar!SpeechOfPhase' /\ s10' \in Seq(Answers)
<1>1. Sidecar!MidSpeech <=> s1 = "speaking" BY DEF Sidecar!IInv, Sidecar!SpeechOfPhase
<1>2. CASE s2
  <2>1. s10' = s10 \o <<x>> /\ s1' = then BY <1>2 DEF Sidecar!Reply
  <2> QED BY <2>1, <1>1, SidecarAnswers DEF Sidecar!SpeechOfPhase
<1>3. CASE ~s2
  <2>1. s10' = s10 /\ s1' = "closed" BY <1>3 DEF Sidecar!Reply
  <2> QED BY <2>1 DEF Sidecar!IInv, Sidecar!SidecarTypes, Answers, Sidecar!AnswersInOrder,
        Sidecar!SpeechOfPhase
<1> QED BY <1>2, <1>3

(* Nothing is sent, and speech neither begins nor goes on in another phase. *)
LEMMA SidecarSilent ==
  ASSUME Sidecar!IInv, s10' = s10, s1 # "closed" \/ s1' = s1,
         s1' = "closed" \/ (s1' = "speaking" <=> s1 = "speaking")
  PROVE  Sidecar!AnswersInOrder' /\ Sidecar!SpeechOfPhase' /\ s10' \in Seq(Answers)
  BY DEF Sidecar!IInv, Sidecar!SidecarTypes, Answers, Sidecar!AnswersInOrder,
     Sidecar!SpeechOfPhase, Sidecar!MidSpeech

(* Of an event no more is read than the limits allow, and one that is accepted has     *)
(* lengths that are numbers.                                                            *)
LEMMA SidecarReads ==
  ASSUME Sidecar!WyomingAssumption, NEW e \in Sidecar!Written
  PROVE  /\ Sidecar!ReadEvent(e).bytes \in 0 .. MaxData + MaxPayload
         /\ Sidecar!ReadEvent(e).result = "event" => e.data \in Nat /\ e.payload \in Nat
<1>1. {MaxData, MaxPayload} \subseteq Nat BY DEF Sidecar!WyomingAssumption
<1>2. /\ e.data \in Nat \/ e.data = Malformed
      /\ e.payload \in Nat \/ e.payload = Malformed
  <2>1. EventLengths \subseteq Nat BY DEF Sidecar!WyomingAssumption
  <2>2. e.data \in EventLengths \cup {Malformed, 0} BY DEF Sidecar!Written
  <2>3. e.payload \in EventLengths \cup {Malformed, 0} BY DEF Sidecar!Written
  <2>4. EventLengths \cup {0} \subseteq Nat BY <2>1
  <2> QED BY <2>2, <2>3, <2>4, Zenon
<1>3. CASE e.what = "line" \/ ~Sidecar!Declared(e.data, MaxData) \/ ~Sidecar!Declared(e.payload, MaxPayload)
  <2>1. Sidecar!ReadEvent(e) = [result |-> "rejected", bytes |-> 0]
    BY <1>3 DEF Sidecar!ReadEvent
  <2> QED BY <2>1, <1>1
<1>4. CASE e.what # "line" /\ Sidecar!Declared(e.data, MaxData) /\ Sidecar!Declared(e.payload, MaxPayload)
  <2>1. e.data \in 0 .. MaxData /\ e.payload \in 0 .. MaxPayload
    BY <1>1, <1>2, <1>4 DEF Sidecar!Declared
  <2>2. Sidecar!ReadEvent(e).bytes \in {e.data, e.data + e.payload}
    BY <1>4 DEF Sidecar!ReadEvent
  <2> QED BY <2>1, <2>2, <1>1
<1> QED BY <1>3, <1>4

LEMMA SidecarNext ==
  ASSUME Sidecar!WyomingAssumption, Sidecar!IInv, [Sidecar!Next]_(Sidecar!vars)
  PROVE  Sidecar!IInv'
<1>1. /\ {MaxData, MaxPayload, MaxAudio, MaxSpeech, MaxEvents, FramesPerChunk} \subseteq Nat
      /\ Widening \subseteq Nat
  BY DEF Sidecar!WyomingAssumption
<1> DEFINE Rest == /\ Sidecar!TypeOK /\ s4 \in Nat /\ s6 \in {0, 1}
                   /\ s5 \in Seq(Nat) /\ Sidecar!MemoryBounded /\ Sidecar!HeardIsHeld
                   /\ Sidecar!UsesWhatWasHeard /\ Sidecar!FilesOfPhase /\ Sidecar!NoFileLeft
<1> DEFINE Sending == Sidecar!AnswersInOrder /\ Sidecar!SpeechOfPhase /\ s10 \in Seq(Answers)
<1>2. Rest BY DEF Sidecar!IInv, Sidecar!SidecarTypes
<1> USE DEF Sidecar!TypeOK, Sidecar!MemoryBounded, Sidecar!HeardIsHeld,
            Sidecar!UsesWhatWasHeard, Sidecar!FilesOfPhase, Sidecar!NoFileLeft
<1> SUFFICES Rest' /\ Sending'
  BY DEF Sidecar!IInv, Sidecar!SidecarTypes, Answers
<1>3. CASE UNCHANGED Sidecar!vars
  <2>1. Sending' BY <1>3, SidecarSilent DEF Sidecar!vars
  <2>2. Rest' BY <1>2, <1>3 DEF Sidecar!vars, Sidecar!Size
  <2> QED BY <2>1, <2>2
<1>4. ASSUME NEW e \in Sidecar!Written, Sidecar!Handle(e) PROVE Rest' /\ Sending'
  <2>1. s1 = "reading" /\ s2 /\ s11' \in 0 .. MaxEvents /\ s4' \in 0 .. MaxData + MaxPayload
    <3>1. Sidecar!Receive(e)
      BY <1>4 DEF Sidecar!Handle, Sidecar!Refuse, Sidecar!Cut, Sidecar!Unusable, Sidecar!DescribeOrUnknown,
         Sidecar!AudioStart, Sidecar!AudioStop, Sidecar!Synthesize, Sidecar!Transcribe,
         Sidecar!AudioChunk, Sidecar!Accept
    <3>2. s4' \in 0 .. MaxData + MaxPayload BY <3>1, SidecarReads DEF Sidecar!Receive
    <3> QED BY <3>1, <3>2, <1>1, <1>2 DEF Sidecar!Receive, Sidecar!TypeOK
  <2>2. CASE Sidecar!Refuse(e)
    <3>1. Sending' BY <2>1, <2>2, SidecarReplies DEF Sidecar!Refuse, Sidecar!Error, Answers
    <3>2. Rest' BY <1>1, <1>2, <2>1, <2>2 DEF Sidecar!Refuse, Sidecar!Reply, Sidecar!Size
    <3> QED BY <3>1, <3>2
  <2>3. CASE Sidecar!Cut(e)
    <3>1. Sending' BY <2>1, <2>3, SidecarSilent DEF Sidecar!Cut
    <3>2. Rest' BY <1>1, <1>2, <2>1, <2>3 DEF Sidecar!Cut, Sidecar!Size
    <3> QED BY <3>1, <3>2
  <2>10. CASE Sidecar!Unusable(e)
    <3>1. s1' = "closed" /\ UNCHANGED <<s3, s5, s6, s7, s8, s9, s10, s12>>
      BY <2>10 DEF Sidecar!Unusable
    <3>2. Sending' BY <2>1, <3>1, SidecarSilent
    <3>3. Rest' BY <1>1, <1>2, <2>1, <3>1 DEF Sidecar!Size
    <3> QED BY <3>2, <3>3
  <2>4. CASE Sidecar!DescribeOrUnknown(e)
    <3>1. Sending'
      <4>1. CASE Sidecar!Reply(<<"info">>, "reading") BY <4>1, <2>1, SidecarReplies DEF Answers
      <4>2. CASE UNCHANGED <<s10, s1>> BY <4>2, SidecarSilent
      <4> QED BY <4>1, <4>2, <2>4 DEF Sidecar!DescribeOrUnknown
    <3>2. Rest' BY <1>1, <1>2, <2>1, <2>4 DEF Sidecar!DescribeOrUnknown, Sidecar!Reply, Sidecar!Size
    <3> QED BY <3>1, <3>2
  <2>5. CASE Sidecar!AudioStart(e)
    <3>1. Sending' BY <2>1, <2>5, SidecarSilent DEF Sidecar!AudioStart
    <3>2. /\ s5' = <<>> /\ s12' = [s12 EXCEPT !.audio = <<>>]
          /\ UNCHANGED <<s1, s2, s3, s6, s7, s8, s9, s10>>
      BY <2>5 DEF Sidecar!AudioStart
    <3>3. Sidecar!TypeOK' /\ Sidecar!UsesWhatWasHeard' /\ Sidecar!FilesOfPhase' /\ Sidecar!NoFileLeft'
      BY <1>2, <2>1, <3>2
    <3>4. s4' \in Nat /\ s4' <= MaxData + MaxPayload BY <1>1, <2>1
    <3>5. Sidecar!Size(s5)' = 0 /\ s5' \in Seq(Nat) BY <3>2 DEF Sidecar!Size
    <3>6. Sidecar!HeardIsHeld' BY <1>2, <2>1, <3>2
    <3>7. Sidecar!MemoryBounded' BY <1>1, <3>4, <3>5
    <3>8. Rest' BY <1>2, <3>2, <3>3, <3>4, <3>5, <3>6, <3>7
    <3> QED BY <3>1, <3>8
  <2>6. CASE Sidecar!AudioStop(e)
    <3>1. Sending'
      <4>1. CASE Sidecar!Reply(Sidecar!Error, "closed")
        BY <4>1, <2>1, SidecarReplies DEF Answers, Sidecar!Error
      <4>2. CASE UNCHANGED s10 /\ s1' = "transcribing" BY <4>2, <2>1, SidecarSilent
      <4> QED BY <4>1, <4>2, <2>6 DEF Sidecar!AudioStop
    <3>2. CASE Sidecar!Size(s5) = 0
      <4>1. s1' = "closed" /\ UNCHANGED <<s3, s5, s6, s7, s8, s9, s12>>
        BY <2>1, <2>6, <3>2 DEF Sidecar!AudioStop, Sidecar!Reply
      <4>2. Rest' BY <1>1, <1>2, <2>1, <4>1 DEF Sidecar!Size
      <4> QED BY <3>1, <4>2
    <3>3. CASE Sidecar!Size(s5) # 0
      <4>1. /\ s1' = "transcribing" /\ s7' = [audio |-> s5, language |-> s6] /\ s9' = {"stt"}
            /\ UNCHANGED <<s3, s5, s6, s8, s12>>
        BY <1>2, <2>1, <2>6, <3>3 DEF Sidecar!AudioStop
      <4>2. Rest' BY <1>1, <1>2, <2>1, <4>1 DEF Sidecar!Size
      <4> QED BY <3>1, <4>2
    <3> QED BY <3>2, <3>3
  <2>7. CASE Sidecar!Synthesize(e)
    <3>1. Sending'
      <4>1. CASE Sidecar!Reply(Sidecar!Error, "closed")
        BY <4>1, <2>1, SidecarReplies DEF Answers, Sidecar!Error
      <4>2. CASE UNCHANGED s10 /\ s1' = "synthesizing" BY <4>2, <2>1, SidecarSilent
      <4> QED BY <4>1, <4>2, <2>7 DEF Sidecar!Synthesize
    <3>2. s1' \in {"closed", "synthesizing"} /\ UNCHANGED <<s2, s3, s5, s6, s7, s8, s9, s12>>
      BY <2>7 DEF Sidecar!Synthesize, Sidecar!Reply
    <3>3. Sidecar!TypeOK' /\ Sidecar!UsesWhatWasHeard' /\ Sidecar!FilesOfPhase' /\ Sidecar!NoFileLeft'
      BY <1>2, <2>1, <3>2
    <3>4. s4' \in Nat /\ s4' <= MaxData + MaxPayload BY <1>1, <2>1
    <3>5. Sidecar!Size(s5)' = Sidecar!Size(s5) BY <3>2 DEF Sidecar!Size
    <3>6. Sidecar!HeardIsHeld' BY <1>2, <2>1, <3>2
    <3>7. Sidecar!MemoryBounded' BY <1>2, <3>4, <3>5
    <3>8. Rest' BY <1>2, <3>2, <3>3, <3>4, <3>6, <3>7
    <3> QED BY <3>1, <3>8
  <2>8. ASSUME NEW l \in {0, 1}, Sidecar!Transcribe(e, l) PROVE Rest' /\ Sending'
    <3>1. Sending' BY <2>1, <2>8, SidecarSilent DEF Sidecar!Transcribe
    <3>2. /\ s5' = <<>> /\ s6' = l /\ s12' = [audio |-> <<>>, language |-> l]
          /\ UNCHANGED <<s1, s3, s7, s8, s9>>
      BY <2>8 DEF Sidecar!Transcribe
    <3>3. Sidecar!TypeOK' /\ Sidecar!UsesWhatWasHeard' /\ Sidecar!FilesOfPhase' /\ Sidecar!NoFileLeft'
      BY <1>2, <2>1, <2>8, <3>2 DEF Sidecar!Transcribe, Sidecar!Accept, Sidecar!Receive
    <3>4. s4' \in Nat /\ s4' <= MaxData + MaxPayload BY <1>1, <2>1
    <3>5. Sidecar!Size(s5)' = 0 /\ s5' \in Seq(Nat) BY <3>2 DEF Sidecar!Size
    <3>6. Sidecar!HeardIsHeld' BY <3>2
    <3>7. Sidecar!MemoryBounded' BY <1>1, <3>4, <3>5
    <3>8. Rest' BY <1>2, <3>2, <3>3, <3>4, <3>5, <3>6, <3>7
    <3> QED BY <3>1, <3>8
  <2>9. ASSUME NEW w \in Widening, Sidecar!AudioChunk(e, w) PROVE Rest' /\ Sending'
    <3>1. PICK size : size = e.payload * w OBVIOUS
    <3>2. e.payload \in Nat BY <2>9, SidecarReads DEF Sidecar!AudioChunk, Sidecar!Accept
    <3>3. size \in Nat BY <3>1, <3>2, <1>1
    <3>4. Sidecar!Size(s5) \in Nat BY <1>2 DEF Sidecar!Size
    <3>5. CASE Sidecar!Size(s5) + size > MaxAudio
      <4>1. s5' = <<>> /\ s12' = s12 /\ Sidecar!Reply(Sidecar!Error, "closed")
        BY <3>1, <3>5, <2>9 DEF Sidecar!AudioChunk
      <4>2. Sending' BY <4>1, <2>1, SidecarReplies DEF Answers, Sidecar!Error
      <4>3. Rest' BY <4>1, <1>1, <1>2, <2>1, <2>9 DEF Sidecar!AudioChunk, Sidecar!Reply, Sidecar!Size
      <4> QED BY <4>2, <4>3
    <3>6. CASE ~(Sidecar!Size(s5) + size > MaxAudio)
      <4>1. /\ s5' = Append(s5, Sidecar!Size(s5) + size) /\ UNCHANGED <<s10, s1>>
            /\ s12' = [s12 EXCEPT !.audio = Append(@, Sidecar!Size(@) + size)]
        BY <3>1, <3>6, <2>9 DEF Sidecar!AudioChunk
      <4>2. Sending' BY <4>1, SidecarSilent
      <4>3. /\ s5' \in Seq(Nat) /\ s5' # <<>>
            /\ s5'[Len(s5')] = Sidecar!Size(s5) + size
        BY <4>1, <3>3, <3>4, <1>2
      <4>7. Sidecar!Size(s5)' <= MaxAudio
        <5>1. Sidecar!Size(s5)' = Sidecar!Size(s5) + size BY <4>3 DEF Sidecar!Size
        <5> QED BY <5>1, <3>3, <3>4, <3>6, <1>1
      <4>4. s12 = [audio |-> s5, language |-> s6] BY <1>2, <2>1 DEF Sidecar!HeardIsHeld
      <4>5. s12' = [audio |-> s5', language |-> s6'] BY <4>1, <4>4, <2>9 DEF Sidecar!AudioChunk
      <4>6. UNCHANGED <<s3, s6, s8, s9>> BY <2>9 DEF Sidecar!AudioChunk
      <4>8. Rest'
        <5>1. Sidecar!TypeOK' BY <4>1, <4>6, <1>2, <2>1
        <5>2. Sidecar!MemoryBounded' BY <4>7, <1>1, <2>1
        <5>3. Sidecar!HeardIsHeld' BY <4>5
        <5>4. s4' \in Nat /\ s6' \in {0, 1} /\ s5' \in Seq(Nat) BY <4>3, <4>6, <1>1, <1>2, <2>1
        <5>5. Sidecar!UsesWhatWasHeard' BY <4>1, <4>6, <1>2, <2>1
        <5>6. Sidecar!FilesOfPhase' /\ Sidecar!NoFileLeft' BY <4>1, <4>6, <1>2, <2>1
        <5> QED BY <5>1, <5>2, <5>3, <5>4, <5>5, <5>6
      <4> QED BY <4>2, <4>8
    <3> QED BY <3>4, <3>3, <1>1, <3>5, <3>6
  <2> QED BY <1>4, <2>2, <2>3, <2>4, <2>5, <2>6, <2>7, <2>8, <2>9, <2>10 DEF Sidecar!Handle
<1>5. CASE Sidecar!Serve
  <2>1. ASSUME NEW ok \in BOOLEAN, Sidecar!TranscriptionEnds(ok) PROVE Rest' /\ Sending'
    <3>1. PICK x \in {"transcript", "error"} : Sidecar!Reply(<<x>>, "closed")
      BY <2>1 DEF Sidecar!TranscriptionEnds, Sidecar!Error
    <3>2. s1 = "transcribing" BY <2>1 DEF Sidecar!TranscriptionEnds
    <3>3. Sending' BY <3>1, <3>2, SidecarReplies DEF Answers
    <3>4. Rest' BY <1>2, <2>1, <3>1 DEF Sidecar!TranscriptionEnds, Sidecar!Reply, Sidecar!Size
    <3> QED BY <3>3, <3>4
  <2>2. CASE Sidecar!SynthesisFails
    <3>1. Sending' BY <2>2, SidecarReplies DEF Sidecar!SynthesisFails, Sidecar!Error, Answers
    <3>2. Rest' BY <1>2, <2>2 DEF Sidecar!SynthesisFails, Sidecar!Reply, Sidecar!Size
    <3> QED BY <3>1, <3>2
  <2>3. ASSUME NEW n \in 0 .. MaxSpeech, Sidecar!SpeechReady(n) PROVE Rest' /\ Sending'
    <3>1. Sending' BY <2>3, SidecarReplies DEF Sidecar!SpeechReady, Answers
    <3>2. /\ s1' = IF s2 THEN "speaking" ELSE "closed"
          /\ s9' = (IF s2 THEN {"tts"} ELSE {}) /\ s8' \in 0 .. MaxSpeech
          /\ UNCHANGED <<s3, s4, s5, s6, s7, s11, s12>> /\ s1 = "synthesizing"
      BY <1>2, <2>3 DEF Sidecar!SpeechReady, Sidecar!Reply
    <3>3. Rest' BY <1>2, <3>2 DEF Sidecar!Size
    <3> QED BY <3>1, <3>3
  <2>4. CASE Sidecar!Speak
    <3>1. CASE s8 > 0 /\ s2
      <4>1. s8' \in 0 .. MaxSpeech
        BY <1>1, <1>2, <2>4, <3>1 DEF Sidecar!Speak
      <4>2. Sending' BY <2>4, <3>1, SidecarReplies DEF Sidecar!Speak, Answers
      <4>3. Rest' BY <1>2, <2>4, <3>1, <4>1 DEF Sidecar!Speak, Sidecar!Reply, Sidecar!Size
      <4> QED BY <4>2, <4>3
    <3>2. CASE ~(s8 > 0 /\ s2)
      <4>1. Sending' BY <2>4, <3>2, SidecarReplies DEF Sidecar!Speak, Answers
      <4>2. /\ s1' \in {"reading", "closed"} /\ s8' = 0 /\ s9' = {} /\ s1 = "speaking"
            /\ UNCHANGED <<s3, s4, s5, s6, s7, s11, s12>>
        BY <1>2, <2>4, <3>2 DEF Sidecar!Speak, Sidecar!Reply
      <4>3. Rest' BY <1>1, <1>2, <4>2 DEF Sidecar!Size
      <4> QED BY <4>1, <4>3
    <3> QED BY <3>1, <3>2
  <2>5. CASE Sidecar!SpeechBreaks
    <3>1. Sending' BY <2>5, SidecarReplies DEF Sidecar!SpeechBreaks, Sidecar!Error, Answers
    <3>2. Rest' BY <1>1, <1>2, <2>5 DEF Sidecar!SpeechBreaks, Sidecar!Reply, Sidecar!Size
    <3> QED BY <3>1, <3>2
  <2>6. CASE Sidecar!ThreadEnds
    <3>1. Sending' BY <2>6, SidecarSilent DEF Sidecar!ThreadEnds
    <3>2. Rest' BY <1>2, <2>6 DEF Sidecar!ThreadEnds, Sidecar!Size
    <3> QED BY <3>1, <3>2
  <2> QED BY <1>5, <2>1, <2>2, <2>3, <2>4, <2>5, <2>6 DEF Sidecar!Serve
<1>6. CASE Sidecar!Disconnect
  <2>1. Sending' BY <1>6, SidecarSilent DEF Sidecar!Disconnect
  <2>2. Rest' BY <1>2, <1>6 DEF Sidecar!Disconnect, Sidecar!Size
  <2> QED BY <2>1, <2>2
<1>7. CASE Sidecar!Cancel
  <2>1. Sending' BY <1>7, SidecarSilent DEF Sidecar!Cancel
  <2>2. s9' \subseteq {"stt", "tts"} BY <1>2, <1>7 DEF Sidecar!Cancel
  <2>3. Rest' BY <1>1, <1>2, <1>7, <2>2 DEF Sidecar!Cancel, Sidecar!Size
  <2> QED BY <2>1, <2>3
<1> QED BY <1>3, <1>4, <1>5, <1>6, <1>7 DEF Sidecar!Next

SidecarInv == running = "sidecar" => Sidecar!IInv

LEMMA SidecarInductive ==
  /\ MediaInit => SidecarInv
  /\ SidecarInv /\ [MediaNext]_all => SidecarInv'
<1>1. Sidecar!WyomingAssumption BY MediaAssumption
<1>2. MediaInit => SidecarInv BY <1>1, SidecarStart, SidecarInit DEF SidecarInv
<1>3. ASSUME SidecarInv, [MediaNext]_all PROVE SidecarInv'
  <2> SUFFICES ASSUME running' = "sidecar" PROVE Sidecar!IInv' BY DEF SidecarInv
  <2> QED BY <1>1, <1>3, SidecarRuns, SidecarNext DEF SidecarInv
<1> QED BY <1>2, <1>3

-----------------------------------------------------------------------------
(* The caches of voices *)

LEMMA VoicesRuns ==
  ASSUME [MediaNext]_all, running' \in {"piper", "kokoro"}
  PROVE  /\ running' = running
         /\ running' = "piper" => [Voices(Piper)!Next]_(Voices(Piper)!vars)
         /\ running' = "kokoro" => [Voices(Kokoro)!Next]_(Voices(Kokoro)!vars)
  BY DEF MediaNext, Step, all, slots, Voices!vars, Voices!requests

LEMMA VoicesStart ==
  ASSUME MediaInit
  PROVE  /\ running = "piper" => Voices(Piper)!Init
         /\ running = "kokoro" => Voices(Kokoro)!Init
  BY DEF MediaInit, Launch

LEMMA VoicesFinite == ASSUME NEW use PROVE \A S : Voices(use)!IsFiniteSet(S) <=> IsFiniteSet(S)
  BY DEF Voices!IsFiniteSet, IsFiniteSet

LEMMA VoicesCardinality == ASSUME NEW use PROVE \A S : Voices(use)!Cardinality(S) = Cardinality(S)
  BY DEF Voices!Cardinality, Cardinality

(* What a request that has something left to load goes by. *)
LEMMA VoicesLoad ==
  ASSUME NEW use, Voices(use)!CacheAssumption, Voices(use)!TypeOK,
         NEW r \in use.requests, s6[r] # <<>>
  PROVE  /\ Voices(use)!Load(r) \in use.loads
         /\ Voices(use)!Load(r).cache \in Voices(use)!Caches
         /\ Voices(use)!LockOf(r) \in Voices(use)!Locks
         /\ Voices(use)!Parts(r) \in Seq(use.files) /\ Voices(use)!Parts(r) # <<>>
         /\ Tail(s6[r]) \in Seq(use.loads)
<1>1. s6[r] \in Seq(use.loads) BY DEF Voices!TypeOK
<1>5. Head(s6[r]) \in use.loads /\ Tail(s6[r]) \in Seq(use.loads) BY <1>1, HeadTailProperties
<1> QED BY <1>5 DEF Voices!CacheAssumption, Voices!Load, Voices!Caches, Voices!LockOf, Voices!Locks, Voices!Parts

LEMMA VoicesInit ==
  ASSUME NEW use, Voices(use)!CacheAssumption, Voices(use)!Init
  PROVE  Voices(use)!IInv
<1>1. /\ s1 = [f \in use.files |-> 1] /\ s2 \in {use.files, {}} /\ s3 = [c \in Voices(use)!Caches |-> {}]
      /\ s4 = [l \in Voices(use)!Locks |-> NoOne] /\ s5 = [r \in use.requests |-> "idle"]
      /\ s6 \in [use.requests -> use.plans] /\ s7 = [r \in use.requests |-> <<>>]
      /\ s8 = [r \in use.requests |-> <<>>] /\ s9 = [r \in use.requests |-> <<>>]
      /\ s10 = [r \in use.requests |-> [f \in use.files |-> {}]]
  BY DEF Voices!Init
<1>2. \A r \in use.requests : ~Voices(use)!Busy(r) BY <1>1 DEF Voices!Busy
<1>3. <<>> \in Seq(Voices(use)!Versions) OBVIOUS
<1>4. s6 \in [use.requests -> Seq(use.loads)] BY <1>1 DEF Voices!CacheAssumption
<1>6. Voices(use)!TypeOK
  <2>1. s1 \in [use.files -> Voices(use)!Versions] BY <1>1 DEF Voices!CacheAssumption, Voices!Versions
  <2>2. s10 \in [use.requests -> [use.files -> SUBSET Voices(use)!Versions]] BY <1>1
  <2> QED BY <1>1, <1>3, <1>4, <2>1, <2>2 DEF Voices!TypeOK
<1>7. Voices(use)!LocksHeld BY <1>1, <1>2 DEF Voices!LocksHeld
<1>9. Voices(use)!EntriesNoOlder /\ Voices(use)!OneVersion
  BY <1>1 DEF Voices!EntriesNoOlder, Voices!OneVersion
<1>10. Voices(use)!WithinLimit
  BY <1>1, FS_EmptySet, VoicesFinite, VoicesCardinality DEF Voices!WithinLimit, Voices!CacheAssumption
<1> QED BY <1>2, <1>6, <1>7, <1>9, <1>10 DEF Voices!IInv

(* A lock is taken, given back, or kept. *)
LEMMA VoicesTaken ==
  ASSUME NEW use, Voices(use)!CacheAssumption, Voices(use)!TypeOK, Voices(use)!LocksHeld,
         NEW r \in use.requests, ~Voices(use)!Busy(r), s6[r] # <<>>,
         s4[Voices(use)!LockOf(r)] = NoOne, s4' = [s4 EXCEPT ![Voices(use)!LockOf(r)] = r],
         s5' = [s5 EXCEPT ![r] = "identify"], s6' = s6
  PROVE  Voices(use)!LocksHeld'
<1>1. Voices(use)!LockOf(r) \in Voices(use)!Locks /\ NoOne \notin use.requests
  BY VoicesLoad DEF Voices!CacheAssumption
<1>2. PICK lock \in Voices(use)!Locks : lock = Voices(use)!LockOf(r) BY <1>1
<1>3. /\ s4'[lock] = r /\ \A l \in Voices(use)!Locks : l # lock => s4'[l] = s4[l]
      /\ s5'[r] = "identify" /\ \A q \in use.requests : q # r => s5'[q] = s5[q]
      /\ \A l \in Voices(use)!Locks : s4[l] \in use.requests \cup {NoOne}
  BY <1>2 DEF Voices!TypeOK
<1>4. \A q \in use.requests : Voices(use)!LockOf(q)' = Voices(use)!LockOf(q)
  BY DEF Voices!LockOf, Voices!Load
<1>5. ASSUME NEW q \in use.requests, Voices(use)!Busy(q)'
      PROVE  s6'[q] # <<>> /\ s4'[Voices(use)!LockOf(q)'] = q
  <2>1. CASE q = r BY <2>1, <1>2, <1>3, <1>4
  <2>2. CASE q # r
    <3>1. Voices(use)!Busy(q) BY <1>3, <1>5, <2>2 DEF Voices!Busy
    <3>2. s6[q] # <<>> /\ s4[Voices(use)!LockOf(q)] = q BY <3>1 DEF Voices!LocksHeld
    <3>3. Voices(use)!LockOf(q) \in Voices(use)!Locks BY <3>2, VoicesLoad
    <3>4. Voices(use)!LockOf(q) # lock BY <1>1, <1>2, <3>2
    <3> QED BY <1>3, <1>4, <3>2, <3>3, <3>4
  <2> QED BY <2>1, <2>2
<1>6. ASSUME NEW l \in Voices(use)!Locks, NEW q \in use.requests, s4'[l] = q
      PROVE  Voices(use)!Busy(q)' /\ Voices(use)!LockOf(q)' = l
  <2>1. CASE l = lock BY <2>1, <1>2, <1>3, <1>4, <1>6 DEF Voices!Busy
  <2>2. CASE l # lock
    <3>1. s4[l] = q /\ q # NoOne BY <1>1, <1>3, <1>6, <2>2
    <3>2. Voices(use)!Busy(q) /\ Voices(use)!LockOf(q) = l BY <3>1 DEF Voices!LocksHeld
    <3>3. q # r BY <3>2
    <3> QED BY <1>3, <1>4, <3>2, <3>3 DEF Voices!Busy
  <2> QED BY <2>1, <2>2
<1>7. \A l \in Voices(use)!Locks : s4'[l] \in use.requests \cup {NoOne} BY <1>3
<1> QED BY <1>5, <1>6, <1>7 DEF Voices!LocksHeld, Voices!Busy, Voices!LockOf, Voices!Load

LEMMA VoicesLeft ==
  ASSUME NEW use, Voices(use)!CacheAssumption, Voices(use)!TypeOK, Voices(use)!LocksHeld,
         NEW r \in use.requests, Voices(use)!Busy(r), NEW place \in {"idle", "speak", "failed"},
         Voices(use)!Leave(r, place), \A q \in use.requests : q # r => s6'[q] = s6[q]
  PROVE  Voices(use)!LocksHeld'
<1>1. Voices(use)!LockOf(r) \in Voices(use)!Locks /\ NoOne \notin use.requests /\ s4[Voices(use)!LockOf(r)] = r
  BY VoicesLoad DEF Voices!CacheAssumption, Voices!LocksHeld
<1>2. PICK lock \in Voices(use)!Locks : lock = Voices(use)!LockOf(r) BY <1>1
<1>3. /\ s4'[lock] = NoOne /\ \A l \in Voices(use)!Locks : l # lock => s4'[l] = s4[l]
      /\ s5'[r] = place /\ \A q \in use.requests : q # r => s5'[q] = s5[q]
      /\ \A l \in Voices(use)!Locks : s4[l] \in use.requests \cup {NoOne}
  BY <1>2 DEF Voices!TypeOK, Voices!Leave
<1>4. \A q \in use.requests : q # r => Voices(use)!LockOf(q)' = Voices(use)!LockOf(q)
  BY DEF Voices!LockOf, Voices!Load
<1>5. ASSUME NEW q \in use.requests, Voices(use)!Busy(q)'
      PROVE  s6'[q] # <<>> /\ s4'[Voices(use)!LockOf(q)'] = q
  <2>1. q # r BY <1>3, <1>5 DEF Voices!Busy
  <2>2. Voices(use)!Busy(q) BY <1>3, <1>5, <2>1 DEF Voices!Busy
  <2>3. s6[q] # <<>> /\ s4[Voices(use)!LockOf(q)] = q BY <2>2 DEF Voices!LocksHeld
  <2>4. Voices(use)!LockOf(q) \in Voices(use)!Locks BY <2>3, VoicesLoad
  <2>5. Voices(use)!LockOf(q) # lock BY <1>1, <1>2, <2>1, <2>3
  <2> QED BY <1>3, <1>4, <2>1, <2>3, <2>4, <2>5
<1>6. ASSUME NEW l \in Voices(use)!Locks, NEW q \in use.requests, s4'[l] = q
      PROVE  Voices(use)!Busy(q)' /\ Voices(use)!LockOf(q)' = l
  <2>1. l # lock /\ s4[l] = q /\ q # NoOne BY <1>1, <1>3, <1>6
  <2>2. Voices(use)!Busy(q) /\ Voices(use)!LockOf(q) = l BY <2>1 DEF Voices!LocksHeld
  <2>3. q # r BY <1>2, <2>1, <2>2
  <2> QED BY <1>3, <1>4, <2>2, <2>3 DEF Voices!Busy
<1>7. \A l \in Voices(use)!Locks : s4'[l] \in use.requests \cup {NoOne} BY <1>3
<1> QED BY <1>5, <1>6, <1>7 DEF Voices!LocksHeld, Voices!Busy, Voices!LockOf, Voices!Load

LEMMA VoicesHeld ==
  ASSUME NEW use, Voices(use)!TypeOK, Voices(use)!LocksHeld, UNCHANGED <<s4, s6>>,
         \A q \in use.requests : Voices(use)!Busy(q)' <=> Voices(use)!Busy(q)
  PROVE  Voices(use)!LocksHeld'
<1>1. \A q \in use.requests : Voices(use)!LockOf(q)' = Voices(use)!LockOf(q)
  BY DEF Voices!LockOf, Voices!Load
<1>2. \A q \in use.requests : Voices(use)!Busy(q)' => s6'[q] # <<>> /\ s4'[Voices(use)!LockOf(q)'] = q
  BY <1>1 DEF Voices!LocksHeld
<1>3. \A l \in Voices(use)!Locks : s4'[l] \in use.requests \cup {NoOne} BY DEF Voices!TypeOK
<1>4. \A l \in Voices(use)!Locks, q \in use.requests : s4'[l] = q /\ q # NoOne
        => Voices(use)!Busy(q)' /\ Voices(use)!LockOf(q)' = l
  BY <1>1 DEF Voices!LocksHeld
<1> QED BY <1>2, <1>3, <1>4 DEF Voices!LocksHeld, Voices!Busy, Voices!LockOf, Voices!Load

(* Two requests that look or load do so in two caches. *)
LEMMA VoicesApart ==
  ASSUME NEW use, Voices(use)!LocksHeld, NEW q \in use.requests, NEW r \in use.requests, q # r,
         Voices(use)!Busy(q), Voices(use)!Busy(r)
  PROVE  Voices(use)!Load(q).cache # Voices(use)!Load(r).cache
  BY DEF Voices!LocksHeld, Voices!LockOf

(* What another request does elsewhere. *)
LEMMA VoicesSame ==
  ASSUME NEW use, NEW q \in use.requests, Voices(use)!PartByPart(q), Voices(use)!SeenWhileLooking(q),
         s1' = s1, s5'[q] = s5[q], s6'[q] = s6[q], s7'[q] = s7[q], s8'[q] = s8[q], s10'[q] = s10[q],
         s3'[Voices(use)!Load(q).cache] = s3[Voices(use)!Load(q).cache]
  PROVE  Voices(use)!PartByPart(q)' /\ Voices(use)!SeenWhileLooking(q)'
<1>1. Voices(use)!Load(q)' = Voices(use)!Load(q) BY DEF Voices!Load
<1>2. Voices(use)!Parts(q)' = Voices(use)!Parts(q) BY <1>1 DEF Voices!Parts
<1>3. \A e : Voices(use)!EntryOf(q, e)' <=> Voices(use)!EntryOf(q, e) BY <1>1 DEF Voices!EntryOf
<1>4. Voices(use)!PartByPart(q)' BY <1>1, <1>2, <1>3 DEF Voices!PartByPart
<1>5. Voices(use)!SeenWhileLooking(q)' BY <1>2 DEF Voices!SeenWhileLooking
<1> QED BY <1>4, <1>5

LEMMA VoicesOneMoves ==
  ASSUME NEW use, Voices(use)!IInv, NEW r \in use.requests, s1' = s1,
         \A q \in use.requests : q # r =>
           /\ s5'[q] = s5[q] /\ s6'[q] = s6[q] /\ s7'[q] = s7[q] /\ s8'[q] = s8[q] /\ s10'[q] = s10[q]
           /\ Voices(use)!Busy(q) => s3'[Voices(use)!Load(q).cache] = s3[Voices(use)!Load(q).cache],
         Voices(use)!TypeOK', Voices(use)!LocksHeld', Voices(use)!EntriesNoOlder',
         Voices(use)!WithinLimit', Voices(use)!OneVersion',
         Voices(use)!Busy(r)' => Voices(use)!PartByPart(r)' /\ Voices(use)!SeenWhileLooking(r)'
  PROVE  Voices(use)!IInv'
<1>1. ASSUME NEW q \in use.requests, Voices(use)!Busy(q)', q # r
      PROVE  Voices(use)!PartByPart(q)' /\ Voices(use)!SeenWhileLooking(q)'
  <2>1. Voices(use)!Busy(q) BY <1>1 DEF Voices!Busy
  <2>2. Voices(use)!PartByPart(q) /\ Voices(use)!SeenWhileLooking(q) BY <2>1 DEF Voices!IInv
  <2> QED BY <1>1, <2>1, <2>2, VoicesSame
<1> QED BY <1>1 DEF Voices!IInv

(* A step that leaves the caches alone. *)
LEMMA VoicesCachesSame ==
  ASSUME NEW use, Voices(use)!IInv, s1' = s1, s3' = s3
  PROVE  Voices(use)!EntriesNoOlder' /\ Voices(use)!WithinLimit' /\ Voices(use)!OneVersion'
<1>1. Voices(use)!EntriesNoOlder' BY DEF Voices!IInv, Voices!EntriesNoOlder
<1>2. Voices(use)!WithinLimit' BY DEF Voices!IInv, Voices!WithinLimit
<1>3. Voices(use)!OneVersion' BY DEF Voices!IInv, Voices!OneVersion
<1> QED BY <1>1, <1>2, <1>3

LEMMA VoicesAcquire ==
  ASSUME NEW use, Voices(use)!CacheAssumption, Voices(use)!IInv, NEW r \in use.requests,
         Voices(use)!Acquire(r)
  PROVE  Voices(use)!IInv'
<1>1. /\ s5[r] = "idle" /\ s6[r] # <<>> /\ s4[Voices(use)!LockOf(r)] = NoOne
      /\ s4' = [s4 EXCEPT ![Voices(use)!LockOf(r)] = r] /\ s5' = [s5 EXCEPT ![r] = "identify"]
      /\ s7' = [s7 EXCEPT ![r] = <<>>] /\ s8' = [s8 EXCEPT ![r] = <<>>]
      /\ s10' = [s10 EXCEPT ![r] = [f \in use.files |-> {s1[f]}]]
      /\ UNCHANGED <<s1, s2, s3, s6, s9>>
  BY DEF Voices!Acquire
<1>2. Voices(use)!TypeOK /\ Voices(use)!LocksHeld BY DEF Voices!IInv
<1>3. /\ s5 \in [use.requests -> {"idle", "identify", "look", "read", "publish", "speak", "failed"}]
      /\ s7 \in [use.requests -> Seq(Voices(use)!Versions)] /\ s8 \in [use.requests -> Seq(Voices(use)!Versions)]
      /\ s10 \in [use.requests -> [use.files -> SUBSET Voices(use)!Versions]]
      /\ s1 \in [use.files -> Voices(use)!Versions]
  BY <1>2 DEF Voices!TypeOK
<1>4. ~Voices(use)!Busy(r) BY <1>1 DEF Voices!Busy
<1>5. Voices(use)!LocksHeld' BY <1>1, <1>2, <1>4, VoicesTaken
<1>6. Voices(use)!EntriesNoOlder' /\ Voices(use)!WithinLimit' /\ Voices(use)!OneVersion'
  BY <1>1, VoicesCachesSame
<1>7. <<>> \in Seq(Voices(use)!Versions) /\ Len(<<>>) = 0 OBVIOUS
<1>8. Voices(use)!TypeOK'
  <2>1. Voices(use)!LockOf(r) \in Voices(use)!Locks BY <1>1, <1>2, VoicesLoad
  <2>2. s4' \in [Voices(use)!Locks -> use.requests \cup {NoOne}] BY <1>1, <1>2, <2>1 DEF Voices!TypeOK
  <2>3. s7' \in [use.requests -> Seq(Voices(use)!Versions)] /\ s8' \in [use.requests -> Seq(Voices(use)!Versions)]
    BY <1>1, <1>3, <1>7
  <2>4. s5' \in [use.requests -> {"idle", "identify", "look", "read", "publish", "speak", "failed"}]
    BY <1>1, <1>3
  <2>5. s10' \in [use.requests -> [use.files -> SUBSET Voices(use)!Versions]] BY <1>1, <1>3
  <2> QED BY <1>1, <1>2, <2>2, <2>3, <2>4, <2>5 DEF Voices!TypeOK
<1>9. \A q \in use.requests : q # r =>
        s5'[q] = s5[q] /\ s6'[q] = s6[q] /\ s7'[q] = s7[q] /\ s8'[q] = s8[q] /\ s10'[q] = s10[q] /\ s3' = s3
  BY <1>1, <1>3
<1>10. s5'[r] = "identify" /\ s7'[r] = <<>> /\ s8'[r] = <<>> /\ \A f \in use.files : s10'[r][f] = {s1[f]}
  BY <1>1, <1>3
<1>11. Voices(use)!PartByPart(r)'
  <2>1. Voices(use)!Parts(r)' = Voices(use)!Parts(r) BY <1>1 DEF Voices!Parts, Voices!Load
  <2>2. Voices(use)!Parts(r) \in Seq(use.files) /\ Voices(use)!Parts(r) # <<>> BY <1>1, <1>2, VoicesLoad
  <2>3. Len(Voices(use)!Parts(r)) > 0 BY <2>2
  <2> QED BY <1>7, <1>10, <2>1, <2>3 DEF Voices!PartByPart
<1>12. Voices(use)!SeenWhileLooking(r)'
  <2>1. \A i \in 1 .. 0 : FALSE OBVIOUS
  <2> QED BY <1>1, <1>7, <1>10, <2>1 DEF Voices!SeenWhileLooking
<1> QED BY <1>1, <1>5, <1>6, <1>8, <1>9, <1>11, <1>12, VoicesOneMoves

LEMMA VoicesBusy ==
  ASSUME NEW use, Voices(use)!CacheAssumption, Voices(use)!IInv, NEW r \in use.requests, Voices(use)!Busy(r)
  PROVE  /\ Voices(use)!TypeOK /\ Voices(use)!LocksHeld
         /\ Voices(use)!PartByPart(r) /\ Voices(use)!SeenWhileLooking(r)
         /\ Voices(use)!Load(r) \in use.loads /\ Voices(use)!Load(r).cache \in Voices(use)!Caches
         /\ Voices(use)!LockOf(r) \in Voices(use)!Locks /\ s4[Voices(use)!LockOf(r)] = r
         /\ Voices(use)!Parts(r) \in Seq(use.files) /\ Len(Voices(use)!Parts(r)) > 0
         /\ s6[r] # <<>> /\ Tail(s6[r]) \in Seq(use.loads)
<1>1. Voices(use)!TypeOK /\ Voices(use)!LocksHeld /\ Voices(use)!PartByPart(r) /\ Voices(use)!SeenWhileLooking(r)
  BY DEF Voices!IInv
<1>2. s6[r] # <<>> /\ s4[Voices(use)!LockOf(r)] = r BY <1>1 DEF Voices!LocksHeld
<1>3. /\ Voices(use)!Load(r) \in use.loads /\ Voices(use)!Load(r).cache \in Voices(use)!Caches
      /\ Voices(use)!LockOf(r) \in Voices(use)!Locks /\ Tail(s6[r]) \in Seq(use.loads)
      /\ Voices(use)!Parts(r) \in Seq(use.files) /\ Voices(use)!Parts(r) # <<>>
  BY <1>1, <1>2, VoicesLoad
<1>4. Len(Voices(use)!Parts(r)) > 0 BY <1>3
<1> QED BY <1>1, <1>2, <1>3, <1>4

LEMMA VoicesTypes ==
  ASSUME NEW use, Voices(use)!TypeOK
  PROVE  /\ s1 \in [use.files -> Voices(use)!Versions]
         /\ s4 \in [Voices(use)!Locks -> use.requests \cup {NoOne}]
         /\ s5 \in [use.requests -> {"idle", "identify", "look", "read", "publish", "speak", "failed"}]
         /\ s6 \in [use.requests -> Seq(use.loads)]
         /\ s7 \in [use.requests -> Seq(Voices(use)!Versions)] /\ s8 \in [use.requests -> Seq(Voices(use)!Versions)]
         /\ s9 \in [use.requests -> Seq(Voices(use)!Versions)]
         /\ s10 \in [use.requests -> [use.files -> SUBSET Voices(use)!Versions]]
  BY DEF Voices!TypeOK

(* A request leaves without a voice. *)
LEMMA VoicesFailed ==
  ASSUME NEW use, Voices(use)!CacheAssumption, Voices(use)!IInv, NEW r \in use.requests, Voices(use)!Busy(r),
         Voices(use)!Leave(r, "failed"), UNCHANGED <<s1, s2, s3, s6, s7, s8, s9, s10>>
  PROVE  Voices(use)!IInv'
<1>1. Voices(use)!TypeOK /\ Voices(use)!LocksHeld /\ Voices(use)!LockOf(r) \in Voices(use)!Locks BY VoicesBusy
<1>2. s4' = [s4 EXCEPT ![Voices(use)!LockOf(r)] = NoOne] /\ s5' = [s5 EXCEPT ![r] = "failed"]
  BY DEF Voices!Leave
<1>3. Voices(use)!LocksHeld' BY <1>1, VoicesLeft
<1>4. Voices(use)!EntriesNoOlder' /\ Voices(use)!WithinLimit' /\ Voices(use)!OneVersion'
  BY VoicesCachesSame
<1>5. s4' \in [Voices(use)!Locks -> use.requests \cup {NoOne}]
      /\ s5' \in [use.requests -> {"idle", "identify", "look", "read", "publish", "speak", "failed"}]
  BY <1>1, <1>2, VoicesTypes
<1>6. Voices(use)!TypeOK' BY <1>1, <1>5 DEF Voices!TypeOK
<1>7. \A q \in use.requests : q # r => s5'[q] = s5[q] BY <1>1, <1>2, VoicesTypes
<1>8. ~Voices(use)!Busy(r)' BY <1>1, <1>2, VoicesTypes DEF Voices!Busy
<1> QED BY <1>3, <1>4, <1>6, <1>7, <1>8, VoicesOneMoves

LEMMA VoicesIdentify ==
  ASSUME NEW use, Voices(use)!CacheAssumption, Voices(use)!IInv, NEW r \in use.requests,
         Voices(use)!Identify(r)
  PROVE  Voices(use)!IInv'
<1>1. s5[r] = "identify" /\ Voices(use)!Busy(r) BY DEF Voices!Identify, Voices!Busy
<1>2. /\ Voices(use)!TypeOK /\ Voices(use)!LocksHeld
      /\ Voices(use)!PartByPart(r) /\ Voices(use)!SeenWhileLooking(r)
      /\ Voices(use)!Parts(r) \in Seq(use.files) /\ s6[r] # <<>>
  BY <1>1, VoicesBusy
<1>3. PICK n \in Nat : n = Len(s7[r]) /\ s7[r] \in Seq(Voices(use)!Versions) BY <1>2, VoicesTypes
<1>4. PICK m \in Nat : m = Len(Voices(use)!Parts(r)) BY <1>2
<1>5. n < m BY <1>1, <1>2, <1>3, <1>4 DEF Voices!PartByPart
<1>6. PICK part \in use.files : part = Voices(use)!Parts(r)[n + 1] BY <1>2, <1>4, <1>5
<1>7. CASE part \notin s2
  <2>1. Voices(use)!Leave(r, "failed") /\ UNCHANGED <<s1, s2, s3, s6, s7, s8, s9, s10>>
    BY <1>3, <1>6, <1>7 DEF Voices!Identify
  <2> QED BY <1>1, <2>1, VoicesFailed
<1>8. CASE part \in s2
  <2>1. /\ s7' = [s7 EXCEPT ![r] = Append(s7[r], s1[part])]
        /\ s5' = [s5 EXCEPT ![r] = IF Len(s7'[r]) = Len(Voices(use)!Parts(r)) THEN "look" ELSE "identify"]
        /\ UNCHANGED <<s1, s2, s3, s4, s6, s8, s9, s10>>
    BY <1>3, <1>6, <1>8 DEF Voices!Identify
  <2>2. s1[part] \in Voices(use)!Versions BY <1>2, VoicesTypes
  <2>3. /\ s7'[r] \in Seq(Voices(use)!Versions) /\ Len(s7'[r]) = n + 1
        /\ \A i \in 1 .. n : s7'[r][i] = s7[r][i]
        /\ s7'[r][n + 1] = s1[part]
    <3>1. s7'[r] = Append(s7[r], s1[part]) BY <1>2, <2>1, VoicesTypes
    <3> QED BY <3>1, <2>2, <1>3
  <2>4. s7' \in [use.requests -> Seq(Voices(use)!Versions)] /\ \A q \in use.requests : q # r => s7'[q] = s7[q]
    <3>1. Append(s7[r], s1[part]) \in Seq(Voices(use)!Versions) BY <1>3, <2>2
    <3> QED BY <3>1, <1>2, <2>1, VoicesTypes
  <2>5. s5'[r] = IF n + 1 = m THEN "look" ELSE "identify"
    BY <1>2, <1>4, <2>1, <2>3, VoicesTypes
  <2>6. s5' \in [use.requests -> {"idle", "identify", "look", "read", "publish", "speak", "failed"}]
        /\ \A q \in use.requests : q # r => s5'[q] = s5[q]
    BY <1>2, <2>1, VoicesTypes
  <2>7. \A q \in use.requests : Voices(use)!Busy(q)' <=> Voices(use)!Busy(q)
    BY <1>1, <2>5, <2>6 DEF Voices!Busy
  <2>8. Voices(use)!TypeOK' BY <1>2, <2>1, <2>4, <2>6 DEF Voices!TypeOK
  <2>9. Voices(use)!LocksHeld' BY <1>2, <2>1, <2>7, VoicesHeld
  <2>10. Voices(use)!EntriesNoOlder' /\ Voices(use)!WithinLimit' /\ Voices(use)!OneVersion'
    BY <2>1, VoicesCachesSame
  <2>11. Voices(use)!Parts(r)' = Voices(use)!Parts(r) BY <2>1 DEF Voices!Parts, Voices!Load
  <2>12. s8'[r] = <<>> BY <1>1, <1>2, <2>1 DEF Voices!PartByPart
  <2>13. Voices(use)!PartByPart(r)'
    BY <1>4, <1>5, <2>3, <2>5, <2>11, <2>12 DEF Voices!PartByPart
  <2>14. Voices(use)!SeenWhileLooking(r)'
    <3>1. \A f \in use.files : s1[f] \in s10[r][f] BY <1>2 DEF Voices!SeenWhileLooking
    <3>2. ASSUME NEW i \in 1 .. n + 1
          PROVE  /\ s7'[r][i] <= s1[Voices(use)!Parts(r)[i]]
                 /\ s7'[r][i] .. s1[Voices(use)!Parts(r)[i]] \subseteq s10[r][Voices(use)!Parts(r)[i]]
      <4>1. CASE i \in 1 .. n BY <4>1, <1>2, <1>3, <2>3 DEF Voices!SeenWhileLooking
      <4>2. CASE i = n + 1
        <5>1. s1[part] \in Nat BY <2>2 DEF Voices!Versions
        <5>2. s1[part] .. s1[part] = {s1[part]} BY <5>1
        <5> QED BY <4>2, <5>1, <5>2, <1>6, <2>3, <3>1
      <4> QED BY <4>1, <4>2
    <3>3. \A i \in 1 .. 0 : FALSE OBVIOUS
    <3> QED BY <2>1, <2>3, <2>11, <2>12, <3>1, <3>2, <3>3 DEF Voices!SeenWhileLooking
  <2> QED BY <2>1, <2>4, <2>6, <2>8, <2>9, <2>10, <2>13, <2>14, VoicesOneMoves
<1> QED BY <1>7, <1>8

(* A request gets what it asked for: nothing of it is older than what it looked up. *)
LEMMA VoicesFinish ==
  ASSUME NEW use, Voices(use)!CacheAssumption, Voices(use)!IInv, NEW r \in use.requests, Voices(use)!Busy(r),
         Len(s7[r]) = Len(Voices(use)!Parts(r)), NEW content \in Seq(Voices(use)!Versions),
         Len(content) = Len(Voices(use)!Parts(r)),
         \A i \in 1 .. Len(content) : s7[r][i] <= content[i] /\ content[i] <= s1[Voices(use)!Parts(r)[i]],
         Voices(use)!Finish(r, content)
  PROVE  /\ Voices(use)!LocksHeld' /\ Voices(use)!NeverStale /\ ~Voices(use)!Busy(r)'
         /\ s4' \in [Voices(use)!Locks -> use.requests \cup {NoOne}]
         /\ s5' \in [use.requests -> {"idle", "identify", "look", "read", "publish", "speak", "failed"}]
         /\ s6' \in [use.requests -> Seq(use.loads)]
         /\ s9' \in [use.requests -> Seq(Voices(use)!Versions)]
         /\ \A q \in use.requests : q # r => s5'[q] = s5[q] /\ s6'[q] = s6[q]
<1>1. /\ Voices(use)!TypeOK /\ Voices(use)!LocksHeld /\ Voices(use)!SeenWhileLooking(r)
      /\ Voices(use)!LockOf(r) \in Voices(use)!Locks /\ Tail(s6[r]) \in Seq(use.loads)
      /\ Voices(use)!Parts(r) \in Seq(use.files)
  BY VoicesBusy
<1>2. PICK place \in {"idle", "speak"} : Voices(use)!Leave(r, place)
  BY DEF Voices!Finish
<1>3. s9' = [s9 EXCEPT ![r] = content] /\ s6' = [s6 EXCEPT ![r] = Tail(s6[r])]
  BY DEF Voices!Finish
<1>4. s4' = [s4 EXCEPT ![Voices(use)!LockOf(r)] = NoOne] /\ s5' = [s5 EXCEPT ![r] = place]
  BY <1>2 DEF Voices!Leave
<1>5. /\ s6' \in [use.requests -> Seq(use.loads)] /\ s9' \in [use.requests -> Seq(Voices(use)!Versions)]
      /\ s9'[r] = content /\ \A q \in use.requests : q # r => s6'[q] = s6[q]
  BY <1>1, <1>3, VoicesTypes
<1>6. /\ s4' \in [Voices(use)!Locks -> use.requests \cup {NoOne}]
      /\ s5' \in [use.requests -> {"idle", "identify", "look", "read", "publish", "speak", "failed"}]
      /\ s5'[r] = place /\ \A q \in use.requests : q # r => s5'[q] = s5[q]
  BY <1>1, <1>4, VoicesTypes
<1>7. Voices(use)!LocksHeld' BY <1>1, <1>2, <1>5, VoicesLeft
<1>8. ASSUME NEW i \in DOMAIN Voices(use)!Parts(r)
      PROVE  s9'[r][i] \in s10[r][Voices(use)!Parts(r)[i]]
  <2>1. i \in 1 .. Len(s7[r]) /\ i \in 1 .. Len(content) BY <1>1
  <2>2. s7[r][i] .. s1[Voices(use)!Parts(r)[i]] \subseteq s10[r][Voices(use)!Parts(r)[i]]
    BY <1>1, <2>1 DEF Voices!SeenWhileLooking
  <2>3. s7[r] \in Seq(Voices(use)!Versions) /\ s1 \in [use.files -> Voices(use)!Versions]
    BY <1>1, VoicesTypes
  <2>4. Voices(use)!Parts(r)[i] \in use.files BY <1>1
  <2>5. s7[r][i] \in Nat /\ content[i] \in Nat /\ s1[Voices(use)!Parts(r)[i]] \in Nat
    <3>1. s7[r][i] \in Voices(use)!Versions BY <2>1, <2>3
    <3>2. content[i] \in Voices(use)!Versions BY <2>1
    <3>3. s1[Voices(use)!Parts(r)[i]] \in Voices(use)!Versions BY <2>3, <2>4
    <3>4. Voices(use)!Versions \subseteq Nat BY DEF Voices!Versions
    <3> QED BY <3>1, <3>2, <3>3, <3>4
  <2>6. content[i] \in s7[r][i] .. s1[Voices(use)!Parts(r)[i]] BY <2>1, <2>5
  <2> QED BY <1>5, <2>2, <2>6
<1>9. Voices(use)!NeverStale BY <1>5, <1>8 DEF Voices!NeverStale
<1>10. ~Voices(use)!Busy(r)' BY <1>6 DEF Voices!Busy
<1> QED BY <1>5, <1>6, <1>7, <1>9, <1>10

LEMMA VoicesLook ==
  ASSUME NEW use, Voices(use)!CacheAssumption, Voices(use)!IInv, NEW r \in use.requests, Voices(use)!Look(r)
  PROVE  Voices(use)!IInv' /\ Voices(use)!NeverStale
<1>1. s5[r] = "look" /\ Voices(use)!Busy(r) /\ UNCHANGED <<s1, s2, s3, s7, s8, s10>>
  BY DEF Voices!Look, Voices!Busy
<1>2. /\ Voices(use)!TypeOK /\ Voices(use)!LocksHeld
      /\ Voices(use)!PartByPart(r) /\ Voices(use)!SeenWhileLooking(r)
      /\ Voices(use)!Parts(r) \in Seq(use.files) /\ Len(Voices(use)!Parts(r)) > 0 /\ s6[r] # <<>>
      /\ Voices(use)!Load(r).cache \in Voices(use)!Caches
  BY <1>1, VoicesBusy
<1>3. s8[r] = <<>> /\ Len(s7[r]) = Len(Voices(use)!Parts(r))
  <2>1. s7[r] \in Seq(Voices(use)!Versions) BY <1>2, VoicesTypes
  <2>2. Len(s7[r]) \in Nat /\ Len(Voices(use)!Parts(r)) \in Nat BY <1>2, <2>1
  <2>3. s8[r] = <<>> /\ ~(Len(s7[r]) < Len(Voices(use)!Parts(r))) /\ Len(s7[r]) <= Len(Voices(use)!Parts(r))
    BY <1>1, <1>2 DEF Voices!PartByPart
  <2> QED BY <2>2, <2>3
<1>4. Voices(use)!EntriesNoOlder' /\ Voices(use)!WithinLimit' /\ Voices(use)!OneVersion'
  BY <1>1, VoicesCachesSame
<1>5. CASE /\ \A e \in s3[Voices(use)!Load(r).cache] : ~Voices(use)!EntryOf(r, e)
           /\ s5' = [s5 EXCEPT ![r] = "read"] /\ UNCHANGED <<s4, s6, s9>>
  <2>1. s5'[r] = "read" /\ (\A q \in use.requests : q # r => s5'[q] = s5[q])
        /\ s5' \in [use.requests -> {"idle", "identify", "look", "read", "publish", "speak", "failed"}]
    BY <1>2, <1>5, VoicesTypes
  <2>2. \A q \in use.requests : Voices(use)!Busy(q)' <=> Voices(use)!Busy(q)
    BY <1>1, <2>1 DEF Voices!Busy
  <2>3. Voices(use)!TypeOK' BY <1>1, <1>2, <1>5, <2>1 DEF Voices!TypeOK
  <2>4. Voices(use)!LocksHeld' BY <1>2, <1>5, <2>2, VoicesHeld
  <2>5. Voices(use)!Parts(r)' = Voices(use)!Parts(r) /\ Voices(use)!Load(r)' = Voices(use)!Load(r)
    BY <1>5 DEF Voices!Parts, Voices!Load
  <2>6. \A e : Voices(use)!EntryOf(r, e)' <=> Voices(use)!EntryOf(r, e)
    BY <1>1, <2>5 DEF Voices!EntryOf
  <2>7. Voices(use)!PartByPart(r)'
    <3>1. Len(<<>>) = 0 OBVIOUS
    <3> QED BY <1>1, <1>2, <1>3, <1>5, <2>1, <2>5, <2>6, <3>1 DEF Voices!PartByPart
  <2>8. Voices(use)!SeenWhileLooking(r)' BY <1>1, <1>2, <2>5 DEF Voices!SeenWhileLooking
  <2>9. Voices(use)!IInv' BY <1>1, <1>4, <1>5, <2>1, <2>3, <2>4, <2>7, <2>8, VoicesOneMoves
  <2>10. Voices(use)!NeverStale BY <1>5 DEF Voices!NeverStale
  <2> QED BY <2>9, <2>10
<1>6. ASSUME NEW e \in s3[Voices(use)!Load(r).cache], Voices(use)!EntryOf(r, e), Voices(use)!Finish(r, e.content)
      PROVE  Voices(use)!IInv' /\ Voices(use)!NeverStale
  <2>1. e.load = Voices(use)!Load(r) /\ e.id = s7[r] BY <1>6 DEF Voices!EntryOf
  <2>2. e.content \in Seq(Voices(use)!Versions) BY <1>2 DEF Voices!TypeOK
  <2>3. /\ Len(e.content) = Len(Voices(use)!Parts(r))
        /\ \A i \in 1 .. Len(e.content) : s7[r][i] <= e.content[i] /\ e.content[i] <= s1[Voices(use)!Parts(r)[i]]
    <3>1. Voices(use)!EntriesNoOlder BY DEF Voices!IInv
    <3>2. /\ Len(e.id) = Len(e.load.parts) /\ Len(e.content) = Len(e.load.parts)
          /\ \A i \in 1 .. Len(e.id) : e.id[i] <= e.content[i] /\ e.content[i] <= s1[e.load.parts[i]]
      BY <1>2, <3>1 DEF Voices!EntriesNoOlder
    <3> QED BY <2>1, <3>2 DEF Voices!Parts
  <2>4. /\ Voices(use)!LocksHeld' /\ Voices(use)!NeverStale /\ ~Voices(use)!Busy(r)'
        /\ s4' \in [Voices(use)!Locks -> use.requests \cup {NoOne}]
        /\ s5' \in [use.requests -> {"idle", "identify", "look", "read", "publish", "speak", "failed"}]
        /\ s6' \in [use.requests -> Seq(use.loads)]
        /\ s9' \in [use.requests -> Seq(Voices(use)!Versions)]
        /\ \A q \in use.requests : q # r => s5'[q] = s5[q] /\ s6'[q] = s6[q]
    BY <1>1, <1>3, <1>6, <2>2, <2>3, VoicesFinish
  <2>5. Voices(use)!TypeOK' BY <1>1, <1>2, <2>4 DEF Voices!TypeOK
  <2>6. Voices(use)!IInv' BY <1>1, <1>4, <2>4, <2>5, VoicesOneMoves
  <2> QED BY <2>4, <2>6
<1> QED BY <1>5, <1>6 DEF Voices!Look

LEMMA VoicesRead ==
  ASSUME NEW use, Voices(use)!CacheAssumption, Voices(use)!IInv, NEW r \in use.requests, Voices(use)!Read(r)
  PROVE  Voices(use)!IInv'
<1>1. s5[r] = "read" /\ Voices(use)!Busy(r) /\ UNCHANGED <<s1, s2, s3, s4, s6, s7, s9, s10>>
  BY DEF Voices!Read, Voices!Busy
<1>2. /\ Voices(use)!TypeOK /\ Voices(use)!LocksHeld
      /\ Voices(use)!PartByPart(r) /\ Voices(use)!SeenWhileLooking(r)
      /\ Voices(use)!Parts(r) \in Seq(use.files) /\ s6[r] # <<>>
  BY <1>1, VoicesBusy
<1>3. PICK n \in Nat : n = Len(s8[r]) /\ s8[r] \in Seq(Voices(use)!Versions) BY <1>2, VoicesTypes
<1>4. PICK m \in Nat : m = Len(Voices(use)!Parts(r)) BY <1>2
<1>5. n < m /\ Len(s7[r]) = m
  <2>1. s7[r] \in Seq(Voices(use)!Versions) BY <1>2, VoicesTypes
  <2>2. Len(s7[r]) \in Nat BY <2>1
  <2>3. n < m /\ Len(s7[r]) <= m /\ ~(Len(s7[r]) < m) BY <1>1, <1>2, <1>3, <1>4 DEF Voices!PartByPart
  <2> QED BY <2>2, <2>3
<1>6. PICK part \in use.files : part = Voices(use)!Parts(r)[n + 1] BY <1>2, <1>4, <1>5
<1>7. /\ s8' = [s8 EXCEPT ![r] = Append(s8[r], s1[part])]
      /\ s5' = [s5 EXCEPT ![r] = IF Len(s8'[r]) = Len(Voices(use)!Parts(r)) THEN "publish" ELSE "read"]
  BY <1>3, <1>6 DEF Voices!Read
<1>8. s1[part] \in Voices(use)!Versions BY <1>2, VoicesTypes
<1>9. /\ s8'[r] \in Seq(Voices(use)!Versions) /\ Len(s8'[r]) = n + 1
      /\ \A i \in 1 .. n : s8'[r][i] = s8[r][i]
      /\ s8'[r][n + 1] = s1[part]
  <2>1. s8'[r] = Append(s8[r], s1[part]) BY <1>2, <1>7, VoicesTypes
  <2> QED BY <2>1, <1>3, <1>8
<1>10. s8' \in [use.requests -> Seq(Voices(use)!Versions)] /\ \A q \in use.requests : q # r => s8'[q] = s8[q]
  <2>1. Append(s8[r], s1[part]) \in Seq(Voices(use)!Versions) BY <1>3, <1>8
  <2> QED BY <2>1, <1>2, <1>7, VoicesTypes
<1>11. s5'[r] = IF n + 1 = m THEN "publish" ELSE "read"
  BY <1>2, <1>4, <1>7, <1>9, VoicesTypes
<1>12. s5' \in [use.requests -> {"idle", "identify", "look", "read", "publish", "speak", "failed"}]
       /\ \A q \in use.requests : q # r => s5'[q] = s5[q]
  BY <1>2, <1>7, VoicesTypes
<1>13. \A q \in use.requests : Voices(use)!Busy(q)' <=> Voices(use)!Busy(q)
  BY <1>1, <1>11, <1>12 DEF Voices!Busy
<1>14. Voices(use)!TypeOK' BY <1>1, <1>2, <1>10, <1>12 DEF Voices!TypeOK
<1>15. Voices(use)!LocksHeld' BY <1>1, <1>2, <1>13, VoicesHeld
<1>16. Voices(use)!EntriesNoOlder' /\ Voices(use)!WithinLimit' /\ Voices(use)!OneVersion'
  BY <1>1, VoicesCachesSame
<1>17. Voices(use)!Parts(r)' = Voices(use)!Parts(r) /\ Voices(use)!Load(r)' = Voices(use)!Load(r)
  BY <1>1 DEF Voices!Parts, Voices!Load
<1>18. \A e : Voices(use)!EntryOf(r, e)' <=> Voices(use)!EntryOf(r, e)
  BY <1>1, <1>17 DEF Voices!EntryOf
<1>19. Voices(use)!PartByPart(r)'
  BY <1>1, <1>2, <1>4, <1>5, <1>9, <1>11, <1>17, <1>18 DEF Voices!PartByPart
<1>20. Voices(use)!SeenWhileLooking(r)'
  <2>1. ASSUME NEW i \in 1 .. n + 1
        PROVE  s7[r][i] <= s8'[r][i] /\ s8'[r][i] <= s1[Voices(use)!Parts(r)[i]]
    <3>1. CASE i \in 1 .. n BY <3>1, <1>2, <1>3, <1>9 DEF Voices!SeenWhileLooking
    <3>2. CASE i = n + 1
      <4>1. s7[r][i] <= s1[part] BY <3>2, <1>2, <1>5, <1>6 DEF Voices!SeenWhileLooking
      <4>2. s1[part] <= s1[part] BY <1>8 DEF Voices!Versions
      <4> QED BY <3>2, <4>1, <4>2, <1>6, <1>9
    <3> QED BY <3>1, <3>2
  <2> QED BY <2>1, <1>1, <1>2, <1>9, <1>17 DEF Voices!SeenWhileLooking
<1> QED BY <1>1, <1>10, <1>12, <1>14, <1>15, <1>16, <1>19, <1>20, VoicesOneMoves

LEMMA VoicesReadFails ==
  ASSUME NEW use, Voices(use)!CacheAssumption, Voices(use)!IInv, NEW r \in use.requests, Voices(use)!ReadFails(r)
  PROVE  Voices(use)!IInv'
<1>1. Voices(use)!Busy(r) BY DEF Voices!ReadFails, Voices!Busy
<1>2. Voices(use)!Leave(r, "failed") /\ UNCHANGED <<s1, s2, s3, s6, s7, s8, s9, s10>>
  BY DEF Voices!ReadFails
<1> QED BY <1>1, <1>2, VoicesFailed

(* A cache to which something new was added keeps its limit. *)
LEMMA VoicesFitting ==
  ASSUME NEW use, Voices(use)!CacheAssumption, NEW old, IsFiniteSet(old), Cardinality(old) <= use.limit,
         NEW new, new \notin old, NEW entries \in Voices(use)!Fitting(old \cup {new}, new)
  PROVE  entries \subseteq old \cup {new} /\ IsFiniteSet(entries) /\ Cardinality(entries) <= use.limit
<1>1. IsFiniteSet(old \cup {new}) /\ Cardinality(old \cup {new}) = Cardinality(old) + 1 /\ Cardinality(old) \in Nat
  BY FS_AddElement, FS_CardinalityType
<1>2. Voices(use)!Cardinality(old \cup {new}) = Cardinality(old \cup {new}) BY VoicesCardinality
<1>3. use.limit \in Nat BY DEF Voices!CacheAssumption
<1>4. CASE Cardinality(old \cup {new}) <= use.limit
  BY <1>1, <1>2, <1>4 DEF Voices!Fitting
<1>5. CASE ~(Cardinality(old \cup {new}) <= use.limit)
  <2>1. PICK e \in (old \cup {new}) \ {new} : entries = (old \cup {new}) \ {e}
    BY <1>2, <1>5 DEF Voices!Fitting
  <2>2. IsFiniteSet(entries) /\ Cardinality(entries) = Cardinality(old \cup {new}) - 1
    BY <1>1, <2>1, FS_RemoveElement
  <2> QED BY <1>1, <1>3, <2>1, <2>2
<1> QED BY <1>4, <1>5

LEMMA VoicesPublish ==
  ASSUME NEW use, Voices(use)!CacheAssumption, Voices(use)!IInv, NEW r \in use.requests, Voices(use)!Publish(r)
  PROVE  Voices(use)!IInv' /\ Voices(use)!NeverStale
<1>1. s5[r] = "publish" /\ Voices(use)!Busy(r) /\ UNCHANGED <<s1, s2, s7, s8, s10>>
  BY DEF Voices!Publish, Voices!Busy
<1>2. /\ Voices(use)!TypeOK /\ Voices(use)!LocksHeld
      /\ Voices(use)!PartByPart(r) /\ Voices(use)!SeenWhileLooking(r)
      /\ Voices(use)!Parts(r) \in Seq(use.files) /\ Len(Voices(use)!Parts(r)) > 0 /\ s6[r] # <<>>
      /\ Voices(use)!Load(r) \in use.loads
  BY <1>1, VoicesBusy
<1>3. PICK c \in Voices(use)!Caches : c = Voices(use)!Load(r).cache BY <1>1, VoicesBusy
<1>4. PICK new : new = [load |-> Voices(use)!Load(r), id |-> s7[r], content |-> s8[r]] OBVIOUS
<1>5. PICK old : old = {e \in s3[c] : Voices(use)!Kept(r, e)} OBVIOUS
<1>6. PICK entries \in Voices(use)!Fitting(old \cup {new}, new) : s3' = [s3 EXCEPT ![c] = entries]
  BY <1>3, <1>4, <1>5 DEF Voices!Publish
<1>7. Voices(use)!Finish(r, s8[r]) BY DEF Voices!Publish
<1>8. /\ s7[r] \in Seq(Voices(use)!Versions) /\ s8[r] \in Seq(Voices(use)!Versions)
      /\ Len(s8[r]) = Len(Voices(use)!Parts(r)) /\ Len(s7[r]) = Len(Voices(use)!Parts(r))
  <2>1. s7[r] \in Seq(Voices(use)!Versions) /\ s8[r] \in Seq(Voices(use)!Versions) BY <1>2, VoicesTypes
  <2>2. Len(s7[r]) \in Nat /\ Len(Voices(use)!Parts(r)) \in Nat BY <1>2, <2>1
  <2>3. /\ ~(Len(s7[r]) < Len(Voices(use)!Parts(r))) /\ Len(s7[r]) <= Len(Voices(use)!Parts(r))
        /\ Len(s8[r]) = Len(Voices(use)!Parts(r))
    BY <1>1, <1>2 DEF Voices!PartByPart
  <2> QED BY <2>1, <2>2, <2>3
<1>9. \A i \in 1 .. Len(s8[r]) : s7[r][i] <= s8[r][i] /\ s8[r][i] <= s1[Voices(use)!Parts(r)[i]]
  BY <1>2 DEF Voices!SeenWhileLooking
<1>10. /\ Voices(use)!LocksHeld' /\ Voices(use)!NeverStale /\ ~Voices(use)!Busy(r)'
       /\ s4' \in [Voices(use)!Locks -> use.requests \cup {NoOne}]
       /\ s5' \in [use.requests -> {"idle", "identify", "look", "read", "publish", "speak", "failed"}]
       /\ s6' \in [use.requests -> Seq(use.loads)]
       /\ s9' \in [use.requests -> Seq(Voices(use)!Versions)]
       /\ \A q \in use.requests : q # r => s5'[q] = s5[q] /\ s6'[q] = s6[q]
  BY <1>1, <1>7, <1>8, <1>9, VoicesFinish
<1>11. \A e \in s3[c] : e.load # new.load \/ e.id # new.id
  BY <1>1, <1>2, <1>3, <1>4 DEF Voices!PartByPart, Voices!EntryOf
<1>12. /\ DOMAIN s3 = Voices(use)!Caches /\ s3'[c] = entries
       /\ DOMAIN s3' = Voices(use)!Caches /\ \A d \in Voices(use)!Caches : d # c => s3'[d] = s3[d]
  BY <1>2, <1>6 DEF Voices!TypeOK
<1>13. entries \subseteq old \cup {new} /\ IsFiniteSet(entries) /\ Cardinality(entries) <= use.limit
  <2>1. IsFiniteSet(s3[c]) /\ Cardinality(s3[c]) <= use.limit
    BY VoicesFinite, VoicesCardinality DEF Voices!IInv, Voices!WithinLimit
  <2>2. IsFiniteSet(old) /\ Cardinality(old) <= Cardinality(s3[c]) BY <1>5, <2>1, FS_Subset
  <2>3. Cardinality(old) \in Nat /\ Cardinality(s3[c]) \in Nat /\ use.limit \in Nat
    BY <2>1, <2>2, FS_CardinalityType DEF Voices!CacheAssumption
  <2>4. Cardinality(old) <= use.limit BY <2>1, <2>2, <2>3
  <2>5. new \notin old BY <1>5, <1>11
  <2> QED BY <2>2, <2>4, <2>5, <1>6, VoicesFitting
<1>14. Voices(use)!WithinLimit'
  <2>1. \A d \in Voices(use)!Caches : IsFiniteSet(s3[d]) /\ Cardinality(s3[d]) <= use.limit
    BY VoicesFinite, VoicesCardinality DEF Voices!IInv, Voices!WithinLimit
  <2>2. \A d \in Voices(use)!Caches : IsFiniteSet(s3'[d]) /\ Cardinality(s3'[d]) <= use.limit
    BY <1>12, <1>13, <2>1
  <2> QED BY <2>2, VoicesFinite, VoicesCardinality DEF Voices!WithinLimit
<1>15. /\ new \in [load : use.loads, id : Seq(Voices(use)!Versions), content : Seq(Voices(use)!Versions)]
       /\ new.load.cache = c
  BY <1>2, <1>3, <1>4, <1>8
<1>16. Voices(use)!TypeOK'
  <2>1. \A d \in Voices(use)!Caches : \A e \in s3'[d] :
          /\ e \in [load : use.loads, id : Seq(Voices(use)!Versions), content : Seq(Voices(use)!Versions)]
          /\ e.load.cache = d
    <3>1. \A d \in Voices(use)!Caches : \A e \in s3[d] :
            /\ e \in [load : use.loads, id : Seq(Voices(use)!Versions), content : Seq(Voices(use)!Versions)]
            /\ e.load.cache = d
      BY <1>2 DEF Voices!TypeOK
    <3>2. \A d \in Voices(use)!Caches : \A e \in s3'[d] : e \in s3[d] \/ (e = new /\ d = c)
      BY <1>5, <1>12, <1>13
    <3> QED BY <1>15, <3>1, <3>2
  <2>2. s1' = s1 /\ s2' = s2 /\ s7' = s7 /\ s8' = s8 /\ s10' = s10 BY <1>1
  <2> QED BY <1>2, <1>10, <1>12, <2>1, <2>2 DEF Voices!TypeOK
<1>17. Voices(use)!EntriesNoOlder'
  <2>1. Voices(use)!EntriesNoOlder BY DEF Voices!IInv
  <2>2. /\ new.load.parts = Voices(use)!Parts(r) /\ new.id = s7[r] /\ new.content = s8[r]
    BY <1>4 DEF Voices!Parts
  <2>3. /\ Len(new.id) = Len(new.load.parts) /\ Len(new.content) = Len(new.load.parts)
        /\ \A i \in 1 .. Len(new.id) : new.id[i] <= new.content[i] /\ new.content[i] <= s1[new.load.parts[i]]
    BY <1>8, <1>9, <2>2
  <2>4. \A d \in Voices(use)!Caches : \A e \in s3'[d] : e \in s3[d] \/ e = new
    BY <1>5, <1>12, <1>13
  <2> QED BY <1>1, <2>1, <2>3, <2>4 DEF Voices!EntriesNoOlder
<1>18. Voices(use)!OneVersion'
  <2>1. Voices(use)!OneVersion BY DEF Voices!IInv
  <2>2. ASSUME NEW d \in Voices(use)!Caches, NEW e \in s3'[d], NEW f \in s3'[d], Voices(use)!SamePaths(e.load, f.load)
        PROVE  e.id = f.id /\ (e.load = f.load => e = f)
    <3>1. CASE e \in s3[d] /\ f \in s3[d] BY <2>1, <2>2, <3>1 DEF Voices!OneVersion
    <3>2. CASE e = new /\ f = new BY <3>2
    <3>3. ASSUME d = c, NEW g \in old, Voices(use)!SamePaths(g.load, new.load)
          PROVE  g.id = new.id /\ g.load # new.load
      <4>1. g \in s3[c] /\ Voices(use)!Kept(r, g) BY <1>5
      <4>2. new.load = Voices(use)!Load(r) /\ new.id = s7[r] BY <1>4
      <4>3. g.id = new.id BY <3>3, <4>1, <4>2 DEF Voices!Kept
      <4> QED BY <1>11, <4>1, <4>3
    <3>4. CASE e = new /\ f \in old /\ d = c
      <4>1. Voices(use)!SamePaths(f.load, new.load) BY <2>2, <3>4 DEF Voices!SamePaths
      <4> QED BY <3>3, <3>4, <4>1
    <3>5. CASE f = new /\ e \in old /\ d = c BY <2>2, <3>3, <3>5
    <3> QED BY <1>5, <1>12, <1>13, <3>1, <3>2, <3>4, <3>5
  <2> QED BY <2>2 DEF Voices!OneVersion, Voices!SamePaths
<1>19. ASSUME NEW q \in use.requests, q # r, Voices(use)!Busy(q)
       PROVE  s3'[Voices(use)!Load(q).cache] = s3[Voices(use)!Load(q).cache]
  <2>1. Voices(use)!Load(q).cache # c /\ Voices(use)!Load(q).cache \in Voices(use)!Caches
    BY <1>1, <1>2, <1>3, <1>19, VoicesApart, VoicesBusy
  <2> QED BY <1>12, <2>1
<1>20. Voices(use)!IInv'
  BY <1>1, <1>10, <1>14, <1>16, <1>17, <1>18, <1>19, VoicesOneMoves
<1> QED BY <1>10, <1>20

(* The files change under the requests: what a request may have seen only grows. *)
LEMMA VoicesInstall ==
  ASSUME NEW use, Voices(use)!CacheAssumption, Voices(use)!IInv, NEW f \in use.files, Voices(use)!Install(f)
  PROVE  Voices(use)!IInv' /\ Voices(use)!NeverStale
<1>1. /\ s1[f] < use.versions /\ s1' = [s1 EXCEPT ![f] = s1[f] + 1] /\ s2' = s2 \cup {f}
      /\ s10' = [q \in use.requests |-> [s10[q] EXCEPT ![f] = s10[q][f] \cup {s1'[f]}]]
      /\ UNCHANGED <<s3, s4, s5, s6, s7, s8, s9>>
  BY DEF Voices!Install
<1>2. Voices(use)!TypeOK /\ Voices(use)!LocksHeld /\ Voices(use)!EntriesNoOlder BY DEF Voices!IInv
<1>3. /\ s1 \in [use.files -> Voices(use)!Versions]
      /\ s10 \in [use.requests -> [use.files -> SUBSET Voices(use)!Versions]]
  BY <1>2, VoicesTypes
<1>4. /\ s1[f] \in Nat /\ s1[f] + 1 \in Voices(use)!Versions /\ s1'[f] = s1[f] + 1
      /\ \A g \in use.files : g # f => s1'[g] = s1[g]
  BY <1>1, <1>3 DEF Voices!Versions, Voices!CacheAssumption
<1>5. \A g \in use.files : s1[g] \in Nat /\ s1'[g] \in Nat /\ s1[g] <= s1'[g]
  BY <1>3, <1>4 DEF Voices!Versions
<1>6. \A q \in use.requests, g \in use.files :
        /\ s10[q][g] \subseteq s10'[q][g]
        /\ g = f => s10'[q][g] = s10[q][g] \cup {s1[f] + 1}
  BY <1>1, <1>3, <1>4
<1>7. Voices(use)!TypeOK'
  <2>1. s1' \in [use.files -> Voices(use)!Versions] BY <1>1, <1>3, <1>4
  <2>2. s10' \in [use.requests -> [use.files -> SUBSET Voices(use)!Versions]] BY <1>1, <1>3, <1>4
  <2>3. s2' \subseteq use.files BY <1>1, <1>2 DEF Voices!TypeOK
  <2>4. UNCHANGED <<s3, s4, s5, s6, s7, s8, s9>> BY <1>1
  <2> QED BY <1>2, <2>1, <2>2, <2>3, <2>4 DEF Voices!TypeOK
<1>8. Voices(use)!LocksHeld' BY <1>1, <1>2, VoicesHeld DEF Voices!Busy
<1>9. Voices(use)!EntriesNoOlder'
  <2>1. ASSUME NEW c \in Voices(use)!Caches, NEW e \in s3[c], NEW i \in 1 .. Len(e.id)
        PROVE  e.content[i] <= s1'[e.load.parts[i]]
    <3>1. /\ e.load.parts \in Seq(use.files) /\ e.id \in Seq(Voices(use)!Versions)
          /\ e.content \in Seq(Voices(use)!Versions)
      BY <1>2 DEF Voices!TypeOK, Voices!CacheAssumption
    <3>2. Len(e.id) = Len(e.load.parts) /\ Len(e.content) = Len(e.load.parts) /\ e.content[i] <= s1[e.load.parts[i]]
      BY <1>2 DEF Voices!EntriesNoOlder
    <3>3. e.load.parts[i] \in use.files /\ e.content[i] \in Voices(use)!Versions BY <3>1, <3>2
    <3>4. e.content[i] \in Nat BY <3>3 DEF Voices!Versions
    <3>5. PICK g \in use.files : g = e.load.parts[i] BY <3>3
    <3>6. e.content[i] <= s1[g] /\ s1[g] \in Nat /\ s1'[g] \in Nat /\ s1[g] <= s1'[g]
      BY <1>5, <3>2, <3>5
    <3>7. e.content[i] <= s1'[g] BY <3>4, <3>6
    <3> QED BY <3>5, <3>7
  <2> QED BY <1>1, <1>2, <2>1 DEF Voices!EntriesNoOlder
<1>10. Voices(use)!WithinLimit' /\ Voices(use)!OneVersion'
  BY <1>1 DEF Voices!IInv, Voices!WithinLimit, Voices!OneVersion
<1>11. ASSUME NEW q \in use.requests, Voices(use)!Busy(q)'
       PROVE  Voices(use)!PartByPart(q)' /\ Voices(use)!SeenWhileLooking(q)'
  <2>1. Voices(use)!Busy(q) BY <1>1, <1>11 DEF Voices!Busy
  <2>2. Voices(use)!PartByPart(q) /\ Voices(use)!SeenWhileLooking(q) /\ Voices(use)!Parts(q) \in Seq(use.files)
    BY <2>1, VoicesBusy
  <2>3. Voices(use)!Load(q)' = Voices(use)!Load(q) /\ Voices(use)!Parts(q)' = Voices(use)!Parts(q)
    BY <1>1 DEF Voices!Load, Voices!Parts
  <2>4. \A e : Voices(use)!EntryOf(q, e)' <=> Voices(use)!EntryOf(q, e) BY <1>1, <2>3 DEF Voices!EntryOf
  <2>5. Voices(use)!PartByPart(q)' BY <1>1, <2>2, <2>3, <2>4 DEF Voices!PartByPart
  <2>6. \A g \in use.files : s1'[g] \in s10'[q][g]
    <3>1. \A g \in use.files : s1[g] \in s10[q][g] BY <2>2 DEF Voices!SeenWhileLooking
    <3> QED BY <1>4, <1>6, <3>1
  <2>7. s7[q] \in Seq(Voices(use)!Versions) /\ s8[q] \in Seq(Voices(use)!Versions) BY <1>2, VoicesTypes
  <2>8. /\ Len(s7[q]) \in Nat /\ Len(s8[q]) \in Nat
        /\ Len(s7[q]) <= Len(Voices(use)!Parts(q)) /\ Len(s8[q]) <= Len(Voices(use)!Parts(q))
    BY <2>2, <2>7 DEF Voices!PartByPart
  <2>9. ASSUME NEW i \in 1 .. Len(s7[q])
        PROVE  /\ s7[q][i] <= s1'[Voices(use)!Parts(q)[i]]
               /\ s7[q][i] .. s1'[Voices(use)!Parts(q)[i]] \subseteq s10'[q][Voices(use)!Parts(q)[i]]
    <3>1. PICK g \in use.files : g = Voices(use)!Parts(q)[i] BY <2>2, <2>8
    <3>2. s7[q][i] <= s1[g] /\ s7[q][i] .. s1[g] \subseteq s10[q][g]
      BY <2>2, <3>1 DEF Voices!SeenWhileLooking
    <3>3. s7[q][i] \in Nat
      <4>1. s7[q][i] \in Voices(use)!Versions BY <2>7
      <4> QED BY <4>1 DEF Voices!Versions
    <3>4. s7[q][i] <= s1'[g] BY <1>5, <3>2, <3>3
    <3>5. s7[q][i] .. s1'[g] \subseteq s7[q][i] .. s1[g] \cup (IF g = f THEN {s1[f] + 1} ELSE {})
      BY <1>4, <1>5, <3>3
    <3>6. s7[q][i] .. s1'[g] \subseteq s10'[q][g] BY <1>6, <3>2, <3>5
    <3> QED BY <3>1, <3>4, <3>6
  <2>10. ASSUME NEW i \in 1 .. Len(s8[q])
         PROVE  s7[q][i] <= s8[q][i] /\ s8[q][i] <= s1'[Voices(use)!Parts(q)[i]]
    <3>1. PICK g \in use.files : g = Voices(use)!Parts(q)[i] BY <2>2, <2>8
    <3>2. s7[q][i] <= s8[q][i] /\ s8[q][i] <= s1[g] BY <2>2, <3>1 DEF Voices!SeenWhileLooking
    <3>3. s8[q][i] \in Nat
      <4>1. s8[q][i] \in Voices(use)!Versions BY <2>7
      <4> QED BY <4>1 DEF Voices!Versions
    <3>4. s8[q][i] <= s1'[g] BY <1>5, <3>2, <3>3
    <3> QED BY <3>1, <3>2, <3>4
  <2>11. s7' = s7 /\ s8' = s8 BY <1>1
  <2>12. Voices(use)!SeenWhileLooking(q)'
    BY <2>3, <2>6, <2>9, <2>10, <2>11 DEF Voices!SeenWhileLooking
  <2> QED BY <2>5, <2>12
<1>12. Voices(use)!NeverStale BY <1>1 DEF Voices!NeverStale
<1>13. Voices(use)!IInv' BY <1>7, <1>8, <1>9, <1>10, <1>11 DEF Voices!IInv
<1> QED BY <1>12, <1>13

LEMMA VoicesNext ==
  ASSUME NEW use, Voices(use)!CacheAssumption, Voices(use)!IInv, [Voices(use)!Next]_(Voices(use)!vars)
  PROVE  Voices(use)!IInv' /\ Voices(use)!NeverStale
<1>1. CASE Voices(use)!vars' = Voices(use)!vars \/ \E f \in use.files : Voices(use)!Uninstall(f)
  <2>1. /\ UNCHANGED <<s1, s3, s4, s5, s6, s7, s8, s9, s10>>
        /\ s2' \subseteq s2
    BY <1>1 DEF Voices!vars, Voices!requests, Voices!Uninstall
  <2>2. Voices(use)!NeverStale BY <2>1 DEF Voices!NeverStale
  <2>3. Voices(use)!EntriesNoOlder' /\ Voices(use)!WithinLimit' /\ Voices(use)!OneVersion'
    BY <2>1, VoicesCachesSame
  <2>4. Voices(use)!TypeOK' BY <2>1 DEF Voices!IInv, Voices!TypeOK
  <2>5. Voices(use)!TypeOK /\ Voices(use)!LocksHeld BY DEF Voices!IInv
  <2>6. \A q \in use.requests : Voices(use)!Busy(q)' <=> Voices(use)!Busy(q) BY <2>1 DEF Voices!Busy
  <2>7. Voices(use)!LocksHeld' BY <2>1, <2>5, <2>6, VoicesHeld
  <2>8. ASSUME NEW q \in use.requests, Voices(use)!Busy(q)'
        PROVE  Voices(use)!PartByPart(q)' /\ Voices(use)!SeenWhileLooking(q)'
    <3>1. Voices(use)!PartByPart(q) /\ Voices(use)!SeenWhileLooking(q) BY <2>6, <2>8 DEF Voices!IInv
    <3> QED BY <2>1, <3>1, VoicesSame
  <2>9. Voices(use)!IInv' BY <2>3, <2>4, <2>7, <2>8 DEF Voices!IInv
  <2> QED BY <2>2, <2>9
<1>2. ASSUME NEW f \in use.files, Voices(use)!Install(f) PROVE Voices(use)!IInv' /\ Voices(use)!NeverStale
  BY <1>2, VoicesInstall
<1>3. ASSUME NEW r \in use.requests, UNCHANGED <<s6>> PROVE Voices(use)!NeverStale
  BY <1>3 DEF Voices!NeverStale
<1>4. ASSUME NEW r \in use.requests, Voices(use)!Steps(r) PROVE Voices(use)!IInv' /\ Voices(use)!NeverStale
  <2>1. CASE Voices(use)!Acquire(r)
    <3>1. UNCHANGED <<s6>> BY <2>1 DEF Voices!Acquire
    <3> QED BY <2>1, <3>1, <1>3, VoicesAcquire
  <2>2. CASE Voices(use)!Identify(r)
    <3>1. UNCHANGED <<s6>> BY <2>2 DEF Voices!Identify
    <3> QED BY <2>2, <3>1, <1>3, VoicesIdentify
  <2>3. CASE Voices(use)!Look(r) BY <2>3, VoicesLook
  <2>4. CASE Voices(use)!Read(r)
    <3>1. UNCHANGED <<s6>> BY <2>4 DEF Voices!Read
    <3> QED BY <2>4, <3>1, <1>3, VoicesRead
  <2>5. CASE Voices(use)!ReadFails(r)
    <3>1. UNCHANGED <<s6>> BY <2>5 DEF Voices!ReadFails
    <3> QED BY <2>5, <3>1, <1>3, VoicesReadFails
  <2>6. CASE Voices(use)!Publish(r) BY <2>6, VoicesPublish
  <2> QED BY <1>4, <2>1, <2>2, <2>3, <2>4, <2>5, <2>6 DEF Voices!Steps
<1> QED BY <1>1, <1>2, <1>4 DEF Voices!Next

PiperInv == running = "piper" => Voices(Piper)!IInv
KokoroInv == running = "kokoro" => Voices(Kokoro)!IInv

LEMMA VoicesInductive ==
  /\ MediaInit => PiperInv /\ KokoroInv
  /\ PiperInv /\ KokoroInv /\ [MediaNext]_all => PiperInv' /\ KokoroInv'
<1>1. Voices(Piper)!CacheAssumption /\ Voices(Kokoro)!CacheAssumption BY MediaAssumption
<1>2. MediaInit => PiperInv /\ KokoroInv
  BY <1>1, VoicesStart, VoicesInit DEF PiperInv, KokoroInv
<1>3. ASSUME PiperInv, [MediaNext]_all PROVE PiperInv'
  <2> SUFFICES ASSUME running' = "piper" PROVE Voices(Piper)!IInv' BY DEF PiperInv
  <2> QED BY <1>1, <1>3, VoicesRuns, VoicesNext DEF PiperInv
<1>4. ASSUME KokoroInv, [MediaNext]_all PROVE KokoroInv'
  <2> SUFFICES ASSUME running' = "kokoro" PROVE Voices(Kokoro)!IInv' BY DEF KokoroInv
  <2> QED BY <1>1, <1>4, VoicesRuns, VoicesNext DEF KokoroInv
<1> QED BY <1>2, <1>3, <1>4

-----------------------------------------------------------------------------
(* Routing a request for speech *)

LEMMA RoutingRuns ==
  ASSUME [MediaNext]_all, running' = "routing"
  PROVE  running = "routing" /\ [Routing!Next]_(Routing!vars)
  BY DEF MediaNext, Step, all, slots, Routing!vars, Routing!answer

LEMMA RoutingStart == ASSUME MediaInit, running = "routing" PROVE Routing!Init
  BY DEF MediaInit, Launch

LEMMA RoutingTypes ==
  ASSUME Routing!TypeOK
  PROVE  /\ s1 \in [Routing!Voices -> {"good", "absent", "broken"}]
         /\ s2 \in [RoutedRequests -> Routing!Asked] /\ s3 \in [RoutedRequests -> Routing!Asked]
         /\ s4 \in [RoutedRequests -> {"admitted", "routed", "dispatched", "speaking", "failed"}]
         /\ s5 \in [RoutedRequests -> Routing!Backends \cup {Nothing}]
         /\ s6 \in [RoutedRequests -> Routing!Voices \cup {Nothing}]
         /\ s7 \in [RoutedRequests -> Routing!Languages \cup Routing!Voices \cup {Nothing}]
         /\ s8 \in [RoutedRequests -> BOOLEAN]
  BY DEF Routing!TypeOK

LEMMA RoutingInit ==
  ASSUME Routing!RoutingAssumption, Routing!Init
  PROVE  Routing!IInv
<1>1. Routing!TypeOK
  <2>1. /\ s1 \in [Routing!Voices -> {"good", "absent"}] /\ s2 \in [RoutedRequests -> Routing!Asked] /\ s3 = s2
        /\ s4 = [r \in RoutedRequests |-> "admitted"] /\ s5 = [r \in RoutedRequests |-> Nothing]
        /\ s6 = [r \in RoutedRequests |-> Nothing] /\ s7 = [r \in RoutedRequests |-> Nothing]
        /\ s8 = [r \in RoutedRequests |-> TRUE]
    BY DEF Routing!Init
  <2>2. Nothing \notin KokoroVoices /\ KokoroVoices \subseteq Routing!Voices
    BY DEF Routing!RoutingAssumption, Routing!Voices
  <2>3. s8 \in [RoutedRequests -> BOOLEAN] BY <2>1, Zenon
  <2>4. \A v \in KokoroVoices : s1[v] # "broken" BY <2>1, <2>2
  <2>5. /\ s1 \in [Routing!Voices -> {"good", "absent", "broken"}] /\ s3 \in [RoutedRequests -> Routing!Asked]
        /\ s4 \in [RoutedRequests -> {"admitted", "routed", "dispatched", "speaking", "failed"}]
    BY <2>1
  <2>6. \A r \in RoutedRequests : s4[r] = "admitted" /\ s6[r] = Nothing BY <2>1
  <2>7. /\ s5 \in [RoutedRequests -> Routing!Backends \cup {Nothing}]
        /\ s6 \in [RoutedRequests -> Routing!Voices \cup {Nothing}]
        /\ s7 \in [RoutedRequests -> Routing!Languages \cup Routing!Voices \cup {Nothing}]
    BY <2>1
  <2>8. s2 \in [RoutedRequests -> Routing!Asked] BY <2>1
  <2>9. \A r \in RoutedRequests :
          /\ s4[r] = "speaking" <=> s6[r] # Nothing
          /\ s4[r] = "speaking" => s7[r] # Nothing
          /\ s5[r] = "piper" => s6[r] \notin KokoroVoices
    BY <2>2, <2>6
  <2> QED BY <2>3, <2>4, <2>5, <2>7, <2>8, <2>9, Zenon DEF Routing!TypeOK
<1>2. \A r \in RoutedRequests : s4[r] = "admitted" /\ s3[r] = s2[r] BY DEF Routing!Init
<1>3. Routing!RoutedWhole BY <1>2 DEF Routing!RoutedWhole
<1>4. \A r \in RoutedRequests :
        Routing!RoutedAsItStands(r) /\ Routing!DispatchedAsItStands(r) /\ Routing!SpokenAsItStands(r)
  BY <1>2 DEF Routing!RoutedAsItStands, Routing!DispatchedAsItStands, Routing!SpokenAsItStands
<1> QED BY <1>1, <1>3, <1>4 DEF Routing!IInv

(* As long as the voices stay, the same parameters lead to the same choice. *)
LEMMA RoutingStands ==
  ASSUME s1' = s1
  PROVE  /\ Routing!Readable' <=> Routing!Readable
         /\ Routing!Registered' = Routing!Registered
         /\ \A p : Routing!ResolveBackend(p)' = Routing!ResolveBackend(p)
         /\ \A p : Routing!PiperChoice(p)' = Routing!PiperChoice(p)
         /\ \A p : Routing!KokoroChoice(p)' = Routing!KokoroChoice(p)
<1>1. (Routing!Readable' <=> Routing!Readable) /\ Routing!Registered' = Routing!Registered
  BY DEF Routing!Readable, Routing!Registered
<1>2. ASSUME NEW p PROVE Routing!ResolveBackend(p)' = Routing!ResolveBackend(p)
  BY <1>1 DEF Routing!ResolveBackend, Routing!Lookup
<1>3. ASSUME NEW p PROVE Routing!PiperChoice(p)' = Routing!PiperChoice(p)
  BY <1>1 DEF Routing!PiperChoice
<1>4. ASSUME NEW p PROVE Routing!KokoroChoice(p)' = Routing!KokoroChoice(p)
  BY <1>1 DEF Routing!KokoroChoice
<1> QED BY <1>1, <1>2, <1>3, <1>4

LEMMA RoutingSame ==
  ASSUME NEW r \in RoutedRequests, s1' = s1, s2'[r] = s2[r], s3'[r] = s3[r], s4'[r] = s4[r],
         s5'[r] = s5[r], s6'[r] = s6[r], s8'[r] = s8[r],
         Routing!RoutedAsItStands(r), Routing!DispatchedAsItStands(r), Routing!SpokenAsItStands(r)
  PROVE  Routing!RoutedAsItStands(r)' /\ Routing!DispatchedAsItStands(r)' /\ Routing!SpokenAsItStands(r)'
<1>1. Routing!ResolveBackend(s3[r])' = Routing!ResolveBackend(s3[r]) BY RoutingStands
<1>2. Routing!Choice(r)' = Routing!Choice(r) BY RoutingStands DEF Routing!Choice
<1>3. Routing!Routed(r)' <=> Routing!Routed(r) BY DEF Routing!Routed
<1>4. Routing!RoutedAsItStands(r)' BY <1>3, RoutingStands DEF Routing!RoutedAsItStands
<1>5. Routing!DispatchedAsItStands(r)' BY <1>1, RoutingStands DEF Routing!DispatchedAsItStands, Routing!ByModel
<1>6. Routing!SpokenAsItStands(r)' BY <1>1, <1>2, RoutingStands DEF Routing!SpokenAsItStands, Routing!ByModel
<1> QED BY <1>4, <1>5, <1>6

(* Nobody but r moves, and the voices stay. *)
LEMMA RoutingOneMoves ==
  ASSUME Routing!IInv, NEW r \in RoutedRequests, s1' = s1, s2' = s2, s8' = s8,
         \A q \in RoutedRequests : q # r =>
           s3'[q] = s3[q] /\ s4'[q] = s4[q] /\ s5'[q] = s5[q] /\ s6'[q] = s6[q] /\ s7'[q] = s7[q],
         Routing!TypeOK',
         s4'[r] = "speaking" /\ s3'[r] # s2[r] => Routing!Routed(r)' /\ s6'[r] = s3'[r].voice /\ s7'[r] = s3'[r].language,
         Routing!RoutedAsItStands(r)', Routing!DispatchedAsItStands(r)', Routing!SpokenAsItStands(r)'
  PROVE  Routing!IInv'
<1>1. ASSUME NEW q \in RoutedRequests
      PROVE  Routing!RoutedAsItStands(q)' /\ Routing!DispatchedAsItStands(q)' /\ Routing!SpokenAsItStands(q)'
  BY RoutingSame DEF Routing!IInv
<1>2. Routing!RoutedWhole' BY DEF Routing!IInv, Routing!RoutedWhole, Routing!Routed
<1> QED BY <1>1, <1>2 DEF Routing!IInv

LEMMA RoutingRoute ==
  ASSUME Routing!RoutingAssumption, Routing!IInv, NEW r \in RoutedRequests, Routing!Route(r)
  PROVE  Routing!IInv'
<1>1. /\ s4[r] = "admitted" /\ s4' = [s4 EXCEPT ![r] = "routed"]
      /\ UNCHANGED <<s1, s2, s5, s6, s7, s8>>
  BY DEF Routing!Route, Routing!Stop, Routing!answer
<1>2. Routing!TypeOK /\ Routing!RoutedAsItStands(r) /\ s3[r] = s2[r] /\ s2[r] \in Routing!Asked
  BY <1>1, RoutingTypes DEF Routing!IInv, Routing!RoutedAsItStands
<1>3. /\ s4'[r] = "routed" /\ (\A q \in RoutedRequests : q # r => s4'[q] = s4[q])
      /\ s4' \in [RoutedRequests -> {"admitted", "routed", "dispatched", "speaking", "failed"}]
  BY <1>1, <1>2, RoutingTypes
<1>4. s3' = s3 \/ (Routing!Floor(r) /\ s3' = [s3 EXCEPT ![r] = [s3[r] EXCEPT
                     !.voice = LanguageVoices[s2[r].detected], !.language = s2[r].detected, !.model = "auto"]])
  BY DEF Routing!Route
<1>5. ASSUME s3' \in [RoutedRequests -> Routing!Asked], \A q \in RoutedRequests : q # r => s3'[q] = s3[q],
             s3'[r] = s2[r] \/ (Routing!Routed(r)' /\ Routing!Floor(r))
      PROVE  Routing!IInv'
  <2>1. Routing!TypeOK' BY <1>1, <1>2, <1>3, <1>5 DEF Routing!TypeOK
  <2>2. Routing!RoutedAsItStands(r)'
    <3>1. Routing!Floor(r) => Routing!Readable /\ LanguageVoices[s2[r].detected] \in Routing!Registered
      BY DEF Routing!Floor
    <3>2. Routing!Routed(r)' => s3'[r].voice = LanguageVoices[s2[r].detected] BY <1>1 DEF Routing!Routed
    <3> QED BY <1>1, <1>3, <1>5, <3>1, <3>2, RoutingStands DEF Routing!RoutedAsItStands
  <2>3. Routing!DispatchedAsItStands(r)' /\ Routing!SpokenAsItStands(r)'
    BY <1>3 DEF Routing!DispatchedAsItStands, Routing!SpokenAsItStands
  <2> QED BY <1>1, <1>3, <1>5, <2>1, <2>2, <2>3, RoutingOneMoves
<1>6. CASE s3' = s3 BY <1>2, <1>5, <1>6, RoutingTypes
<1>7. CASE Routing!Floor(r) /\ s3' # s3
  <2>1. PICK p : p = [s3[r] EXCEPT !.voice = LanguageVoices[s2[r].detected], !.language = s2[r].detected, !.model = "auto"]
    OBVIOUS
  <2>2. s3' = [s3 EXCEPT ![r] = p] BY <1>4, <1>7, <2>1
  <2>3. /\ s2[r].routing /\ s2[r].detected # Nothing /\ LanguageVoices[s2[r].detected] \in Routing!Voices
    BY <1>7 DEF Routing!Floor, Routing!Registered
  <2>4. s2[r].detected \in Routing!Languages BY <1>2, <2>3 DEF Routing!Asked
  <2>5. LanguageVoices[s2[r].detected] \in Names BY <2>3 DEF Routing!RoutingAssumption
  <2>6. s3[r] \in [voice : Names \cup {Nothing}, language : Routing!Languages \cup {Nothing},
                   model : Routing!Models, routing : BOOLEAN, detected : Routing!Languages \cup {Nothing}]
    BY <1>2 DEF Routing!Asked
  <2>7. /\ p.voice = LanguageVoices[s2[r].detected] /\ p.language = s2[r].detected
        /\ p.model = "auto" /\ p.routing = s3[r].routing /\ p.detected = s3[r].detected
        /\ p = [voice |-> p.voice, language |-> p.language, model |-> p.model,
                routing |-> p.routing, detected |-> p.detected]
    BY <2>1, <2>6
  <2>8. p \in Routing!Asked BY <2>4, <2>5, <2>6, <2>7 DEF Routing!Asked, Routing!Models
  <2>9. s3' \in [RoutedRequests -> Routing!Asked] /\ s3'[r] = p /\ \A q \in RoutedRequests : q # r => s3'[q] = s3[q]
    BY <1>2, <2>2, <2>8, RoutingTypes
  <2>10. Routing!Routed(r)' BY <1>1, <2>3, <2>7, <2>9 DEF Routing!Routed
  <2> QED BY <1>5, <1>7, <2>9, <2>10
<1> QED BY <1>4, <1>6, <1>7

LEMMA RoutingDispatch ==
  ASSUME Routing!RoutingAssumption, Routing!IInv, NEW r \in RoutedRequests, Routing!Dispatch(r)
  PROVE  Routing!IInv'
<1>1. s4[r] = "routed" /\ UNCHANGED <<s1, s2, s3, s6, s7, s8>>
  BY DEF Routing!Dispatch, Routing!Stop
<1>2. Routing!TypeOK /\ Routing!RoutedAsItStands(r) BY DEF Routing!IInv
<1>3. CASE Routing!Readable
  <2>1. PICK name \in Routing!Backends : name = Routing!ByModel(Routing!ResolveBackend(s3[r]))
    <3>1. s3[r].model \in Routing!Models BY <1>2, RoutingTypes DEF Routing!Asked
    <3> QED BY <3>1 DEF Routing!ByModel, Routing!ResolveBackend, Routing!OwnerOf, Routing!Backends,
               Routing!AutoModels, Routing!Models, Routing!RoutingAssumption
  <2>2. s5' = [s5 EXCEPT ![r] = name] /\ s4' = [s4 EXCEPT ![r] = "dispatched"]
    BY <1>3, <2>1 DEF Routing!Dispatch, Routing!Stop
  <2>3. /\ s5' \in [RoutedRequests -> Routing!Backends \cup {Nothing}] /\ s5'[r] = name
        /\ s4' \in [RoutedRequests -> {"admitted", "routed", "dispatched", "speaking", "failed"}]
        /\ s4'[r] = "dispatched" /\ \A q \in RoutedRequests : q # r => s4'[q] = s4[q] /\ s5'[q] = s5[q]
    BY <1>2, <2>2, RoutingTypes
  <2>4. Routing!TypeOK'
    <3>1. s6[r] = Nothing BY <1>1, <1>2 DEF Routing!TypeOK
    <3>2. Nothing \notin KokoroVoices BY DEF Routing!RoutingAssumption, Routing!Voices
    <3>3. \A q \in RoutedRequests : s5'[q] = "piper" => s6[q] \notin KokoroVoices
      BY <1>2, <2>3, <3>1, <3>2 DEF Routing!TypeOK
    <3>4. \A q \in RoutedRequests : s4'[q] = "speaking" <=> s4[q] = "speaking" BY <1>1, <2>3
    <3> QED BY <1>1, <1>2, <2>3, <3>3, <3>4 DEF Routing!TypeOK
  <2>5. Routing!RoutedAsItStands(r)'
    BY <1>1, <1>2, <2>3, RoutingStands DEF Routing!RoutedAsItStands, Routing!Routed
  <2>6. Routing!DispatchedAsItStands(r)'
    <3>1. Routing!ResolveBackend(s3[r])' = Routing!ResolveBackend(s3[r]) BY <1>1, RoutingStands
    <3> QED BY <1>1, <1>3, <2>1, <2>3, <3>1, RoutingStands DEF Routing!DispatchedAsItStands, Routing!ByModel
  <2>7. Routing!SpokenAsItStands(r)' BY <2>3 DEF Routing!SpokenAsItStands
  <2> QED BY <1>1, <2>3, <2>4, <2>5, <2>6, <2>7, RoutingOneMoves
<1>4. CASE ~Routing!Readable
  <2>1. s5' = s5 /\ s4' = [s4 EXCEPT ![r] = "failed"]
    BY <1>4 DEF Routing!Dispatch, Routing!Stop
  <2>2. /\ s4' \in [RoutedRequests -> {"admitted", "routed", "dispatched", "speaking", "failed"}]
        /\ s4'[r] = "failed" /\ \A q \in RoutedRequests : q # r => s4'[q] = s4[q]
    BY <1>2, <2>1, RoutingTypes
  <2>3. Routing!TypeOK'
    <3>1. \A q \in RoutedRequests : s4'[q] = "speaking" <=> s4[q] = "speaking" BY <1>1, <2>2
    <3> QED BY <1>1, <1>2, <2>1, <2>2, <3>1 DEF Routing!TypeOK
  <2>4. Routing!RoutedAsItStands(r)'
    BY <1>1, <1>2, <2>2, RoutingStands DEF Routing!RoutedAsItStands, Routing!Routed
  <2>5. Routing!DispatchedAsItStands(r)' BY <2>2 DEF Routing!DispatchedAsItStands
  <2>6. Routing!SpokenAsItStands(r)' BY <1>1, <1>4, <2>2, RoutingStands DEF Routing!SpokenAsItStands
  <2> QED BY <1>1, <2>1, <2>2, <2>3, <2>4, <2>5, <2>6, RoutingOneMoves
<1> QED BY <1>3, <1>4

(* A voice that routing chose means itself, to either back end. *)
LEMMA RoutingMeans ==
  ASSUME Routing!RoutingAssumption, NEW p \in Routing!Asked, p.voice # Nothing
  PROVE  /\ \A v \in Routing!KokoroChoice(p) : v = Means[p.voice] /\ v \in KokoroVoices
         /\ \A v \in Routing!PiperChoice(p) : v \in PiperVoices
         /\ Means[p.voice] \in Routing!Registered \cap KokoroVoices => Routing!KokoroChoice(p) = {Means[p.voice]}
         /\ Means[p.voice] \in Routing!Registered \cap PiperVoices => Routing!PiperChoice(p) = {Means[p.voice]}
         /\ p.voice \in Routing!Voices => \A v \in Routing!PiperChoice(p) : v = p.voice
<1>1. p.voice \in Names BY DEF Routing!Asked
<1>2. p.voice \in Routing!Voices => Means[p.voice] = p.voice /\ p.voice \notin Routing!Languages
  BY DEF Routing!RoutingAssumption
<1>3. Routing!Registered \subseteq Routing!Voices BY DEF Routing!Registered
<1>4. Nothing \notin Routing!Voices BY DEF Routing!RoutingAssumption
<1>5. /\ \A v \in Routing!KokoroChoice(p) : v = Means[p.voice] /\ v \in KokoroVoices
      /\ Means[p.voice] \in Routing!Registered \cap KokoroVoices => Routing!KokoroChoice(p) = {Means[p.voice]}
  BY DEF Routing!KokoroChoice
<1>6. /\ \A v \in Routing!PiperChoice(p) : v \in PiperVoices
      /\ Means[p.voice] \in Routing!Registered \cap PiperVoices => Routing!PiperChoice(p) = {Means[p.voice]}
  BY DEF Routing!PiperChoice
<1>7. p.voice \in Routing!Voices => \A v \in Routing!PiperChoice(p) : v = p.voice
  BY <1>2, <1>3, <1>4 DEF Routing!PiperChoice
<1> QED BY <1>5, <1>6, <1>7

LEMMA RoutingChosen ==
  ASSUME NEW p
  PROVE  /\ Routing!KokoroChoice(p) \subseteq Routing!Registered \cap KokoroVoices
         /\ Routing!PiperChoice(p) \subseteq Routing!Registered \cap PiperVoices
<1>1. Routing!KokoroChoice(p) \subseteq Routing!Registered \cap KokoroVoices BY DEF Routing!KokoroChoice
<1>2. Routing!PiperChoice(p) \subseteq Routing!Registered \cap PiperVoices BY DEF Routing!PiperChoice
<1> QED BY <1>1, <1>2

LEMMA RoutingSpeak ==
  ASSUME Routing!RoutingAssumption, Routing!IInv, NEW r \in RoutedRequests, Routing!Speak(r)
  PROVE  Routing!IInv'
<1>1. s4[r] = "dispatched" /\ UNCHANGED <<s1, s2, s3, s5, s8>>
  BY DEF Routing!Speak, Routing!Stop
<1>2. /\ Routing!TypeOK /\ Routing!RoutedAsItStands(r) /\ Routing!DispatchedAsItStands(r)
      /\ s5[r] \in Routing!Backends /\ s3[r] \in Routing!Asked
  BY <1>1, RoutingTypes DEF Routing!IInv, Routing!DispatchedAsItStands
<1>3. /\ Routing!Choice(r) \subseteq Routing!Voices /\ Nothing \notin Routing!Voices
      /\ s5[r] = "piper" => Routing!Choice(r) \cap KokoroVoices = {}
  BY RoutingChosen DEF Routing!Choice, Routing!RoutingAssumption, Routing!Voices
<1>4. Routing!Choice(r)' = Routing!Choice(r) /\ Routing!ResolveBackend(s3[r])' = Routing!ResolveBackend(s3[r])
  BY <1>1, RoutingStands DEF Routing!Choice
<1>5. ASSUME Routing!TypeOK', s4'[r] \in {"speaking", "failed"},
             \A q \in RoutedRequests : q # r => s4'[q] = s4[q] /\ s6'[q] = s6[q] /\ s7'[q] = s7[q],
             s4'[r] = "failed" => Routing!Choice(r) = {}, s4'[r] = "speaking" => s6'[r] \in Routing!Choice(r),
             s4'[r] = "speaking" /\ s3[r].language # Nothing => s7'[r] = s3[r].language
      PROVE  Routing!IInv'
  <2>1. Routing!RoutedAsItStands(r)'
    BY <1>1, <1>2, <1>5, RoutingStands DEF Routing!RoutedAsItStands, Routing!Routed
  <2>2. Routing!DispatchedAsItStands(r)'
    BY <1>1, <1>2, <1>4, <1>5, RoutingStands DEF Routing!DispatchedAsItStands, Routing!ByModel
  <2>3. Routing!SpokenAsItStands(r)'
    BY <1>1, <1>2, <1>4, <1>5, RoutingStands DEF Routing!SpokenAsItStands, Routing!DispatchedAsItStands, Routing!ByModel
  <2>4. ASSUME s4'[r] = "speaking", s3'[r] # s2[r]
        PROVE  Routing!Routed(r)' /\ s6'[r] = s3'[r].voice /\ s7'[r] = s3'[r].language
    <3>1. Routing!Routed(r) BY <1>1, <1>2, <2>4 DEF Routing!RoutedAsItStands
    <3>2. s3[r].voice \in Routing!Voices /\ s3[r].voice # Nothing /\ s3[r].language # Nothing
      BY <1>3, <3>1 DEF Routing!Routed
    <3>3. s3[r].voice = Means[s3[r].voice] BY <3>2 DEF Routing!RoutingAssumption
    <3>4. s6'[r] = s3[r].voice
      BY <1>2, <1>5, <2>4, <3>2, <3>3, RoutingMeans DEF Routing!Choice
    <3>5. Routing!Routed(r)' BY <1>1, <3>1 DEF Routing!Routed
    <3> QED BY <1>1, <1>5, <2>4, <3>2, <3>4, <3>5
  <2> QED BY <1>1, <1>5, <2>1, <2>2, <2>3, <2>4, RoutingOneMoves
<1>6. CASE Routing!Choice(r) = {} /\ UNCHANGED <<s6, s7>> /\ Routing!Stop(r, "failed")
  <2>1. s4' = [s4 EXCEPT ![r] = "failed"] BY <1>6 DEF Routing!Stop
  <2>2. /\ s4' \in [RoutedRequests -> {"admitted", "routed", "dispatched", "speaking", "failed"}]
        /\ s4'[r] = "failed" /\ \A q \in RoutedRequests : q # r => s4'[q] = s4[q]
    BY <1>2, <2>1, RoutingTypes
  <2>3. Routing!TypeOK'
    <3>1. \A q \in RoutedRequests : s4'[q] = "speaking" <=> s4[q] = "speaking" BY <1>1, <2>2
    <3> QED BY <1>1, <1>2, <1>6, <2>2, <3>1 DEF Routing!TypeOK
  <2> QED BY <1>5, <1>6, <2>2, <2>3
<1>7. ASSUME NEW v \in Routing!Choice(r), Routing!Stop(r, "speaking"), s6' = [s6 EXCEPT ![r] = v],
             s7' = [s7 EXCEPT ![r] = IF s3[r].language # Nothing THEN s3[r].language ELSE v]
      PROVE  Routing!IInv'
  <2>1. s4' = [s4 EXCEPT ![r] = "speaking"] BY <1>7 DEF Routing!Stop
  <2>2. /\ s4' \in [RoutedRequests -> {"admitted", "routed", "dispatched", "speaking", "failed"}]
        /\ s4'[r] = "speaking" /\ \A q \in RoutedRequests : q # r => s4'[q] = s4[q]
    BY <1>2, <2>1, RoutingTypes
  <2>3. /\ s6' \in [RoutedRequests -> Routing!Voices \cup {Nothing}]
        /\ s6'[r] = v /\ v \in Routing!Voices /\ \A q \in RoutedRequests : q # r => s6'[q] = s6[q]
    BY <1>2, <1>3, <1>7, RoutingTypes
  <2>4. PICK l \in Routing!Languages \cup Routing!Voices :
          l # Nothing /\ (s3[r].language # Nothing => l = s3[r].language) /\ s7' = [s7 EXCEPT ![r] = l]
    <3>1. s3[r].language \in Routing!Languages \cup {Nothing} BY <1>2 DEF Routing!Asked
    <3>2. CASE s3[r].language # Nothing BY <1>7, <3>1, <3>2
    <3>3. CASE s3[r].language = Nothing BY <1>3, <1>7, <2>3, <3>3
    <3> QED BY <3>2, <3>3
  <2>5. /\ s7' \in [RoutedRequests -> Routing!Languages \cup Routing!Voices \cup {Nothing}]
        /\ s7'[r] = l /\ \A q \in RoutedRequests : q # r => s7'[q] = s7[q]
    BY <1>2, <2>4, RoutingTypes
  <2>6. Routing!TypeOK'
    <3>1. ASSUME NEW q \in RoutedRequests
          PROVE  /\ s4'[q] = "speaking" <=> s6'[q] # Nothing
                 /\ s4'[q] = "speaking" => s7'[q] # Nothing
                 /\ s5'[q] = "piper" => s6'[q] \notin KokoroVoices
      <4>1. CASE q = r BY <1>1, <1>3, <2>2, <2>3, <2>4, <2>5, <4>1
      <4>2. CASE q # r BY <1>1, <1>2, <2>2, <2>3, <2>5, <4>2 DEF Routing!TypeOK
      <4> QED BY <4>1, <4>2
    <3>2. /\ s1' \in [Routing!Voices -> {"good", "absent", "broken"}] /\ \A w \in KokoroVoices : s1'[w] # "broken"
          /\ s2' \in [RoutedRequests -> Routing!Asked] /\ s3' \in [RoutedRequests -> Routing!Asked]
          /\ s5' \in [RoutedRequests -> Routing!Backends \cup {Nothing}] /\ s8' \in [RoutedRequests -> BOOLEAN]
      BY <1>1, <1>2, Zenon DEF Routing!TypeOK
    <3> QED BY <2>2, <2>3, <2>5, <3>1, <3>2 DEF Routing!TypeOK
  <2> QED BY <1>5, <1>7, <2>2, <2>3, <2>4, <2>5, <2>6
<1> QED BY <1>6, <1>7 DEF Routing!Speak

LEMMA RoutingChange ==
  ASSUME Routing!RoutingAssumption, Routing!IInv, NEW v \in Routing!Voices,
         NEW what \in {"good", "absent", "broken"}, Routing!Change(v, what)
  PROVE  Routing!IInv'
<1>1. /\ s1' = [s1 EXCEPT ![v] = what] /\ s8' = [q \in RoutedRequests |-> FALSE]
      /\ what = "broken" => v \in PiperVoices
      /\ UNCHANGED <<s2, s3, s4, s5, s6, s7>>
  BY DEF Routing!Change, Routing!answer
<1>2. Routing!TypeOK BY DEF Routing!IInv
<1>3. \A q \in RoutedRequests : ~s8'[q] BY <1>1
<1>4. Routing!TypeOK'
  <2>1. s1' \in [Routing!Voices -> {"good", "absent", "broken"}] BY <1>1, <1>2, RoutingTypes
  <2>2. \A w \in KokoroVoices : s1'[w] # "broken"
    BY <1>1, <1>2 DEF Routing!TypeOK, Routing!RoutingAssumption, Routing!Voices
  <2>3. s8' \in [RoutedRequests -> BOOLEAN] BY <1>1, Zenon
  <2> QED BY <1>1, <1>2, <2>1, <2>2, <2>3 DEF Routing!TypeOK
<1>5. Routing!RoutedWhole' BY <1>1 DEF Routing!IInv, Routing!RoutedWhole
<1>6. ASSUME NEW q \in RoutedRequests
      PROVE  Routing!RoutedAsItStands(q)' /\ Routing!DispatchedAsItStands(q)' /\ Routing!SpokenAsItStands(q)'
  <2>1. Routing!RoutedAsItStands(q) /\ Routing!DispatchedAsItStands(q) BY DEF Routing!IInv
  <2>2. Routing!RoutedAsItStands(q)' BY <1>1, <1>3, <2>1 DEF Routing!RoutedAsItStands, Routing!Routed
  <2>3. Routing!DispatchedAsItStands(q)' BY <1>1, <1>3, <2>1 DEF Routing!DispatchedAsItStands
  <2>4. Routing!SpokenAsItStands(q)' BY <1>3 DEF Routing!SpokenAsItStands
  <2> QED BY <2>2, <2>3, <2>4
<1> QED BY <1>4, <1>5, <1>6 DEF Routing!IInv

LEMMA RoutingNext ==
  ASSUME Routing!RoutingAssumption, Routing!IInv, [Routing!Next]_(Routing!vars)
  PROVE  Routing!IInv'
<1>1. CASE UNCHANGED Routing!vars
  <2>1. UNCHANGED <<s1, s2, s3, s4, s5, s6, s7, s8>> BY <1>1 DEF Routing!vars, Routing!answer
  <2>2. Routing!TypeOK' /\ Routing!RoutedWhole'
    BY <2>1 DEF Routing!IInv, Routing!TypeOK, Routing!RoutedWhole
  <2>3. ASSUME NEW q \in RoutedRequests
        PROVE  Routing!RoutedAsItStands(q)' /\ Routing!DispatchedAsItStands(q)' /\ Routing!SpokenAsItStands(q)'
    BY <2>1, RoutingSame DEF Routing!IInv
  <2> QED BY <2>2, <2>3 DEF Routing!IInv
<1> QED BY <1>1, RoutingRoute, RoutingDispatch, RoutingSpeak, RoutingChange DEF Routing!Next

RoutingInv == running = "routing" => Routing!IInv

LEMMA RoutingInductive ==
  /\ MediaInit => RoutingInv
  /\ RoutingInv /\ [MediaNext]_all => RoutingInv'
<1>1. Routing!RoutingAssumption BY MediaAssumption
<1>2. MediaInit => RoutingInv BY <1>1, RoutingStart, RoutingInit DEF RoutingInv
<1>3. ASSUME RoutingInv, [MediaNext]_all PROVE RoutingInv'
  <2> SUFFICES ASSUME running' = "routing" PROVE Routing!IInv' BY DEF RoutingInv
  <2> QED BY <1>1, <1>3, RoutingRuns, RoutingNext DEF RoutingInv
<1> QED BY <1>2, <1>3

(* A voice that is installed and in reach is the only choice of a request that names it. *)
LEMMA RoutingOnlyChoice ==
  ASSUME Routing!RoutingAssumption, Routing!IInv, NEW r \in RoutedRequests, s3[r].voice # Nothing,
         s5[r] = Routing!ByModel(Routing!ResolveBackend(s3[r])), Routing!Readable,
         Routing!Installed(Means[s3[r].voice])
  PROVE  /\ \A v \in Routing!Choice(r) : v = Means[s3[r].voice]
         /\ Routing!InReach(Means[s3[r].voice]) => Routing!Choice(r) # {}
<1> DEFINE v == Means[s3[r].voice]
<1>1. s3[r] \in Routing!Asked BY RoutingTypes DEF Routing!IInv
<1>2. v \in Routing!Registered BY DEF Routing!Installed, Routing!Registered
<1>3. Routing!ResolveBackend(s3[r]) = Routing!OwnerOf(v)
  BY <1>2 DEF Routing!ResolveBackend, Routing!Lookup, Routing!RoutingAssumption, Routing!Registered
<1>4. CASE v \in PiperVoices
  <2>1. s5[r] = DefaultBackend
    BY <1>3, <1>4 DEF Routing!ByModel, Routing!OwnerOf, Routing!AutoModels
  <2>2. v \notin KokoroVoices BY <1>4 DEF Routing!RoutingAssumption
  <2>3. Routing!PiperChoice(s3[r]) = {v} BY <1>1, <1>2, <1>4, RoutingMeans
  <2>4. Routing!KokoroChoice(s3[r]) = {} BY <1>1, <2>2, RoutingMeans
  <2> QED BY <2>1, <2>2, <2>3, <2>4 DEF Routing!Choice, Routing!InReach
<1>5. CASE v \notin PiperVoices
  <2>1. v \in KokoroVoices BY <1>2, <1>5 DEF Routing!Registered, Routing!Voices
  <2>2. s5[r] = "kokoro" BY <1>3, <1>5 DEF Routing!ByModel, Routing!OwnerOf, Routing!AutoModels
  <2>3. Routing!KokoroChoice(s3[r]) = {v} BY <1>1, <1>2, <2>1, RoutingMeans
  <2> QED BY <2>2, <2>3 DEF Routing!Choice
<1> QED BY <1>4, <1>5

LEMMA RoutingHolds ==
  ASSUME Routing!RoutingAssumption, Routing!IInv
  PROVE  /\ Routing!TypeOK /\ Routing!VoiceDecidesBackend /\ Routing!PinKept
         /\ Routing!RoutedWhole /\ Routing!RoutingNeverFails
<1>1. Routing!TypeOK /\ Routing!RoutedWhole BY DEF Routing!IInv
<1>2. ASSUME NEW r \in RoutedRequests
      PROVE  Routing!RoutedAsItStands(r) /\ Routing!DispatchedAsItStands(r) /\ Routing!SpokenAsItStands(r)
  BY DEF Routing!IInv
<1>3. ASSUME NEW r \in RoutedRequests, Routing!Ended(r), s8[r], Routing!Readable
      PROVE  /\ s5[r] = Routing!ByModel(Routing!ResolveBackend(s3[r]))
             /\ IF s4[r] = "speaking" THEN s6[r] \in Routing!Choice(r) ELSE Routing!Choice(r) = {}
  BY <1>2, <1>3 DEF Routing!Ended, Routing!DispatchedAsItStands, Routing!SpokenAsItStands
<1>4. Routing!VoiceDecidesBackend
  BY <1>3, RoutingOnlyChoice DEF Routing!VoiceDecidesBackend, Routing!Ended
<1>5. Routing!PinKept
  <2>1. ASSUME NEW r \in RoutedRequests, s4[r] = "speaking", s2[r].voice # Nothing, s8[r],
               Routing!Installed(Means[s2[r].voice]), s6[r] # Means[s2[r].voice]
        PROVE  s2[r].routing /\ s2[r].detected # Nothing /\ s6[r] = LanguageVoices[s2[r].detected]
    <3>1. Routing!Readable BY <1>2, <2>1 DEF Routing!DispatchedAsItStands
    <3>2. s3[r] # s2[r] BY <1>3, <2>1, <3>1, RoutingOnlyChoice DEF Routing!Ended
    <3>3. Routing!Routed(r) BY <1>2, <3>2 DEF Routing!RoutedAsItStands
    <3> QED BY <1>1, <2>1, <3>2, <3>3 DEF Routing!RoutedWhole, Routing!Routed
  <2> QED BY <2>1 DEF Routing!PinKept
<1>6. Routing!RoutingNeverFails
  <2>1. ASSUME NEW r \in RoutedRequests, s4[r] = "failed", s3[r] # s2[r], Routing!InReach(s3[r].voice), s8[r]
        PROVE  FALSE
    <3>1. Routing!Readable /\ s3[r].voice \in Routing!Registered /\ Routing!Routed(r)
      BY <1>2, <2>1 DEF Routing!RoutedAsItStands
    <3>2. /\ s3[r].voice \in Routing!Voices /\ s3[r].voice # Nothing /\ Means[s3[r].voice] = s3[r].voice
          /\ Routing!Installed(s3[r].voice)
      BY <3>1 DEF Routing!Registered, Routing!RoutingAssumption, Routing!Installed
    <3> QED BY <1>3, <2>1, <3>1, <3>2, RoutingOnlyChoice DEF Routing!Ended
  <2> QED BY <2>1 DEF Routing!RoutingNeverFails
<1> QED BY <1>1, <1>4, <1>5, <1>6

-----------------------------------------------------------------------------
(* A request for speech *)

LEMMA SynthesisRuns ==
  ASSUME [MediaNext]_all, running' = "synthesis"
  PROVE  running = "synthesis" /\ [Synthesis!Next]_(Synthesis!vars)
  BY DEF MediaNext, Step, all, slots, Synthesis!vars, Synthesis!disk, Synthesis!locks

LEMMA SynthesisStart == ASSUME MediaInit, running = "synthesis" PROVE Synthesis!Init
  BY DEF MediaInit, Launch

LEMMA SynthesisTypes ==
  ASSUME Synthesis!TypeOK
  PROVE  /\ s1 \in [SpeechRequests -> [backend : Synthesis!Backends, language : SpokenLanguages,
                                      sentences : 0 .. MaxSentences, formats : FormatLists]]
         /\ s2 \in [SpeechRequests -> Synthesis!Places]
         /\ s3 \in [SpeechRequests -> Seq(SpokenLanguages)]
         /\ s4 \in [SpeechRequests -> Seq(Synthesis!Formats)]
         /\ s5 \in [SpeechRequests -> SUBSET (Synthesis!Formats \cup {"source"})]
         /\ s6 \in [SpeechRequests -> SUBSET (Synthesis!Formats \cup {"source"})]
         /\ s7 \in [SpeechRequests -> SUBSET (Synthesis!Formats \X BOOLEAN)]
         /\ s8 \in SpokenLanguages \cup {NoOne} /\ s9 \in SpeechRequests \cup {NoOne}
         /\ s10 \in [Synthesis!Backends -> SpeechRequests \cup {NoOne}]
         /\ Synthesis!LocksHeld
  BY DEF Synthesis!TypeOK

LEMMA SynthesisInit ==
  ASSUME Synthesis!SpeechAssumption, Synthesis!Init
  PROVE  Synthesis!IInv
<1>1. /\ s1 \in [SpeechRequests -> [backend : Synthesis!Backends, language : SpokenLanguages,
                                   sentences : 0 .. MaxSentences, formats : FormatLists]]
      /\ s2 = [r \in SpeechRequests |-> IF s1[r].backend = "kokoro" THEN "text" ELSE "ready"]
      /\ s3 = [r \in SpeechRequests |-> <<>>] /\ s4 = [r \in SpeechRequests |-> <<>>]
      /\ s5 = [r \in SpeechRequests |-> {}] /\ s6 = [r \in SpeechRequests |-> {}]
      /\ s7 = [r \in SpeechRequests |-> {}]
      /\ s8 = NoOne /\ s9 = NoOne /\ s10 = [b \in Synthesis!Backends |-> NoOne]
  BY DEF Synthesis!Init, Synthesis!Backend
<1>2. \A r \in SpeechRequests : s2[r] \in {"text", "ready"} BY <1>1
<1>3. NoOne \notin SpeechRequests BY DEF Synthesis!SpeechAssumption
<1>4. Synthesis!LocksHeld BY <1>1, <1>2, <1>3 DEF Synthesis!LocksHeld, Synthesis!Infers
<1>5. s2 \in [SpeechRequests -> Synthesis!Places] BY <1>1 DEF Synthesis!Places
<1>6. s3 \in [SpeechRequests -> Seq(SpokenLanguages)] /\ s4 \in [SpeechRequests -> Seq(Synthesis!Formats)]
  BY <1>1
<1>7. s7 \in [SpeechRequests -> SUBSET (Synthesis!Formats \X BOOLEAN)] BY <1>1, Zenon
<1>8. Synthesis!TypeOK BY <1>1, <1>4, <1>5, <1>6, <1>7 DEF Synthesis!TypeOK
<1>9. ASSUME NEW r \in SpeechRequests
      PROVE  Synthesis!WithinRequest(r) /\ Synthesis!SpokenInOwn(r) /\ Synthesis!FilesOfPlace(r)
  <2>1. /\ s3[r] = <<>> /\ s4[r] = <<>> /\ Len(<<>>) = 0 /\ s5[r] = {} /\ s6[r] = {} /\ s2[r] \in {"text", "ready"}
    BY <1>1, <1>2
  <2>2. s1[r].sentences \in 0 .. MaxSentences /\ s1[r].formats \in Seq(Synthesis!Formats)
    BY <1>1 DEF Synthesis!SpeechAssumption
  <2>3. 0 <= s1[r].sentences /\ 0 <= Len(s1[r].formats) BY <2>2
  <2>4. \A i \in 1 .. 0 : FALSE OBVIOUS
  <2>5. Synthesis!WithinRequest(r) BY <2>1, <2>3, <2>4 DEF Synthesis!WithinRequest
  <2>6. Synthesis!SpokenInOwn(r) BY <2>1, <2>4 DEF Synthesis!SpokenInOwn
  <2>7. Synthesis!FilesOfPlace(r) BY <2>1 DEF Synthesis!FilesOfPlace
  <2> QED BY <2>5, <2>6, <2>7
<1> QED BY <1>8, <1>9 DEF Synthesis!IInv

(* A request moves; the others only share the locks and espeak-ng's language with it. *)
LEMMA SynthesisSame ==
  ASSUME NEW q \in SpeechRequests, s1' = s1, s2'[q] = s2[q], s3'[q] = s3[q], s4'[q] = s4[q], s5'[q] = s5[q],
         s6'[q] = s6[q], s7'[q] = s7[q], s2[q] = "switched" => s8' = s8,
         Synthesis!WithinRequest(q), Synthesis!SpokenInOwn(q), Synthesis!FilesOfPlace(q)
  PROVE  Synthesis!WithinRequest(q)' /\ Synthesis!SpokenInOwn(q)' /\ Synthesis!FilesOfPlace(q)'
<1>1. Synthesis!WithinRequest(q)' BY DEF Synthesis!WithinRequest, Synthesis!Backend
<1>2. Synthesis!SpokenInOwn(q)' BY DEF Synthesis!SpokenInOwn
<1>3. Synthesis!Promised(q)' = Synthesis!Promised(q) BY DEF Synthesis!Promised
<1>4. (Synthesis!Pending(q)' <=> Synthesis!Pending(q)) /\ Synthesis!NextFormat(q)' = Synthesis!NextFormat(q)
  BY DEF Synthesis!Pending, Synthesis!NextFormat
<1>5. s7'[q] = s7[q] /\ s1'[q] = s1[q] OBVIOUS
<1>6. Synthesis!FilesOfPlace(q)' BY <1>3, <1>4, <1>5 DEF Synthesis!FilesOfPlace
<1> QED BY <1>1, <1>2, <1>6

LEMMA SynthesisOneMoves ==
  ASSUME Synthesis!IInv, NEW r \in SpeechRequests, s1' = s1,
         \A q \in SpeechRequests : q # r =>
           /\ s2'[q] = s2[q] /\ s3'[q] = s3[q] /\ s4'[q] = s4[q] /\ s5'[q] = s5[q] /\ s6'[q] = s6[q] /\ s7'[q] = s7[q]
           /\ s2[q] = "switched" => s8' = s8,
         Synthesis!TypeOK',
         Synthesis!WithinRequest(r)', Synthesis!SpokenInOwn(r)', Synthesis!FilesOfPlace(r)'
  PROVE  Synthesis!IInv'
<1>1. ASSUME NEW q \in SpeechRequests
      PROVE  Synthesis!WithinRequest(q)' /\ Synthesis!SpokenInOwn(q)' /\ Synthesis!FilesOfPlace(q)'
  <2>1. Synthesis!WithinRequest(q) /\ Synthesis!SpokenInOwn(q) /\ Synthesis!FilesOfPlace(q)
    BY DEF Synthesis!IInv
  <2>2. CASE q = r BY <2>2
  <2>3. CASE q # r BY <2>1, <2>3, SynthesisSame
  <2> QED BY <2>2, <2>3
<1> QED BY <1>1 DEF Synthesis!IInv

(* What a request that is where it moves from has, and what its move is. *)
LEMMA SynthesisMove ==
  ASSUME Synthesis!SpeechAssumption, Synthesis!IInv, NEW r \in SpeechRequests,
         NEW place \in Synthesis!Places, Synthesis!Goto(r, place)
  PROVE  /\ s2' \in [SpeechRequests -> Synthesis!Places] /\ s2'[r] = place
         /\ \A q \in SpeechRequests : q # r => s2'[q] = s2[q]
         /\ Synthesis!WithinRequest(r) /\ Synthesis!SpokenInOwn(r) /\ Synthesis!FilesOfPlace(r)
         /\ s1[r].formats \in Seq(Synthesis!Formats) /\ s1[r].sentences \in Nat
         /\ s1[r].backend \in {"piper", "kokoro"} /\ s1[r].language \in SpokenLanguages
         /\ NoOne \notin SpeechRequests
<1>1. s2 \in [SpeechRequests -> Synthesis!Places] /\ s2' = [s2 EXCEPT ![r] = place]
  BY SynthesisTypes DEF Synthesis!IInv, Synthesis!Goto
<1>2. /\ s2' \in [SpeechRequests -> Synthesis!Places] /\ s2'[r] = place
      /\ \A q \in SpeechRequests : q # r => s2'[q] = s2[q]
  BY <1>1
<1>3. Synthesis!WithinRequest(r) /\ Synthesis!SpokenInOwn(r) /\ Synthesis!FilesOfPlace(r) BY DEF Synthesis!IInv
<1>4. s1[r] \in [backend : Synthesis!Backends, language : SpokenLanguages,
                 sentences : 0 .. MaxSentences, formats : FormatLists]
  BY SynthesisTypes DEF Synthesis!IInv
<1>5. FormatLists \subseteq Seq(Synthesis!Formats) /\ NoOne \notin SpeechRequests BY DEF Synthesis!SpeechAssumption
<1> QED BY <1>2, <1>3, <1>4, <1>5 DEF Synthesis!Backends

(* Neither lock is taken or given back. *)
LEMMA SynthesisLocksStay ==
  ASSUME Synthesis!LocksHeld, NEW r \in SpeechRequests, s1' = s1, s9' = s9, s10' = s10,
         \A q \in SpeechRequests : q # r => s2'[q] = s2[q],
         {s2[r], s2'[r]} \cap {"switched", "infer"} = {},
         "write" \in {s2[r], s2'[r]} => s1[r].backend = "kokoro"
  PROVE  Synthesis!LocksHeld'
<1>1. ASSUME NEW q \in SpeechRequests
      PROVE  (s9' = q <=> s2'[q] = "switched") /\ \A b \in Synthesis!Backends : s10'[b] = q <=> Synthesis!Infers(q, b)'
  <2>1. CASE q = r BY <2>1 DEF Synthesis!LocksHeld, Synthesis!Infers, Synthesis!Backends
  <2>2. CASE q # r BY <2>2 DEF Synthesis!LocksHeld, Synthesis!Infers
  <2> QED BY <2>1, <2>2
<1> QED BY <1>1 DEF Synthesis!LocksHeld

LEMMA SynthesisLockTaken ==
  ASSUME Synthesis!LocksHeld, NEW r \in SpeechRequests, NEW b \in Synthesis!Backends, NoOne \notin SpeechRequests,
         s1' = s1, s9' = s9, s10 \in [Synthesis!Backends -> SpeechRequests \cup {NoOne}],
         s10[b] = NoOne, s10' = [s10 EXCEPT ![b] = r], s1[r].backend = b,
         \A q \in SpeechRequests : q # r => s2'[q] = s2[q], s2[r] \in {"ready", "reserved"},
         s2'[r] = IF b = "piper" THEN "write" ELSE "infer"
  PROVE  Synthesis!LocksHeld'
<1>1. ASSUME NEW q \in SpeechRequests
      PROVE  (s9' = q <=> s2'[q] = "switched") /\ \A d \in Synthesis!Backends : s10'[d] = q <=> Synthesis!Infers(q, d)'
  <2>1. CASE q = r BY <2>1 DEF Synthesis!LocksHeld, Synthesis!Infers, Synthesis!Backends
  <2>2. CASE q # r BY <2>2 DEF Synthesis!LocksHeld, Synthesis!Infers, Synthesis!Backends
  <2> QED BY <2>1, <2>2
<1> QED BY <1>1 DEF Synthesis!LocksHeld

LEMMA SynthesisLockGiven ==
  ASSUME Synthesis!LocksHeld, NEW r \in SpeechRequests, NEW b \in Synthesis!Backends, NoOne \notin SpeechRequests,
         s1' = s1, s9' = s9, s10 \in [Synthesis!Backends -> SpeechRequests \cup {NoOne}],
         s10' = [s10 EXCEPT ![b] = NoOne], s1[r].backend = b,
         \A q \in SpeechRequests : q # r => s2'[q] = s2[q],
         s2[r] = IF b = "piper" THEN "write" ELSE "infer",
         s2'[r] \notin {"switched", "infer"}, s2'[r] = "write" => b = "kokoro"
  PROVE  Synthesis!LocksHeld'
<1>1. s10[b] = r BY DEF Synthesis!LocksHeld, Synthesis!Infers
<1>2. ASSUME NEW q \in SpeechRequests
      PROVE  (s9' = q <=> s2'[q] = "switched") /\ \A d \in Synthesis!Backends : s10'[d] = q <=> Synthesis!Infers(q, d)'
  <2>1. CASE q = r BY <1>1, <2>1 DEF Synthesis!LocksHeld, Synthesis!Infers, Synthesis!Backends
  <2>2. CASE q # r BY <1>1, <2>2 DEF Synthesis!LocksHeld, Synthesis!Infers, Synthesis!Backends
  <2> QED BY <2>1, <2>2
<1> QED BY <1>2 DEF Synthesis!LocksHeld

(* The phonemizer's lock is taken or given back. *)
LEMMA SynthesisPhonemizer ==
  ASSUME Synthesis!LocksHeld, NEW r \in SpeechRequests, NoOne \notin SpeechRequests, s1' = s1, s10' = s10,
         \A q \in SpeechRequests : q # r => s2'[q] = s2[q],
         \/ s9 = NoOne /\ s9' = r /\ s2[r] = "text" /\ s2'[r] = "switched"
         \/ s9 = r /\ s9' = NoOne /\ s2[r] = "switched" /\ s2'[r] \in {"text", "error"}
  PROVE  Synthesis!LocksHeld'
<1>1. ASSUME NEW q \in SpeechRequests
      PROVE  (s9' = q <=> s2'[q] = "switched") /\ \A d \in Synthesis!Backends : s10'[d] = q <=> Synthesis!Infers(q, d)'
  <2>1. CASE q = r BY <2>1 DEF Synthesis!LocksHeld, Synthesis!Infers, Synthesis!Backends
  <2>2. CASE q # r BY <2>2 DEF Synthesis!LocksHeld, Synthesis!Infers, Synthesis!Backends
  <2> QED BY <2>1, <2>2
<1> QED BY <1>1 DEF Synthesis!LocksHeld

-----------------------------------------------------------------------------

LEMMA SynthesisSwitch ==
  ASSUME Synthesis!SpeechAssumption, Synthesis!IInv, NEW r \in SpeechRequests, Synthesis!Switch(r)
  PROVE  Synthesis!IInv'
<1>1. /\ s2[r] = "text" /\ Len(s3[r]) < s1[r].sentences /\ s9 = NoOne /\ s9' = r /\ s8' = s1[r].language
      /\ Synthesis!Goto(r, "switched") /\ UNCHANGED <<s1, s3, s4, s5, s6, s7, s10>>
  BY DEF Synthesis!Switch, Synthesis!disk
<1>2. "switched" \in Synthesis!Places /\ Synthesis!TypeOK BY DEF Synthesis!IInv, Synthesis!Places
<1>3. /\ s2' \in [SpeechRequests -> Synthesis!Places] /\ s2'[r] = "switched"
      /\ \A q \in SpeechRequests : q # r => s2'[q] = s2[q]
      /\ Synthesis!WithinRequest(r) /\ Synthesis!SpokenInOwn(r) /\ Synthesis!FilesOfPlace(r)
      /\ s1[r].language \in SpokenLanguages /\ NoOne \notin SpeechRequests
  BY <1>1, <1>2, SynthesisMove
<1>4. Synthesis!LocksHeld' BY <1>1, <1>2, <1>3, SynthesisTypes, SynthesisPhonemizer
<1>5. Synthesis!TypeOK' BY <1>1, <1>2, <1>3, <1>4 DEF Synthesis!TypeOK
<1>6. \A q \in SpeechRequests : s2[q] # "switched" BY <1>1, <1>2, <1>3, SynthesisTypes DEF Synthesis!LocksHeld
<1>7. Synthesis!WithinRequest(r)' BY <1>1, <1>3 DEF Synthesis!WithinRequest, Synthesis!Backend
<1>8. Synthesis!SpokenInOwn(r)' BY <1>1, <1>3 DEF Synthesis!SpokenInOwn
<1>9. Synthesis!FilesOfPlace(r)' BY <1>1, <1>3 DEF Synthesis!FilesOfPlace
<1> QED BY <1>1, <1>3, <1>5, <1>6, <1>7, <1>8, <1>9, SynthesisOneMoves

LEMMA SynthesisPhonemize ==
  ASSUME Synthesis!SpeechAssumption, Synthesis!IInv, NEW r \in SpeechRequests,
         Synthesis!Phonemize(r) \/ Synthesis!PhonemizeFails(r)
  PROVE  Synthesis!IInv'
<1>1. PICK place \in {"text", "error"} :
      /\ s2[r] = "switched" /\ s9' = NoOne /\ Synthesis!Goto(r, place)
      /\ UNCHANGED <<s1, s4, s5, s6, s7, s8, s10>>
      /\ s3' = s3 \/ (s3' = [s3 EXCEPT ![r] = Append(s3[r], s8)] /\ place = "text")
  BY DEF Synthesis!Phonemize, Synthesis!PhonemizeFails, Synthesis!disk
<1>2. place \in Synthesis!Places /\ Synthesis!TypeOK BY DEF Synthesis!IInv, Synthesis!Places
<1>3. /\ s2' \in [SpeechRequests -> Synthesis!Places] /\ s2'[r] = place
      /\ \A q \in SpeechRequests : q # r => s2'[q] = s2[q]
      /\ Synthesis!WithinRequest(r) /\ Synthesis!SpokenInOwn(r) /\ Synthesis!FilesOfPlace(r)
      /\ s1[r].language \in SpokenLanguages /\ s1[r].sentences \in Nat /\ NoOne \notin SpeechRequests
  BY <1>1, <1>2, SynthesisMove
<1>4. s9 = r BY <1>1, <1>2, SynthesisTypes DEF Synthesis!LocksHeld
<1>5. Synthesis!LocksHeld' BY <1>1, <1>2, <1>3, <1>4, SynthesisTypes, SynthesisPhonemizer
<1>6. s8 = s1[r].language /\ Len(s3[r]) < s1[r].sentences /\ s3[r] \in Seq(SpokenLanguages)
  BY <1>1, <1>2, <1>3, SynthesisTypes DEF Synthesis!SpokenInOwn
<1>7. /\ s3' \in [SpeechRequests -> Seq(SpokenLanguages)] /\ (s3'[r] = s3[r] \/ s3'[r] = Append(s3[r], s8))
      /\ \A q \in SpeechRequests : q # r => s3'[q] = s3[q]
  <2>1. Append(s3[r], s8) \in Seq(SpokenLanguages) BY <1>3, <1>6
  <2> QED BY <1>1, <1>2, <2>1, SynthesisTypes
<1>8. Synthesis!TypeOK' BY <1>1, <1>2, <1>3, <1>5, <1>7 DEF Synthesis!TypeOK
<1>9. Len(s3'[r]) <= s1[r].sentences /\ \A i \in 1 .. Len(s3'[r]) : s3'[r][i] = s1[r].language
  <2>1. \A i \in 1 .. Len(s3[r]) : s3[r][i] = s1[r].language BY <1>3 DEF Synthesis!SpokenInOwn
  <2> QED BY <1>3, <1>6, <1>7, <2>1
<1>10. Synthesis!WithinRequest(r)' BY <1>1, <1>3, <1>9 DEF Synthesis!WithinRequest, Synthesis!Backend
<1>11. Synthesis!SpokenInOwn(r)' BY <1>1, <1>3, <1>9 DEF Synthesis!SpokenInOwn
<1>12. Synthesis!FilesOfPlace(r)' BY <1>1, <1>3 DEF Synthesis!FilesOfPlace
<1> QED BY <1>1, <1>3, <1>7, <1>8, <1>10, <1>11, <1>12, SynthesisOneMoves

(* What happens after the text is phonemized: files and exports of r change, and perhaps a lock. *)
LEMMA SynthesisAfter ==
  ASSUME Synthesis!SpeechAssumption, Synthesis!IInv, NEW r \in SpeechRequests,
         NEW place \in Synthesis!Places \ {"switched"}, Synthesis!Goto(r, place), s2[r] # "switched",
         UNCHANGED <<s1, s3, s8, s9>>, Synthesis!LocksHeld',
         s10' \in [Synthesis!Backends -> SpeechRequests \cup {NoOne}],
         s4' \in [SpeechRequests -> Seq(Synthesis!Formats)],
         s5' \in [SpeechRequests -> SUBSET (Synthesis!Formats \cup {"source"})],
         s6' \in [SpeechRequests -> SUBSET (Synthesis!Formats \cup {"source"})],
         s7' \in [SpeechRequests -> SUBSET (Synthesis!Formats \X BOOLEAN)],
         \A q \in SpeechRequests : q # r => s4'[q] = s4[q] /\ s5'[q] = s5[q] /\ s6'[q] = s6[q] /\ s7'[q] = s7[q],
         Synthesis!WithinRequest(r)', Synthesis!FilesOfPlace(r)'
  PROVE  Synthesis!IInv'
<1>1. /\ s2' \in [SpeechRequests -> Synthesis!Places] /\ s2'[r] = place
      /\ (\A q \in SpeechRequests : q # r => s2'[q] = s2[q]) /\ Synthesis!SpokenInOwn(r)
  BY SynthesisMove
<1>2. Synthesis!TypeOK' BY <1>1 DEF Synthesis!IInv, Synthesis!TypeOK
<1>3. Synthesis!SpokenInOwn(r)' BY <1>1 DEF Synthesis!SpokenInOwn
<1> QED BY <1>1, <1>2, <1>3, SynthesisOneMoves

LEMMA SynthesisReserve ==
  ASSUME Synthesis!TypeOK, NEW r \in SpeechRequests, NEW name \in Synthesis!Formats \cup {"source"},
         Synthesis!Reserve(r, name)
  PROVE  /\ s5' \in [SpeechRequests -> SUBSET (Synthesis!Formats \cup {"source"})]
         /\ s5'[r] = s5[r] \cup {name} /\ (\A q \in SpeechRequests : q # r => s5'[q] = s5[q]) /\ s6' = s6
         /\ s6' \in [SpeechRequests -> SUBSET (Synthesis!Formats \cup {"source"})]
<1>1. s5' = [s5 EXCEPT ![r] = s5[r] \cup {name}] /\ s6' = s6 BY DEF Synthesis!Reserve
<1>2. PICK set : set = s5[r] \cup {name} OBVIOUS
<1>3. set \in SUBSET (Synthesis!Formats \cup {"source"}) BY <1>2, SynthesisTypes
<1> QED BY <1>1, <1>2, <1>3, SynthesisTypes

LEMMA SynthesisComplete ==
  ASSUME Synthesis!TypeOK, NEW r \in SpeechRequests, NEW name \in Synthesis!Formats \cup {"source"},
         Synthesis!Complete(r, name)
  PROVE  /\ s6' \in [SpeechRequests -> SUBSET (Synthesis!Formats \cup {"source"})]
         /\ s6'[r] = s6[r] \cup {name} /\ (\A q \in SpeechRequests : q # r => s6'[q] = s6[q]) /\ s5' = s5
         /\ s5' \in [SpeechRequests -> SUBSET (Synthesis!Formats \cup {"source"})]
<1>1. s6' = [s6 EXCEPT ![r] = s6[r] \cup {name}] /\ s5' = s5 BY DEF Synthesis!Complete
<1>2. PICK set : set = s6[r] \cup {name} OBVIOUS
<1>3. set \in SUBSET (Synthesis!Formats \cup {"source"}) BY <1>2, SynthesisTypes
<1> QED BY <1>1, <1>2, <1>3, SynthesisTypes

LEMMA SynthesisDrop ==
  ASSUME Synthesis!TypeOK, NEW r \in SpeechRequests, NEW names, Synthesis!Drop(r, names)
  PROVE  /\ s5' \in [SpeechRequests -> SUBSET (Synthesis!Formats \cup {"source"})]
         /\ s6' \in [SpeechRequests -> SUBSET (Synthesis!Formats \cup {"source"})]
         /\ s5'[r] = s5[r] \ names /\ s6'[r] = s6[r] \ names
         /\ \A q \in SpeechRequests : q # r => s5'[q] = s5[q] /\ s6'[q] = s6[q]
<1>1. s5' = [s5 EXCEPT ![r] = s5[r] \ names] /\ s6' = [s6 EXCEPT ![r] = s6[r] \ names] BY DEF Synthesis!Drop
<1>2. PICK set : set = s5[r] \ names OBVIOUS
<1>3. PICK written : written = s6[r] \ names OBVIOUS
<1>4. {set, written} \subseteq SUBSET (Synthesis!Formats \cup {"source"}) BY <1>2, <1>3, SynthesisTypes
<1> QED BY <1>1, <1>2, <1>3, <1>4, SynthesisTypes

(* Nothing but the place changes. *)
LEMMA SynthesisSimple ==
  ASSUME Synthesis!SpeechAssumption, Synthesis!IInv, NEW r \in SpeechRequests,
         Synthesis!Loaded(r) \/ Synthesis!LoadFails(r) \/ Synthesis!AnswerFails(r)
  PROVE  Synthesis!IInv'
<1>1. PICK place \in {"ready", "error", "failed"} :
      /\ Synthesis!Goto(r, place) /\ UNCHANGED <<s1, s3, s4, s5, s6, s7, s8, s9, s10>>
      /\ \/ s2[r] \in {"text", "ready"} /\ place \in {"ready", "error"}
         \/ s2[r] = "spoken" /\ place = "failed"
  BY DEF Synthesis!Loaded, Synthesis!LoadFails, Synthesis!AnswerFails, Synthesis!disk, Synthesis!locks
<1>2. place \in Synthesis!Places \ {"switched"} /\ Synthesis!TypeOK BY DEF Synthesis!IInv, Synthesis!Places
<1>3. /\ s2'[r] = place /\ (\A q \in SpeechRequests : q # r => s2'[q] = s2[q])
      /\ Synthesis!WithinRequest(r) /\ Synthesis!FilesOfPlace(r)
  BY <1>1, <1>2, SynthesisMove
<1>4. Synthesis!LocksHeld' BY <1>1, <1>2, <1>3, SynthesisTypes, SynthesisLocksStay
<1>5. Synthesis!WithinRequest(r)' BY <1>1, <1>3 DEF Synthesis!WithinRequest, Synthesis!Backend
<1>6. Synthesis!Promised(r)' = Synthesis!Promised(r) BY <1>1 DEF Synthesis!Promised
<1>7. Synthesis!FilesOfPlace(r)' BY <1>1, <1>3, <1>6 DEF Synthesis!FilesOfPlace
<1> QED BY <1>1, <1>2, <1>4, <1>5, <1>7, SynthesisTypes, SynthesisAfter

(* A backend's lock is taken. *)
LEMMA SynthesisInfer ==
  ASSUME Synthesis!SpeechAssumption, Synthesis!IInv, NEW r \in SpeechRequests,
         Synthesis!KokoroInfer(r) \/ Synthesis!PiperWrite(r)
  PROVE  Synthesis!IInv'
<1>1. PICK b \in Synthesis!Backends : b = s1[r].backend BY SynthesisTypes DEF Synthesis!IInv
<1>2. PICK place \in {"infer", "write"} :
      /\ Synthesis!Goto(r, place) /\ UNCHANGED <<s1, s3, s4, s5, s6, s7, s8, s9>>
      /\ s10[b] = NoOne /\ s10' = [s10 EXCEPT ![b] = r]
      /\ \/ s2[r] = "ready" /\ place = "infer" /\ b = "kokoro"
         \/ s2[r] = "reserved" /\ place = "write"
  BY <1>1 DEF Synthesis!KokoroInfer, Synthesis!PiperWrite, Synthesis!disk, Synthesis!Lock, Synthesis!Free, Synthesis!Backend
<1>3. place \in Synthesis!Places \ {"switched"} /\ Synthesis!TypeOK BY DEF Synthesis!IInv, Synthesis!Places
<1>4. /\ s2'[r] = place /\ (\A q \in SpeechRequests : q # r => s2'[q] = s2[q])
      /\ Synthesis!WithinRequest(r) /\ Synthesis!FilesOfPlace(r) /\ NoOne \notin SpeechRequests
  BY <1>2, <1>3, SynthesisMove
<1>5. s2[r] = "reserved" => b = "piper" BY <1>1, <1>4 DEF Synthesis!WithinRequest, Synthesis!Backend
<1>6. Synthesis!LocksHeld' BY <1>1, <1>2, <1>3, <1>4, <1>5, SynthesisTypes, SynthesisLockTaken
<1>7. s10' \in [Synthesis!Backends -> SpeechRequests \cup {NoOne}] BY <1>2, <1>3, SynthesisTypes
<1>8. Synthesis!WithinRequest(r)' BY <1>1, <1>2, <1>4 DEF Synthesis!WithinRequest, Synthesis!Backend
<1>9. Synthesis!FilesOfPlace(r)' BY <1>2, <1>4 DEF Synthesis!FilesOfPlace
<1> QED BY <1>2, <1>3, <1>6, <1>7, <1>8, <1>9, SynthesisTypes, SynthesisAfter

LEMMA SynthesisInferred ==
  ASSUME Synthesis!SpeechAssumption, Synthesis!IInv, NEW r \in SpeechRequests, Synthesis!KokoroInferred(r)
  PROVE  Synthesis!IInv'
<1>1. Synthesis!TypeOK /\ Synthesis!WithinRequest(r) /\ Synthesis!FilesOfPlace(r) BY DEF Synthesis!IInv
<1>2. s2[r] = "infer" /\ s1[r].backend = "kokoro" /\ s10' = [s10 EXCEPT !["kokoro"] = NoOne]
      /\ UNCHANGED <<s1, s3, s4, s7, s8, s9>>
  BY <1>1 DEF Synthesis!KokoroInferred, Synthesis!WithinRequest, Synthesis!Unlock, Synthesis!Backend
<1>3. PICK place \in {"write", "error"} :
      /\ Synthesis!Goto(r, place)
      /\ \/ place = "write" /\ Synthesis!Reserve(r, "source")
         \/ place = "error" /\ UNCHANGED <<s5, s6>>
  BY DEF Synthesis!KokoroInferred, Synthesis!disk
<1>4. place \in Synthesis!Places \ {"switched"} BY DEF Synthesis!Places
<1>5. /\ s2'[r] = place /\ (\A q \in SpeechRequests : q # r => s2'[q] = s2[q])
      /\ NoOne \notin SpeechRequests
  BY <1>3, <1>4, SynthesisMove
<1>6. Synthesis!LocksHeld'
  BY <1>1, <1>2, <1>3, <1>5, SynthesisTypes, SynthesisLockGiven DEF Synthesis!Backends
<1>7. s10' \in [Synthesis!Backends -> SpeechRequests \cup {NoOne}] BY <1>1, <1>2, SynthesisTypes
<1>8. s5[r] = {} /\ s6[r] = {} BY <1>1, <1>2 DEF Synthesis!FilesOfPlace
<1>9. /\ s5' \in [SpeechRequests -> SUBSET (Synthesis!Formats \cup {"source"})]
      /\ s6' \in [SpeechRequests -> SUBSET (Synthesis!Formats \cup {"source"})]
      /\ s5'[r] = (IF place = "write" THEN {"source"} ELSE {}) /\ s6'[r] = {}
      /\ \A q \in SpeechRequests : q # r => s5'[q] = s5[q] /\ s6'[q] = s6[q]
  BY <1>1, <1>3, <1>8, SynthesisTypes, SynthesisReserve
<1>10. Synthesis!WithinRequest(r)' BY <1>1, <1>2, <1>5, <1>3 DEF Synthesis!WithinRequest, Synthesis!Backend
<1>11. Synthesis!FilesOfPlace(r)' BY <1>1, <1>2, <1>3, <1>5, <1>9 DEF Synthesis!FilesOfPlace
<1> QED BY <1>1, <1>2, <1>3, <1>4, <1>6, <1>7, <1>9, <1>10, <1>11, SynthesisTypes, SynthesisAfter

LEMMA SynthesisPiper ==
  ASSUME Synthesis!SpeechAssumption, Synthesis!IInv, NEW r \in SpeechRequests, Synthesis!PiperReserve(r)
  PROVE  Synthesis!IInv'
<1>1. Synthesis!TypeOK /\ Synthesis!WithinRequest(r) /\ Synthesis!FilesOfPlace(r) BY DEF Synthesis!IInv
<1>2. /\ s2[r] = "ready" /\ s1[r].backend = "piper" /\ Synthesis!Reserve(r, "source")
      /\ Synthesis!Goto(r, "reserved") /\ UNCHANGED <<s1, s3, s4, s7, s8, s9, s10>>
  BY DEF Synthesis!PiperReserve, Synthesis!Backend, Synthesis!locks
<1>3. "reserved" \in Synthesis!Places \ {"switched"} BY DEF Synthesis!Places
<1>4. s2'[r] = "reserved" /\ \A q \in SpeechRequests : q # r => s2'[q] = s2[q] BY <1>2, <1>3, SynthesisMove
<1>5. Synthesis!LocksHeld' BY <1>1, <1>2, <1>4, SynthesisTypes, SynthesisLocksStay
<1>6. /\ s5' \in [SpeechRequests -> SUBSET (Synthesis!Formats \cup {"source"})]
      /\ s6' \in [SpeechRequests -> SUBSET (Synthesis!Formats \cup {"source"})]
      /\ s5'[r] = s5[r] \cup {"source"} /\ s6' = s6 /\ \A q \in SpeechRequests : q # r => s5'[q] = s5[q]
  BY <1>1, <1>2, SynthesisReserve
<1>7. s5[r] = {} BY <1>1, <1>2 DEF Synthesis!FilesOfPlace
<1>8. Synthesis!WithinRequest(r)' BY <1>1, <1>2, <1>4 DEF Synthesis!WithinRequest, Synthesis!Backend
<1>9. Synthesis!FilesOfPlace(r)' BY <1>1, <1>2, <1>4, <1>6, <1>7 DEF Synthesis!FilesOfPlace
<1> QED BY <1>1, <1>2, <1>3, <1>5, <1>6, <1>8, <1>9, SynthesisTypes, SynthesisAfter

LEMMA SynthesisWritten ==
  ASSUME Synthesis!SpeechAssumption, Synthesis!IInv, NEW r \in SpeechRequests,
         Synthesis!Written(r) \/ Synthesis!WriteFails(r)
  PROVE  Synthesis!IInv'
<1>1. Synthesis!TypeOK /\ Synthesis!WithinRequest(r) /\ Synthesis!FilesOfPlace(r) BY DEF Synthesis!IInv
<1>2. PICK place \in {"spoken", "error"} :
      /\ s2[r] = "write" /\ Synthesis!Goto(r, place) /\ Synthesis!ReleaseAfterWrite(r)
      /\ UNCHANGED <<s1, s3, s4, s7, s8, s9>>
      /\ \/ place = "spoken" /\ Synthesis!Complete(r, "source")
         \/ place = "error" /\ Synthesis!Drop(r, {"source"})
  BY DEF Synthesis!Written, Synthesis!WriteFails
<1>3. place \in Synthesis!Places \ {"switched"} BY DEF Synthesis!Places
<1>4. /\ s2'[r] = place /\ (\A q \in SpeechRequests : q # r => s2'[q] = s2[q])
      /\ s1[r].backend \in {"piper", "kokoro"} /\ NoOne \notin SpeechRequests
  BY <1>2, <1>3, SynthesisMove
<1>5. Synthesis!LocksHeld' /\ s10' \in [Synthesis!Backends -> SpeechRequests \cup {NoOne}]
  <2>1. CASE s1[r].backend = "piper"
    <3>1. s10' = [s10 EXCEPT !["piper"] = NoOne]
      BY <1>2, <2>1 DEF Synthesis!ReleaseAfterWrite, Synthesis!Unlock, Synthesis!Backend
    <3>2. s10' \in [Synthesis!Backends -> SpeechRequests \cup {NoOne}] BY <1>1, <3>1, SynthesisTypes
    <3>3. Synthesis!LocksHeld'
      BY <1>1, <1>2, <1>4, <2>1, <3>1, SynthesisTypes, SynthesisLockGiven DEF Synthesis!Backends
    <3> QED BY <3>2, <3>3
  <2>2. CASE s1[r].backend = "kokoro"
    <3>1. s10' = s10 BY <1>2, <2>2 DEF Synthesis!ReleaseAfterWrite, Synthesis!Backend
    <3> QED BY <1>1, <1>2, <1>4, <2>2, <3>1, SynthesisTypes, SynthesisLocksStay
  <2> QED BY <1>4, <2>1, <2>2
<1>6. s5[r] = {"source"} /\ s6[r] \subseteq {"source"} /\ s4[r] = <<>>
  BY <1>1, <1>2 DEF Synthesis!FilesOfPlace
<1>7. /\ s5' \in [SpeechRequests -> SUBSET (Synthesis!Formats \cup {"source"})]
      /\ s6' \in [SpeechRequests -> SUBSET (Synthesis!Formats \cup {"source"})]
      /\ s5'[r] = (IF place = "spoken" THEN {"source"} ELSE {}) /\ s6'[r] = s5'[r]
      /\ \A q \in SpeechRequests : q # r => s5'[q] = s5[q] /\ s6'[q] = s6[q]
  <2>1. CASE place = "spoken" /\ Synthesis!Complete(r, "source") BY <1>1, <1>6, <2>1, SynthesisComplete
  <2>2. CASE place = "error" /\ Synthesis!Drop(r, {"source"})
    <3>1. s5[r] \ {"source"} = {} /\ s6[r] \ {"source"} = {} BY <1>6
    <3> QED BY <1>1, <2>2, <3>1, SynthesisDrop
  <2> QED BY <1>2, <2>1, <2>2
<1>8. Synthesis!WithinRequest(r)' BY <1>1, <1>2, <1>4 DEF Synthesis!WithinRequest, Synthesis!Backend
<1>9. Synthesis!Promised(r)' = {"source"}
  <2>1. s4'[r] = <<>> BY <1>2, <1>6
  <2>2. Synthesis!Elements(<<>>) = {} BY DEF Synthesis!Elements
  <2> QED BY <2>1, <2>2 DEF Synthesis!Promised
<1>10. Synthesis!FilesOfPlace(r)' BY <1>2, <1>4, <1>6, <1>7, <1>9 DEF Synthesis!FilesOfPlace
<1> QED BY <1>1, <1>2, <1>3, <1>5, <1>7, <1>8, <1>10, SynthesisTypes, SynthesisAfter

(* An export is appended to those before it, in the order in which they were asked for. *)
LEMMA SynthesisExported ==
  ASSUME Synthesis!TypeOK, NEW r \in SpeechRequests, s1' = s1, Synthesis!Exported(r),
         s1[r].formats \in Seq(Synthesis!Formats), Synthesis!Pending(r), Synthesis!WithinRequest(r)
  PROVE  /\ s4' \in [SpeechRequests -> Seq(Synthesis!Formats)]
         /\ \A q \in SpeechRequests : q # r => s4'[q] = s4[q]
         /\ Len(s4'[r]) <= Len(s1[r].formats)
         /\ \A i \in 1 .. Len(s4'[r]) : s4'[r][i] = s1[r].formats[i]
         /\ Synthesis!NextFormat(r) \in Synthesis!Formats
         /\ Synthesis!Promised(r)' = Synthesis!Promised(r) \cup {Synthesis!FileOf(Synthesis!NextFormat(r))}
<1>1. PICK seq \in Seq(Synthesis!Formats) : seq = s4[r] BY SynthesisTypes
<1>2. PICK formats \in Seq(Synthesis!Formats) : formats = s1[r].formats OBVIOUS
<1>3. PICK n \in Nat : n = Len(seq) BY <1>1
<1>4. PICK m \in Nat : m = Len(formats) BY <1>2
<1>5. n < m /\ \A i \in 1 .. n : seq[i] = formats[i]
  BY <1>1, <1>2, <1>3, <1>4 DEF Synthesis!Pending, Synthesis!WithinRequest
<1>6. PICK x : x = formats[n + 1] OBVIOUS
<1>7. x \in Synthesis!Formats BY <1>2, <1>4, <1>5, <1>6
<1>8. x = Synthesis!NextFormat(r) BY <1>1, <1>2, <1>3, <1>6 DEF Synthesis!NextFormat
<1>9. PICK new : new = Append(seq, x) OBVIOUS
<1>10. new \in Seq(Synthesis!Formats) /\ Len(new) = n + 1 /\ new[n + 1] = x /\ \A i \in 1 .. n : new[i] = seq[i]
  BY <1>3, <1>7, <1>9
<1>11. s4' = [s4 EXCEPT ![r] = new] BY <1>1, <1>8, <1>9 DEF Synthesis!Exported
<1>12. /\ s4' \in [SpeechRequests -> Seq(Synthesis!Formats)] /\ s4'[r] = new
       /\ \A q \in SpeechRequests : q # r => s4'[q] = s4[q]
  BY <1>10, <1>11, SynthesisTypes
<1>13. \A i \in 1 .. n + 1 : new[i] = formats[i]
  <2> TAKE i \in 1 .. n + 1
  <2>1. i \in 1 .. n \/ i = n + 1 BY <1>3
  <2> QED BY <2>1, <1>5, <1>6, <1>10
<1>14. Synthesis!Elements(new) = Synthesis!Elements(seq) \cup {x}
  <2>1. DOMAIN new = 1 .. n + 1 /\ DOMAIN seq = 1 .. n BY <1>1, <1>3, <1>10
  <2>2. DOMAIN new = DOMAIN seq \cup {n + 1} BY <2>1, <1>3
  <2>3. (\A i \in DOMAIN seq : new[i] = seq[i]) /\ new[n + 1] = x BY <2>1, <1>10
  <2> QED BY <2>2, <2>3 DEF Synthesis!Elements
<1>15. Synthesis!Promised(r)' = Synthesis!Promised(r) \cup {Synthesis!FileOf(x)}
  BY <1>1, <1>12, <1>14 DEF Synthesis!Promised
<1> QED BY <1>2, <1>4, <1>5, <1>7, <1>8, <1>10, <1>12, <1>13, <1>15

(* Between the WAV and the answer files are made, one after the other. *)
LEMMA SynthesisExport ==
  ASSUME Synthesis!SpeechAssumption, Synthesis!IInv, NEW r \in SpeechRequests, Synthesis!Export(r)
  PROVE  Synthesis!IInv'
<1>1. Synthesis!TypeOK /\ Synthesis!WithinRequest(r) /\ Synthesis!FilesOfPlace(r) BY DEF Synthesis!IInv
<1>2. s2[r] = "spoken" /\ Synthesis!Pending(r) /\ UNCHANGED <<s1, s3, s7, s8, s9, s10>>
  BY DEF Synthesis!Export, Synthesis!locks
<1>3. "spoken" \in Synthesis!Places \ {"switched"} /\ "convert" \in Synthesis!Places \ {"switched"}
  BY DEF Synthesis!Places
<1>4. /\ Synthesis!Promised(r) \subseteq s6[r] /\ s6[r] \subseteq s5[r] /\ s5[r] = Synthesis!Promised(r)
  BY <1>1, <1>2 DEF Synthesis!FilesOfPlace
<1>5. CASE Synthesis!NextFormat(r) = "wav"
  <2>1. Synthesis!Exported(r) /\ s2' = s2 /\ s5' = s5 /\ s6' = s6
    BY <1>5 DEF Synthesis!Export, Synthesis!disk
  <2>2. Synthesis!Goto(r, "spoken") BY <1>1, <1>2, <2>1, SynthesisTypes DEF Synthesis!Goto
  <2>3. s1[r].formats \in Seq(Synthesis!Formats) /\ s2'[r] = "spoken" BY <1>3, <2>2, SynthesisMove
  <2>4. /\ s4' \in [SpeechRequests -> Seq(Synthesis!Formats)]
        /\ \A q \in SpeechRequests : q # r => s4'[q] = s4[q]
        /\ Len(s4'[r]) <= Len(s1[r].formats)
        /\ \A i \in 1 .. Len(s4'[r]) : s4'[r][i] = s1[r].formats[i]
        /\ Synthesis!Promised(r)' = Synthesis!Promised(r) \cup {Synthesis!FileOf("wav")}
    BY <1>1, <1>2, <1>5, <2>1, <2>3, SynthesisExported
  <2>5. Synthesis!Promised(r)' = Synthesis!Promised(r)
    BY <2>4 DEF Synthesis!FileOf, Synthesis!Promised
  <2>6. Synthesis!LocksHeld' BY <1>1, <1>2, <2>1, <2>3, SynthesisTypes, SynthesisLocksStay
  <2>7. Synthesis!WithinRequest(r)' BY <1>1, <1>2, <2>3, <2>4 DEF Synthesis!WithinRequest, Synthesis!Backend
  <2>8. Synthesis!FilesOfPlace(r)' BY <1>4, <2>1, <2>3, <2>5 DEF Synthesis!FilesOfPlace
  <2> QED BY <1>1, <1>2, <1>3, <2>1, <2>2, <2>4, <2>6, <2>7, <2>8, SynthesisTypes, SynthesisAfter
<1>6. CASE Synthesis!NextFormat(r) # "wav"
  <2>1. PICK x : x = Synthesis!NextFormat(r) OBVIOUS
  <2>2. Synthesis!Reserve(r, x) /\ Synthesis!Goto(r, "convert") /\ s4' = s4
    BY <1>6, <2>1 DEF Synthesis!Export
  <2>3. /\ s1[r].formats \in Seq(Synthesis!Formats) /\ s2'[r] = "convert"
        /\ \A q \in SpeechRequests : q # r => s2'[q] = s2[q]
    BY <1>3, <2>2, SynthesisMove
  <2>4. x \in Synthesis!Formats
    <3>1. Len(s4[r]) \in Nat BY <1>1, SynthesisTypes
    <3> QED BY <1>2, <2>1, <2>3, <3>1 DEF Synthesis!Pending, Synthesis!NextFormat
  <2>5. /\ s5' \in [SpeechRequests -> SUBSET (Synthesis!Formats \cup {"source"})]
        /\ s6' \in [SpeechRequests -> SUBSET (Synthesis!Formats \cup {"source"})]
        /\ s5'[r] = s5[r] \cup {x} /\ s6' = s6 /\ \A q \in SpeechRequests : q # r => s5'[q] = s5[q]
    BY <1>1, <2>2, <2>4, SynthesisReserve
  <2>6. Synthesis!LocksHeld' BY <1>1, <1>2, <2>3, SynthesisTypes, SynthesisLocksStay
  <2>7. Synthesis!WithinRequest(r)' BY <1>1, <1>2, <2>2, <2>3 DEF Synthesis!WithinRequest, Synthesis!Backend
  <2>8. /\ Synthesis!Promised(r)' = Synthesis!Promised(r) /\ Synthesis!Pending(r)'
        /\ Synthesis!NextFormat(r)' = x
    BY <1>2, <2>1, <2>2 DEF Synthesis!Promised, Synthesis!Pending, Synthesis!NextFormat
  <2>9. Synthesis!FilesOfPlace(r)' BY <1>4, <1>6, <2>1, <2>3, <2>5, <2>8 DEF Synthesis!FilesOfPlace
  <2> QED BY <1>1, <1>2, <1>3, <2>2, <2>5, <2>6, <2>7, <2>9, SynthesisTypes, SynthesisAfter
<1> QED BY <1>5, <1>6

LEMMA SynthesisConverted ==
  ASSUME Synthesis!SpeechAssumption, Synthesis!IInv, NEW r \in SpeechRequests, Synthesis!Converted(r)
  PROVE  Synthesis!IInv'
<1>1. Synthesis!TypeOK /\ Synthesis!WithinRequest(r) /\ Synthesis!FilesOfPlace(r) BY DEF Synthesis!IInv
<1>2. PICK x : x = Synthesis!NextFormat(r) OBVIOUS
<1>3. /\ s2[r] = "convert" /\ Synthesis!Complete(r, x) /\ Synthesis!Exported(r) /\ Synthesis!Goto(r, "spoken")
      /\ UNCHANGED <<s1, s3, s7, s8, s9, s10>>
  BY <1>2 DEF Synthesis!Converted, Synthesis!locks
<1>4. "spoken" \in Synthesis!Places \ {"switched"} BY DEF Synthesis!Places
<1>5. /\ s1[r].formats \in Seq(Synthesis!Formats) /\ s2'[r] = "spoken"
      /\ \A q \in SpeechRequests : q # r => s2'[q] = s2[q]
  BY <1>3, <1>4, SynthesisMove
<1>6. /\ Synthesis!Pending(r) /\ x # "wav" /\ s5[r] = Synthesis!Promised(r) \cup {x}
      /\ Synthesis!Promised(r) \subseteq s6[r] /\ s6[r] \subseteq s5[r]
  BY <1>1, <1>2, <1>3 DEF Synthesis!FilesOfPlace
<1>7. /\ s4' \in [SpeechRequests -> Seq(Synthesis!Formats)]
      /\ \A q \in SpeechRequests : q # r => s4'[q] = s4[q]
      /\ Len(s4'[r]) <= Len(s1[r].formats)
      /\ \A i \in 1 .. Len(s4'[r]) : s4'[r][i] = s1[r].formats[i]
      /\ x \in Synthesis!Formats
      /\ Synthesis!Promised(r)' = Synthesis!Promised(r) \cup {Synthesis!FileOf(x)}
  BY <1>1, <1>2, <1>3, <1>5, <1>6, SynthesisExported
<1>8. Synthesis!Promised(r)' = Synthesis!Promised(r) \cup {x} BY <1>6, <1>7 DEF Synthesis!FileOf
<1>9. /\ s5' \in [SpeechRequests -> SUBSET (Synthesis!Formats \cup {"source"})]
      /\ s6' \in [SpeechRequests -> SUBSET (Synthesis!Formats \cup {"source"})]
      /\ s6'[r] = s6[r] \cup {x} /\ s5' = s5 /\ \A q \in SpeechRequests : q # r => s6'[q] = s6[q]
  BY <1>1, <1>3, <1>7, SynthesisComplete
<1>10. Synthesis!LocksHeld' BY <1>1, <1>3, <1>5, SynthesisTypes, SynthesisLocksStay
<1>11. Synthesis!WithinRequest(r)' BY <1>1, <1>3, <1>5, <1>7 DEF Synthesis!WithinRequest, Synthesis!Backend
<1>12. Synthesis!FilesOfPlace(r)' BY <1>5, <1>6, <1>8, <1>9 DEF Synthesis!FilesOfPlace
<1> QED BY <1>1, <1>3, <1>4, <1>7, <1>9, <1>10, <1>11, <1>12, SynthesisTypes, SynthesisAfter

(* The target of a conversion that failed goes, and at the end all that was exported. *)
LEMMA SynthesisConvertFails ==
  ASSUME Synthesis!SpeechAssumption, Synthesis!IInv, NEW r \in SpeechRequests, Synthesis!ConvertFails(r)
  PROVE  Synthesis!IInv'
<1>1. Synthesis!TypeOK /\ Synthesis!WithinRequest(r) /\ Synthesis!FilesOfPlace(r) BY DEF Synthesis!IInv
<1>2. PICK x : x = Synthesis!NextFormat(r) OBVIOUS
<1>3. /\ s2[r] = "convert" /\ Synthesis!Drop(r, {x}) /\ Synthesis!Goto(r, "failed")
      /\ UNCHANGED <<s1, s3, s4, s7, s8, s9, s10>>
  BY <1>2 DEF Synthesis!ConvertFails, Synthesis!locks
<1>4. "failed" \in Synthesis!Places \ {"switched"} BY DEF Synthesis!Places
<1>5. s2'[r] = "failed" /\ \A q \in SpeechRequests : q # r => s2'[q] = s2[q] BY <1>3, <1>4, SynthesisMove
<1>6. s5[r] = Synthesis!Promised(r) \cup {x} /\ s6[r] \subseteq s5[r]
  BY <1>1, <1>2, <1>3 DEF Synthesis!FilesOfPlace
<1>7. /\ s5' \in [SpeechRequests -> SUBSET (Synthesis!Formats \cup {"source"})]
      /\ s6' \in [SpeechRequests -> SUBSET (Synthesis!Formats \cup {"source"})]
      /\ s5'[r] = s5[r] \ {x} /\ s6'[r] = s6[r] \ {x}
      /\ \A q \in SpeechRequests : q # r => s5'[q] = s5[q] /\ s6'[q] = s6[q]
  BY <1>1, <1>3, SynthesisDrop
<1>8. Synthesis!LocksHeld' BY <1>1, <1>3, <1>5, SynthesisTypes, SynthesisLocksStay
<1>9. Synthesis!WithinRequest(r)' BY <1>1, <1>3, <1>5 DEF Synthesis!WithinRequest, Synthesis!Backend
<1>10. Synthesis!Promised(r)' = Synthesis!Promised(r) BY <1>3 DEF Synthesis!Promised
<1>11. Synthesis!FilesOfPlace(r)' BY <1>5, <1>6, <1>7, <1>10 DEF Synthesis!FilesOfPlace
<1> QED BY <1>1, <1>3, <1>4, <1>7, <1>8, <1>9, <1>11, SynthesisTypes, SynthesisAfter

LEMMA SynthesisCleanup ==
  ASSUME Synthesis!SpeechAssumption, Synthesis!IInv, NEW r \in SpeechRequests, Synthesis!Cleanup(r)
  PROVE  Synthesis!IInv'
<1>1. Synthesis!TypeOK /\ Synthesis!WithinRequest(r) /\ Synthesis!FilesOfPlace(r) BY DEF Synthesis!IInv
<1>2. PICK place \in {"done", "error"} :
      /\ Synthesis!Goto(r, place) /\ UNCHANGED <<s1, s3, s4, s7, s8, s9, s10>>
      /\ Synthesis!Drop(r, Synthesis!Promised(r))
      /\ s2[r] \in {"answered", "failed"} /\ (place = "done" <=> s2[r] = "answered")
  BY DEF Synthesis!Cleanup, Synthesis!Promised, Synthesis!locks
<1>3. place \in Synthesis!Places \ {"switched"} BY DEF Synthesis!Places
<1>4. s2'[r] = place /\ \A q \in SpeechRequests : q # r => s2'[q] = s2[q] BY <1>2, <1>3, SynthesisMove
<1>5. s5[r] \subseteq Synthesis!Promised(r) /\ s6[r] \subseteq s5[r]
  BY <1>1, <1>2 DEF Synthesis!FilesOfPlace
<1>6. /\ s5' \in [SpeechRequests -> SUBSET (Synthesis!Formats \cup {"source"})]
      /\ s6' \in [SpeechRequests -> SUBSET (Synthesis!Formats \cup {"source"})]
      /\ s5'[r] = s5[r] \ Synthesis!Promised(r) /\ s6'[r] = s6[r] \ Synthesis!Promised(r)
      /\ \A q \in SpeechRequests : q # r => s5'[q] = s5[q] /\ s6'[q] = s6[q]
  BY <1>1, <1>2, SynthesisDrop
<1>7. s5'[r] = {} /\ s6'[r] = {} BY <1>5, <1>6
<1>8. Synthesis!LocksHeld' BY <1>1, <1>2, <1>4, SynthesisTypes, SynthesisLocksStay
<1>9. Synthesis!WithinRequest(r)' BY <1>1, <1>2, <1>4 DEF Synthesis!WithinRequest, Synthesis!Backend
<1>10. Synthesis!FilesOfPlace(r)' BY <1>1, <1>2, <1>4, <1>7 DEF Synthesis!FilesOfPlace
<1> QED BY <1>1, <1>2, <1>3, <1>6, <1>8, <1>9, <1>10, SynthesisTypes, SynthesisAfter

(* All formats are exported, and all that was exported is whole. *)
LEMMA SynthesisAnswer ==
  ASSUME Synthesis!SpeechAssumption, Synthesis!IInv, NEW r \in SpeechRequests, Synthesis!Answer(r)
  PROVE  Synthesis!IInv'
<1>1. Synthesis!TypeOK /\ Synthesis!WithinRequest(r) /\ Synthesis!FilesOfPlace(r) BY DEF Synthesis!IInv
<1>2. /\ s2[r] = "spoken" /\ ~Synthesis!Pending(r) /\ Synthesis!Goto(r, "answered")
      /\ UNCHANGED <<s1, s3, s4, s5, s6, s8, s9, s10>>
      /\ s7' = [s7 EXCEPT ![r] = {<<format, Synthesis!FileOf(format) \in s6[r]>> :
                                     format \in Synthesis!Elements(s1[r].formats)}]
  BY DEF Synthesis!Answer, Synthesis!disk, Synthesis!locks
<1>3. "answered" \in Synthesis!Places \ {"switched"} BY DEF Synthesis!Places
<1>4. /\ s1[r].formats \in Seq(Synthesis!Formats) /\ s2'[r] = "answered"
      /\ \A q \in SpeechRequests : q # r => s2'[q] = s2[q]
  BY <1>2, <1>3, SynthesisMove
<1>5. /\ Synthesis!Promised(r) \subseteq s6[r] /\ s6[r] \subseteq s5[r] /\ s5[r] \subseteq Synthesis!Promised(r)
  BY <1>1, <1>2 DEF Synthesis!FilesOfPlace
<1>6. Synthesis!Elements(s4[r]) = Synthesis!Elements(s1[r].formats)
  <2>1. s4[r] \in Seq(Synthesis!Formats) BY <1>1, SynthesisTypes
  <2>2. PICK n \in Nat : n = Len(s4[r]) BY <2>1
  <2>3. PICK m \in Nat : m = Len(s1[r].formats) BY <1>4
  <2>4. n = m /\ \A i \in 1 .. n : s4[r][i] = s1[r].formats[i]
    BY <1>1, <1>2, <2>2, <2>3 DEF Synthesis!Pending, Synthesis!WithinRequest
  <2>5. DOMAIN s4[r] = 1 .. n /\ DOMAIN s1[r].formats = 1 .. n
    <3>1. DOMAIN s4[r] = 1 .. Len(s4[r]) BY <2>1
    <3>2. DOMAIN s1[r].formats = 1 .. Len(s1[r].formats) BY <1>4
    <3> QED BY <2>2, <2>3, <2>4, <3>1, <3>2
  <2> QED BY <2>4, <2>5 DEF Synthesis!Elements
<1>7. PICK formats : formats = Synthesis!Elements(s1[r].formats) OBVIOUS
<1>8. \A format \in formats : (Synthesis!FileOf(format) \in s6[r]) = TRUE
  BY <1>5, <1>6, <1>7 DEF Synthesis!Promised
<1>9. PICK said : said = {<<format, TRUE>> : format \in formats} OBVIOUS
<1>10. {<<format, Synthesis!FileOf(format) \in s6[r]>> : format \in formats} = said BY <1>8, <1>9, Zenon
<1>11. s7' = [s7 EXCEPT ![r] = said] BY <1>2, <1>7, <1>10, Zenon
<1>12. formats \subseteq Synthesis!Formats BY <1>4, <1>7 DEF Synthesis!Elements
<1>13. said \in SUBSET (Synthesis!Formats \X BOOLEAN)
  <2>1. ASSUME NEW pair \in said PROVE pair \in Synthesis!Formats \X BOOLEAN
    <3>1. PICK format \in formats : pair = <<format, TRUE>> BY <1>9, <2>1, Zenon
    <3>2. format \in Synthesis!Formats BY <1>12, <3>1
    <3> QED BY <3>1, <3>2
  <2> QED BY <2>1, Zenon
<1>14. /\ s7' \in [SpeechRequests -> SUBSET (Synthesis!Formats \X BOOLEAN)]
       /\ s7'[r] = said /\ \A q \in SpeechRequests : q # r => s7'[q] = s7[q]
  <2>1. PICK type : type = SUBSET (Synthesis!Formats \X BOOLEAN) OBVIOUS
  <2>2. said \in type /\ s7 \in [SpeechRequests -> type] BY <1>1, <1>13, <2>1, SynthesisTypes, Zenon
  <2>3. /\ s7' \in [SpeechRequests -> type]
        /\ s7'[r] = said /\ \A q \in SpeechRequests : q # r => s7'[q] = s7[q]
    BY <1>11, <2>2
  <2> QED BY <2>1, <2>3, Zenon
<1>15. s7'[r] = {<<format, TRUE>> : format \in Synthesis!Elements(s1'[r].formats)}
  <2>1. s1' = s1 BY <1>2
  <2> QED BY <1>7, <1>9, <1>14, <2>1, Zenon
<1>16. Synthesis!LocksHeld' BY <1>1, <1>2, <1>4, SynthesisTypes, SynthesisLocksStay
<1>17. Synthesis!WithinRequest(r)' BY <1>1, <1>2, <1>4 DEF Synthesis!WithinRequest, Synthesis!Backend
<1>18. Synthesis!Promised(r)' = Synthesis!Promised(r) BY <1>2 DEF Synthesis!Promised
<1>19. Synthesis!FilesOfPlace(r)'
  <2>1. s5' = s5 /\ s6' = s6 BY <1>2
  <2> HIDE <1>2
  <2>2. PICK answer : answer = {<<format, TRUE>> : format \in Synthesis!Elements(s1'[r].formats)} OBVIOUS
  <2>3. s7'[r] = answer BY <1>15, <2>2
  <2> QED BY <1>4, <1>5, <1>18, <2>1, <2>2, <2>3 DEF Synthesis!FilesOfPlace
<1>20. /\ s4' \in [SpeechRequests -> Seq(Synthesis!Formats)]
       /\ s5' \in [SpeechRequests -> SUBSET (Synthesis!Formats \cup {"source"})]
       /\ s6' \in [SpeechRequests -> SUBSET (Synthesis!Formats \cup {"source"})]
       /\ s10' \in [Synthesis!Backends -> SpeechRequests \cup {NoOne}]
  BY <1>1, <1>2, SynthesisTypes
<1> QED BY <1>2, <1>3, <1>14, <1>16, <1>17, <1>19, <1>20, SynthesisAfter

LEMMA SynthesisNext ==
  ASSUME Synthesis!SpeechAssumption, Synthesis!IInv, [Synthesis!Next]_(Synthesis!vars)
  PROVE  Synthesis!IInv'
<1>1. CASE UNCHANGED Synthesis!vars
  <2>1. UNCHANGED <<s1, s2, s3, s4, s5, s6, s7, s8, s9, s10>>
    BY <1>1 DEF Synthesis!vars, Synthesis!disk, Synthesis!locks
  <2>2. Synthesis!LocksHeld' BY <2>1, SynthesisTypes DEF Synthesis!IInv, Synthesis!LocksHeld, Synthesis!Infers
  <2>3. Synthesis!TypeOK' BY <2>1, <2>2 DEF Synthesis!IInv, Synthesis!TypeOK
  <2>4. ASSUME NEW q \in SpeechRequests
        PROVE  Synthesis!WithinRequest(q)' /\ Synthesis!SpokenInOwn(q)' /\ Synthesis!FilesOfPlace(q)'
    BY <2>1, SynthesisSame DEF Synthesis!IInv
  <2> QED BY <2>3, <2>4 DEF Synthesis!IInv
<1>2. CASE Synthesis!Next
  <2>1. PICK r \in SpeechRequests : Synthesis!Steps(r) BY <1>2 DEF Synthesis!Next
  <2> QED
    BY <2>1, SynthesisSwitch, SynthesisPhonemize, SynthesisSimple, SynthesisInfer, SynthesisInferred,
       SynthesisPiper, SynthesisWritten, SynthesisExport, SynthesisConverted, SynthesisConvertFails,
       SynthesisAnswer, SynthesisCleanup
    DEF Synthesis!Steps
<1> QED BY <1>1, <1>2

SynthesisInv == running = "synthesis" => Synthesis!IInv

LEMMA SynthesisInductive ==
  /\ MediaInit => SynthesisInv
  /\ SynthesisInv /\ [MediaNext]_all => SynthesisInv'
<1>1. Synthesis!SpeechAssumption BY MediaAssumption
<1>2. MediaInit => SynthesisInv BY <1>1, SynthesisStart, SynthesisInit DEF SynthesisInv
<1>3. ASSUME SynthesisInv, [MediaNext]_all PROVE SynthesisInv'
  <2> SUFFICES ASSUME running' = "synthesis" PROVE Synthesis!IInv' BY DEF SynthesisInv
  <2> QED BY <1>1, <1>3, SynthesisRuns, SynthesisNext DEF SynthesisInv
<1> QED BY <1>2, <1>3

LEMMA SynthesisHolds ==
  ASSUME Synthesis!IInv
  PROVE  Synthesis!TypeOK /\ Synthesis!OwnLanguage /\ Synthesis!NothingLeft /\ Synthesis!AnswersWhole
<1>1. Synthesis!TypeOK BY DEF Synthesis!IInv
<1>2. ASSUME NEW r \in SpeechRequests PROVE Synthesis!SpokenInOwn(r) /\ Synthesis!FilesOfPlace(r)
  BY DEF Synthesis!IInv
<1>3. Synthesis!OwnLanguage
  <2>1. ASSUME NEW r \in SpeechRequests, NEW i \in DOMAIN s3[r] PROVE s3[r][i] = s1[r].language
    <3>1. DOMAIN s3[r] = 1 .. Len(s3[r]) BY <1>1, SynthesisTypes
    <3> QED BY <1>2, <2>1, <3>1 DEF Synthesis!SpokenInOwn
  <2> QED BY <2>1 DEF Synthesis!OwnLanguage
<1>4. Synthesis!NothingLeft
  <2>1. ASSUME NEW r \in SpeechRequests, Synthesis!Over(r) PROVE s5[r] = {}
    BY <1>2, <2>1 DEF Synthesis!Over, Synthesis!FilesOfPlace
  <2> QED BY <2>1 DEF Synthesis!NothingLeft
<1>5. Synthesis!AnswersWhole
  <2>1. ASSUME NEW r \in SpeechRequests, s2[r] = "done"
        PROVE  s7[r] = {<<format, TRUE>> : format \in Synthesis!Elements(s1[r].formats)}
    BY <1>2, <2>1, Zenon DEF Synthesis!FilesOfPlace
  <2> QED BY <2>1, Zenon DEF Synthesis!AnswersWhole
<1> QED BY <1>1, <1>3, <1>4, <1>5

-----------------------------------------------------------------------------
(* Words of tokens *)

LEMMA TokensRuns ==
  ASSUME [MediaNext]_all, running' = "tokens"
  PROVE  running = "tokens" /\ [Tokens!Next]_(Tokens!vars)
  BY DEF MediaNext, Step, all, slots, Tokens!vars

LEMMA TokensStart == ASSUME MediaInit, running = "tokens" PROVE Tokens!Init
  BY DEF MediaInit, Launch

LEMMA TokensEnds ==
  ASSUME NEW words \in Seq(Tokens!Word), NEW i \in 1 .. Len(words)
  PROVE  words[i].end \in Int
<1>1. words[i] \in Tokens!Word BY ElementOfSeq, Zenon
<1> QED BY <1>1 DEF Tokens!Word

LEMMA TokensPart == ASSUME NEW i \in 1 .. 3 PROVE <<i>> \in Seq(1 .. 3) /\ <<i>> # <<>>
<1>1. PICK S : S = 1 .. 3 OBVIOUS
<1>2. <<i>> \in Seq(S) /\ <<i>> # <<>> BY <1>1
<1> QED BY <1>1, <1>2

LEMMA TokensClamped ==
  ASSUME NEW words \in Seq(Tokens!Word), NEW token \in Tokens!Token
  PROVE  Tokens!Clamped(words, token) \in [start : Int, end : Int]
<1>1. token.from \in Int /\ token.to \in Int BY DEF Tokens!Token
<1>2. words # <<>> => words[Len(words)] \in Tokens!Word
  <2>1. Len(words) \in Nat /\ (words # <<>> => Len(words) # 0) BY EmptySeq
  <2> QED BY <2>1
<1>3. words # <<>> => words[Len(words)].start \in Int BY <1>2 DEF Tokens!Word
<1>4. PICK floor \in Int : floor = IF words = <<>> THEN 1 ELSE words[Len(words)].start BY <1>3
<1>5. PICK start \in Int : start = Tokens!Least(Tokens!Greatest(token.from, floor), 3)
  BY <1>1 DEF Tokens!Least, Tokens!Greatest
<1>6. PICK end \in Int : end = Tokens!Least(Tokens!Greatest(token.to, start), 3)
  BY <1>1 DEF Tokens!Least, Tokens!Greatest
<1>7. Tokens!Clamped(words, token) = [start |-> start, end |-> end]
  BY <1>4, <1>5, <1>6 DEF Tokens!Clamped
<1> QED BY <1>7

(* The last word goes on: its end moves forward or stays, and nothing else changes. *)
LEMMA TokensExtended ==
  ASSUME NEW words \in Seq(Tokens!Word), words # <<>>,
         NEW time \in [start : Int, end : Int], NEW part \in Seq(1 .. 3)
  PROVE  /\ Tokens!Extended(words, time, part) \in Seq(Tokens!Word)
         /\ Len(Tokens!Extended(words, time, part)) = Len(words)
         /\ \A i \in 1 .. Len(words) :
              /\ words[i].end <= Tokens!Extended(words, time, part)[i].end
              /\ words[i].parts # <<>> => Tokens!Extended(words, time, part)[i].parts # <<>>
<1>1. PICK n \in Nat : n = Len(words) /\ n # 0 BY EmptySeq
<1>2. DOMAIN words = 1 .. n BY <1>1
<1>3. n \in 1 .. n BY <1>1
<1>4. PICK w \in Tokens!Word : w = words[n] BY <1>1, <1>3
<1>5. w.start \in Int /\ w.end \in Int /\ w.parts \in Seq(1 .. 3) BY DEF Tokens!Word
<1>6. PICK end \in Int : end = Tokens!Greatest(w.end, time.end) /\ w.end <= end
  BY <1>5 DEF Tokens!Greatest
<1>7. PICK parts \in Seq(1 .. 3) : parts = w.parts \o part BY <1>5, ConcatProperties, Zenon
<1>8. PICK longer \in Tokens!Word : longer = [w EXCEPT !.end = end]
  BY DEF Tokens!Word
<1>9. PICK new \in Tokens!Word : new = [longer EXCEPT !.parts = parts]
  BY DEF Tokens!Word
<1>10. new.end = end /\ new.parts = parts BY <1>5, <1>8, <1>9 DEF Tokens!Word
<1>12. PICK first : first = [words EXCEPT ![n] = longer] OBVIOUS
<1>11. first = [words EXCEPT ![n].end = Tokens!Greatest(words[n].end, time.end)]
  BY <1>4, <1>6, <1>8, <1>12
<1>13. first[n] = longer /\ longer.parts = w.parts
  <2>1. first[n] = longer BY <1>2, <1>3, <1>12
  <2>2. longer.parts = w.parts BY <1>8 DEF Tokens!Word
  <2> QED BY <2>1, <2>2
<1>14. Tokens!Extended(words, time, part) = [first EXCEPT ![n].parts = first[n].parts \o part]
  BY <1>1, <1>11, Zenon DEF Tokens!Extended
<1>15. [first EXCEPT ![n].parts = first[n].parts \o part] = [first EXCEPT ![n] = new]
  BY <1>7, <1>9, <1>13
<1>16. PICK then : then = Tokens!Extended(words, time, part) OBVIOUS
<1>17. then = [first EXCEPT ![n] = new] BY <1>14, <1>15, <1>16
<1>18. then = [words EXCEPT ![n] = new] BY <1>12, <1>17, <1>2
<1>19. then \in Seq(Tokens!Word) /\ Len(then) = n
  BY <1>1, <1>3, <1>18
<1>20. \A i \in 1 .. n : then[i] = IF i = n THEN new ELSE words[i] BY <1>2, <1>18
<1>21. \A i \in 1 .. n : words[i].end \in Int BY <1>1, TokensEnds
<1>22. w.parts # <<>> => parts # <<>> BY <1>5, <1>7
<1> QED BY <1>1, <1>4, <1>6, <1>10, <1>16, <1>19, <1>20, <1>21, <1>22

LEMMA TokensBegun ==
  ASSUME NEW words \in Seq(Tokens!Word),
         NEW time \in [start : Int, end : Int], NEW part \in Seq(1 .. 3)
  PROVE  /\ Tokens!Begun(words, time, part) \in Seq(Tokens!Word)
         /\ Len(Tokens!Begun(words, time, part)) = Len(words) + 1
         /\ \A i \in 1 .. Len(words) : Tokens!Begun(words, time, part)[i] = words[i]
         /\ Tokens!Begun(words, time, part)[Len(words) + 1].parts = part
<1>1. PICK new : new = [start |-> time.start, end |-> time.end, parts |-> part] OBVIOUS
<1>2. new \in Tokens!Word /\ new.parts = part BY <1>1 DEF Tokens!Word
<1>3. PICK n \in Nat : n = Len(words) OBVIOUS
<1>4. Tokens!Begun(words, time, part) = Append(words, new) BY <1>1 DEF Tokens!Begun
<1>5. /\ Append(words, new) \in Seq(Tokens!Word) /\ Len(Append(words, new)) = n + 1
      /\ \A i \in 1 .. n : Append(words, new)[i] = words[i]
      /\ Append(words, new)[n + 1] = new
  BY <1>2, <1>3
<1> QED BY <1>2, <1>3, <1>4, <1>5

LEMMA TokensCppStep ==
  ASSUME NEW words \in Seq(Tokens!Word), NEW pending \in BOOLEAN, NEW token \in Tokens!Token,
         NEW i \in 1 .. 3, \A k \in 1 .. Len(words) : words[k].parts # <<>>,
         NEW cpp, cpp = Tokens!CppStep(words, pending, token, i)
  PROVE  /\ cpp.words \in Seq(Tokens!Word)
         /\ \A k \in 1 .. Len(cpp.words) : cpp.words[k].parts # <<>>
         /\ \A k \in 1 .. Len(words) : k <= Len(cpp.words) => words[k].end <= cpp.words[k].end
<1>1. PICK n \in Nat : n = Len(words) OBVIOUS
<1>2. \A k \in 1 .. n : words[k].end \in Int BY <1>1, TokensEnds
<1>3. ASSUME cpp.words = words
      PROVE  /\ cpp.words \in Seq(Tokens!Word)
             /\ \A k \in 1 .. Len(cpp.words) : cpp.words[k].parts # <<>>
             /\ \A k \in 1 .. Len(words) : k <= Len(cpp.words) => words[k].end <= cpp.words[k].end
  BY <1>1, <1>2, <1>3
<1>4. PICK time \in [start : Int, end : Int] : time = Tokens!Clamped(words, token) BY TokensClamped
<1>5. PICK part \in Seq(1 .. 3) : part = <<i>> /\ part # <<>> BY TokensPart, Zenon
<1>6. cpp = CASE token.kind = "special" -> [words |-> words, pending |-> pending]
              [] token.kind = "blank" -> [words |-> words, pending |-> TRUE]
              [] words # <<>> /\ ~pending /\ token.kind # "begin" ->
                   [words |-> Tokens!Extended(words, time, part), pending |-> FALSE]
              [] OTHER -> [words |-> Tokens!Begun(words, time, part), pending |-> FALSE]
  BY <1>4, <1>5, Zenon DEF Tokens!CppStep
<1>7. \/ cpp.words = words
      \/ words # <<>> /\ cpp.words = Tokens!Extended(words, time, part)
      \/ cpp.words = Tokens!Begun(words, time, part)
  BY <1>6
<1>8. CASE words # <<>> /\ cpp.words = Tokens!Extended(words, time, part)
  BY <1>8, TokensExtended
<1>9. CASE cpp.words = Tokens!Begun(words, time, part)
  <2>1. /\ cpp.words \in Seq(Tokens!Word) /\ Len(cpp.words) = n + 1
        /\ \A k \in 1 .. n : cpp.words[k] = words[k]
        /\ cpp.words[n + 1].parts = part
    BY <1>1, <1>9, TokensBegun
  <2>2. \A k \in 1 .. n + 1 : k \in 1 .. n \/ k = n + 1 OBVIOUS
  <2>3. \A k \in 1 .. n : cpp.words[k].parts # <<>> BY <1>1, <2>1
  <2>4. \A k \in 1 .. n : words[k].end <= cpp.words[k].end BY <1>2, <2>1
  <2> QED BY <1>1, <1>5, <2>1, <2>2, <2>3, <2>4, Zenon
<1> QED BY <1>3, <1>7, <1>8, <1>9

LEMMA TokensParakeetStep ==
  ASSUME NEW words \in Seq(Tokens!Word), NEW token \in Tokens!Token, NEW i \in 1 .. 3
  PROVE  Tokens!ParakeetStep(words, token, i) \in Seq(Tokens!Word)
<1>1. PICK time \in [start : Int, end : Int] : time = Tokens!Clamped(words, token) BY TokensClamped
<1>2. PICK part \in Seq(1 .. 3) : part = IF token.kind = "blank" THEN <<>> ELSE <<i>>
  <2>1. <<>> \in Seq(1 .. 3) /\ <<i>> \in Seq(1 .. 3) BY TokensPart
  <2> QED BY <2>1, Zenon
<1>3. Tokens!ParakeetStep(words, token, i) =
        IF token.kind = "special" THEN words
        ELSE IF words # <<>> /\ token.kind = "piece" THEN Tokens!Extended(words, time, part)
        ELSE Tokens!Begun(words, time, part)
  BY <1>1, <1>2 DEF Tokens!ParakeetStep
<1> QED BY <1>3, TokensExtended, TokensBegun

(* What a token does to the words, and what it never does. *)
LEMMA TokensNext ==
  ASSUME Tokens!TypeOK, s3 \in BOOLEAN, [Tokens!Next]_(Tokens!vars)
  PROVE  Tokens!TypeOK' /\ s3' \in BOOLEAN /\ Tokens!EndsOnlyGrow
<1>1. /\ s1 \in Seq(Tokens!Token) /\ Len(s1) \in 0 .. 3
      /\ s2 \in Seq(Tokens!Word) /\ s4 \in Seq(Tokens!Word)
      /\ \A i \in 1 .. Len(s2) : s2[i].parts # <<>>
      /\ s5 => s2 = <<>> /\ s4 = <<>>
  <2>1. s1 \in Seq(Tokens!Token) /\ Len(s1) <= 3 BY DEF Tokens!TypeOK
  <2>3. Len(s1) \in Nat BY <2>1, LenProperties, Zenon
  <2>2. Len(s1) \in 0 .. 3
    <3>1. PICK n \in Nat : n = Len(s1) BY <2>3
    <3>2. n <= 3 BY <2>1, <3>1
    <3> QED BY <3>1, <3>2
  <2> QED BY <2>1, <2>2, Zenon DEF Tokens!TypeOK
<1>2. CASE UNCHANGED Tokens!vars
  <2>1. PICK n \in Nat : n = Len(s2) BY <1>1
  <2>2. \A i \in 1 .. n : s2[i].end \in Int BY <1>1, <2>1, TokensEnds
  <2>3. Tokens!EndsOnlyGrow BY <1>2, <2>1, <2>2 DEF Tokens!vars, Tokens!EndsOnlyGrow
  <2>4. Tokens!TypeOK' BY <1>2 DEF Tokens!vars, Tokens!TypeOK
  <2> QED BY <1>2, <2>3, <2>4 DEF Tokens!vars
<1>3. ASSUME NEW token \in Tokens!Token, Tokens!Read(token)
      PROVE  Tokens!TypeOK' /\ s3' \in BOOLEAN /\ Tokens!EndsOnlyGrow
  <2>1. PICK n \in Nat : n = Len(s1) BY <1>1
  <2>2. ~s5 /\ n < 3 /\ s1' = Append(s1, token) BY <1>3, <2>1 DEF Tokens!Read
  <2>3. s1' \in Seq(Tokens!Token) /\ Len(s1') <= 3
    <3>1. Len(Append(s1, token)) = n + 1 /\ Append(s1, token) \in Seq(Tokens!Token) BY <1>1, <2>1
    <3> QED BY <2>2, <3>1
  <2>4. PICK i \in 1 .. 3 : i = n + 1 BY <2>2
  <2>5. CASE token.kind = "malformed"
    <3>1. s2' = <<>> /\ s4' = <<>> /\ s3' = s3 BY <1>3, <2>5 DEF Tokens!Read
    <3>2. <<>> \in Seq(Tokens!Word) /\ Len(<<>>) = 0 OBVIOUS
    <3>3. \A k \in 1 .. 0 : FALSE OBVIOUS
    <3>4. Tokens!TypeOK' BY <2>3, <3>1, <3>2, <3>3 DEF Tokens!TypeOK
    <3>5. Tokens!EndsOnlyGrow
      <4>1. Len(s2) \in Nat BY <1>1
      <4>2. \A k \in 1 .. Len(s2) : ~(k <= 0) BY <4>1
      <4> QED BY <3>1, <3>2, <4>2 DEF Tokens!EndsOnlyGrow
    <3> QED BY <3>1, <3>4, <3>5
  <2>6. CASE token.kind # "malformed"
    <3>1. PICK cpp : cpp = Tokens!CppStep(s2, s3, token, i) OBVIOUS
    <3>2. s2' = cpp.words /\ s3' = cpp.pending /\ s4' = Tokens!ParakeetStep(s4, token, i) /\ s5' = s5
      BY <1>3, <2>1, <2>4, <2>6, <3>1 DEF Tokens!Read
    <3>3. cpp.pending \in BOOLEAN BY <3>1, Zenon DEF Tokens!CppStep
    <3>4. /\ cpp.words \in Seq(Tokens!Word)
          /\ \A k \in 1 .. Len(cpp.words) : cpp.words[k].parts # <<>>
          /\ \A k \in 1 .. Len(s2) : k <= Len(cpp.words) => s2[k].end <= cpp.words[k].end
      BY <1>1, <3>1, TokensCppStep, Zenon
    <3>5. s4' \in Seq(Tokens!Word) BY <1>1, <3>2, TokensParakeetStep
    <3>6. Tokens!TypeOK' BY <2>2, <2>3, <3>2, <3>4, <3>5 DEF Tokens!TypeOK
    <3> QED BY <3>2, <3>3, <3>4, <3>6 DEF Tokens!EndsOnlyGrow
  <2> QED BY <2>5, <2>6
<1> QED BY <1>2, <1>3 DEF Tokens!Next

TokensInv == running = "tokens" => Tokens!TypeOK /\ s3 \in BOOLEAN

LEMMA TokensInductive ==
  /\ MediaInit => TokensInv
  /\ TokensInv /\ [MediaNext]_all => TokensInv'
<1>1. MediaInit => TokensInv
  <2> SUFFICES ASSUME MediaInit, running = "tokens" PROVE Tokens!TypeOK /\ s3 \in BOOLEAN
    BY DEF TokensInv
  <2>1. s1 = <<>> /\ s2 = <<>> /\ s3 = TRUE /\ s4 = <<>> /\ s5 = FALSE BY TokensStart DEF Tokens!Init
  <2>2. <<>> \in Seq(Tokens!Word) /\ <<>> \in Seq(Tokens!Token) /\ Len(<<>>) = 0 OBVIOUS
  <2>3. \A k \in 1 .. 0 : FALSE OBVIOUS
  <2> QED BY <2>1, <2>2, <2>3 DEF Tokens!TypeOK
<1>2. ASSUME TokensInv, [MediaNext]_all PROVE TokensInv'
  <2> SUFFICES ASSUME running' = "tokens" PROVE Tokens!TypeOK' /\ s3' \in BOOLEAN BY DEF TokensInv
  <2> QED BY <1>2, TokensRuns, TokensNext DEF TokensInv
<1> QED BY <1>1, <1>2

-----------------------------------------------------------------------------
(* The contract with the workers                                           *)

ContractInv == running = "contract" => Contract!IInv

LEMMA ContractRuns ==
  ASSUME [MediaNext]_all, running' = "contract"
  PROVE  running = "contract" /\ [Contract!Next]_(Contract!vars)
  BY DEF MediaNext, Step, all, slots, Contract!vars, Contract!jobVars, Contract!runVars, Contract!doneVars,
         Contract!workerVars

(* What a job of the contract is. *)
LEMMA ContractJob ==
  ASSUME s1 \in ContractJobs
  PROVE  /\ s1.profile \in BOOLEAN /\ s1.marks \in BOOLEAN /\ s1.video \in BOOLEAN
         /\ s1.recut \in BOOLEAN /\ s1.supported \in BOOLEAN
         /\ s1.formats \subseteq Contract!Formats
         /\ s1.backend \in {"auto"} \cup Contract!Engines
BY MediaAssumption DEF Contract!ContractAssumption, Contract!Job

(* A chain has one to four places. *)
LEMMA TargetsAreFew ==
  DOMAIN Contract!SttTargets = 1 .. 1 \/ DOMAIN Contract!SttTargets = 1 .. 4
BY DEF Contract!SttTargets

(* The first of some engines of the chain is one of them. *)
LEMMA FirstIsOne ==
  ASSUME NEW engines, NEW e \in engines, e \in Contract!Named
  PROVE  /\ Contract!FirstOf(engines) \in engines
         /\ \E i \in DOMAIN Contract!SttTargets : Contract!SttTargets[i] = Contract!FirstOf(engines)
<1>. DEFINE places == {i \in DOMAIN Contract!SttTargets : Contract!SttTargets[i] \in engines}
<1>1. PICK j \in DOMAIN Contract!SttTargets : Contract!SttTargets[j] = e
  BY DEF Contract!Named
<1>2. j \in places /\ places \subseteq 1 .. 4
  BY <1>1, TargetsAreFew
<1>3. \E i \in places : \A k \in places : i <= k
  <2> HIDE DEF places
  <2>1. CASE 1 \in places
    BY <1>2, <2>1
  <2>2. CASE 1 \notin places /\ 2 \in places
    BY <1>2, <2>2
  <2>3. CASE 1 \notin places /\ 2 \notin places /\ 3 \in places
    BY <1>2, <2>3
  <2>4. CASE 1 \notin places /\ 2 \notin places /\ 3 \notin places
    BY <1>2, <2>4
  <2>. QED  BY <2>1, <2>2, <2>3, <2>4
<1>4. PICK i : i = (CHOOSE n \in places : \A k \in places : n <= k)
  OBVIOUS
<1>5. i \in places
  BY <1>3, <1>4
<1>6. Contract!FirstOf(engines) = Contract!SttTargets[i]
  BY <1>4 DEF Contract!FirstOf
<1>. QED  BY <1>5, <1>6

(* A job that names its engine, or a profile, has no other in its chain. *)
LEMMA NamedIsAsked ==
  ASSUME s1 \in ContractJobs
  PROVE  /\ s1.profile => Contract!Named \subseteq {"parakeet"}
         /\ ~ s1.profile /\ s1.backend # "auto" => Contract!Named \subseteq {s1.backend}
<1>1. s1.profile => Contract!SttTargets = <<"parakeet">>
  BY DEF Contract!SttTargets
<1>2. ~ s1.profile /\ s1.backend # "auto" => Contract!SttTargets = <<s1.backend>>
  BY DEF Contract!SttTargets
<1>. QED  BY <1>1, <1>2 DEF Contract!Named

(* It begins soundly. *)
LEMMA ContractInit ==
  ASSUME Contract!Init PROVE Contract!IInv
<1>1. Contract!TypeOK
  BY MediaAssumption DEF Contract!Init, Contract!TypeOK, Contract!ContractAssumption, Contract!Configured,
     Contract!Tools, Contract!Engines, Contract!None, Contract!NoWorker
<1>2. Contract!TellsWhatItHas
  BY DEF Contract!Init, Contract!TellsWhatItHas
<1>. QED  BY <1>1, <1>2
     DEF Contract!Init, Contract!IInv, Contract!GivenWhatItTold, Contract!EngineAsAsked,
         Contract!AcceptedIsValid, Contract!RefusedForARelease, Contract!WhereItIs, Contract!GivenWhatItHas

(* Who has the job is a worker while it runs. *)
LEMMA HolderWorks ==
  ASSUME Contract!TypeOK, s2 = "running"
  PROVE  s3 \in ContractWorkers
BY DEF Contract!TypeOK

(* What nothing of the job touches stays as it is. *)
LEMMA JobStays ==
  ASSUME Contract!IInv, UNCHANGED <<s1, s2, s3, s4, s5, s6, s7, s8, s9, s10>>
  PROVE  Contract!EngineAsAsked' /\ Contract!AcceptedIsValid' /\ Contract!RefusedForARelease'
         /\ Contract!WhereItIs' /\ Contract!Named' = Contract!Named /\ Contract!Tried' = Contract!Tried
<1>1. Contract!SttTargets' = Contract!SttTargets
  BY DEF Contract!SttTargets, Contract!Known
<1>2. Contract!Named' = Contract!Named
  BY <1>1 DEF Contract!Named
<1>3. Contract!FirstOf(s5)' = Contract!FirstOf(s5)
  BY <1>1 DEF Contract!FirstOf
<1>4. Contract!Tried' = Contract!Tried
  BY <1>3 DEF Contract!Tried
<1>5. Contract!EngineAsAsked'
  BY <1>2 DEF Contract!IInv, Contract!EngineAsAsked
<1>6. Contract!AcceptedIsValid'
  BY DEF Contract!IInv, Contract!AcceptedIsValid, Contract!ArtifactsValid, Contract!MetadataValid,
     Contract!Matches, Contract!Known
<1>7. Contract!RefusedForARelease' /\ Contract!WhereItIs'
  BY DEF Contract!IInv, Contract!RefusedForARelease, Contract!WhereItIs
<1>. QED  BY <1>2, <1>4, <1>5, <1>6, <1>7

(* A worker tells again what it has, unless it has the job. *)
LEMMA PollInv ==
  ASSUME Contract!IInv, NEW w \in ContractWorkers, Contract!Poll(w)
  PROVE  Contract!IInv'
<1>1. /\ s3 # w /\ s13' = [s13 EXCEPT ![w] = Contract!Current(w)] /\ s14' = [s14 EXCEPT ![w] = {}]
      /\ UNCHANGED <<s1, s2, s3, s4, s5, s6, s7, s8, s9, s10, s11, s12, s15>>
  BY DEF Contract!Poll, Contract!jobVars, Contract!runVars, Contract!doneVars
<1>2. /\ s11 \in [ContractWorkers -> SUBSET Contract!Tools] /\ s12 \in [ContractWorkers -> SUBSET Contract!Engines]
      /\ s14 \in [ContractWorkers -> SUBSET Contract!Tools]
      /\ s13 \in [ContractWorkers -> [backends : SUBSET Contract!Engines, profile : BOOLEAN]]
  BY DEF Contract!IInv, Contract!TypeOK
<1>3. Contract!Current(w) \in [backends : SUBSET Contract!Engines, profile : BOOLEAN]
  BY <1>2 DEF Contract!Current, Contract!Engines
<1>4. /\ Contract!Current(w).profile => {"parakeet", "whispercpp", "windows"} \subseteq s11[w]
      /\ "parakeet" \in Contract!Current(w).backends => "parakeet" \in s11[w]
  <2>1. Contract!Current(w).profile = ({"parakeet", "whispercpp", "windows"} \subseteq s11[w])
    BY Zenon DEF Contract!Current
  <2>2. Contract!Current(w).backends = (s12[w] \ {"parakeet"}) \cup (s11[w] \cap {"parakeet"})
    BY Zenon DEF Contract!Current
  <2>3. Contract!Current(w).profile => {"parakeet", "whispercpp", "windows"} \subseteq s11[w]
    BY <2>1, Zenon
  <2>4. "parakeet" \in Contract!Current(w).backends => "parakeet" \in s11[w]
    BY <2>2
  <2>. QED  BY <2>3, <2>4, Zenon
<1>5. /\ s13' \in [ContractWorkers -> [backends : SUBSET Contract!Engines, profile : BOOLEAN]]
      /\ s14' \in [ContractWorkers -> SUBSET Contract!Tools]
  BY <1>1, <1>2, <1>3
<1>6. Contract!TypeOK'
  BY <1>1, <1>5 DEF Contract!IInv, Contract!TypeOK
<1>7. Contract!TellsWhatItHas'
  <2> SUFFICES ASSUME NEW v \in ContractWorkers
               PROVE  /\ s13'[v].profile => {"parakeet", "whispercpp", "windows"} \subseteq s11'[v] \cup s14'[v]
                      /\ "parakeet" \in s13'[v].backends => "parakeet" \in s11'[v] \cup s14'[v]
    BY DEF Contract!TellsWhatItHas
  <2>1. CASE v = w
    <3>1. s13'[v] = Contract!Current(w) /\ s11'[v] = s11[w]
      BY <1>1, <1>2, <2>1
    <3>. QED  BY <3>1, <1>4
  <2>2. CASE v # w
    <3>1. s13'[v] = s13[v] /\ s11'[v] = s11[v] /\ s14'[v] = s14[v]
      BY <1>1, <1>2, <2>2
    <3>. QED  BY <3>1 DEF Contract!IInv, Contract!TellsWhatItHas
  <2>. QED  BY <2>1, <2>2
<1>8. s2 = "running" => s13'[s3] = s13[s3] /\ s14'[s3] = s14[s3]
  BY <1>1, <1>2, HolderWorks DEF Contract!IInv
<1>9. Contract!GivenWhatItTold'
  BY <1>1, <1>8, JobStays DEF Contract!IInv, Contract!GivenWhatItTold
<1>10. Contract!GivenWhatItHas'
  BY <1>1, <1>8, JobStays DEF Contract!IInv, Contract!GivenWhatItHas, Contract!WhereItIs
<1>. QED  BY <1>1, <1>6, <1>7, <1>9, <1>10, JobStays DEF Contract!IInv

(* Tools vanish or appear before the job is transcribed only, and what vanishes is noted. *)
LEMMA ChangeInv ==
  ASSUME Contract!IInv, NEW w \in ContractWorkers, NEW tool \in Contract!Tools, Contract!Change(w, tool)
  PROVE  Contract!IInv'
<1>1. /\ s15 < MaxChanges /\ s15' = s15 + 1 /\ s6 \in {"idle", "claimed"}
      /\ \/ s11' = [s11 EXCEPT ![w] = s11[w] \ {tool}] /\ s14' = [s14 EXCEPT ![w] = s14[w] \cup {tool}]
         \/ s11' = [s11 EXCEPT ![w] = s11[w] \cup {tool}] /\ s14' = s14
      /\ UNCHANGED <<s1, s2, s3, s4, s5, s6, s7, s8, s9, s10, s12, s13>>
  BY DEF Contract!Change, Contract!jobVars, Contract!runVars, Contract!doneVars
<1>2. /\ s11 \in [ContractWorkers -> SUBSET Contract!Tools] /\ s14 \in [ContractWorkers -> SUBSET Contract!Tools]
      /\ s15 \in 0 .. MaxChanges /\ MaxChanges \in Nat
  BY MediaAssumption DEF Contract!IInv, Contract!TypeOK, Contract!ContractAssumption
<1>3. /\ s11' \in [ContractWorkers -> SUBSET Contract!Tools] /\ s14' \in [ContractWorkers -> SUBSET Contract!Tools]
      /\ s15' \in 0 .. MaxChanges
  BY <1>1, <1>2
<1>4. \A v \in ContractWorkers : s11[v] \cup s14[v] \subseteq s11'[v] \cup s14'[v]
  BY <1>1, <1>2
<1>5. Contract!TypeOK'
  BY <1>1, <1>3 DEF Contract!IInv, Contract!TypeOK
<1>6. Contract!TellsWhatItHas'
  BY <1>1, <1>4 DEF Contract!IInv, Contract!TellsWhatItHas
<1>7. Contract!GivenWhatItTold'
  BY <1>1, JobStays DEF Contract!IInv, Contract!GivenWhatItTold
<1>8. Contract!GivenWhatItHas'
  BY <1>1 DEF Contract!GivenWhatItHas
<1>. QED  BY <1>1, <1>5, <1>6, <1>7, <1>8, JobStays DEF Contract!IInv

(* The chain is the job's. *)
LEMMA ChainStays ==
  ASSUME s1' = s1
  PROVE  /\ Contract!Named' = Contract!Named
         /\ \A engines : Contract!FirstOf(engines)' = Contract!FirstOf(engines)
<1>1. Contract!SttTargets' = Contract!SttTargets
  BY DEF Contract!SttTargets, Contract!Known
<1>. QED  BY <1>1 DEF Contract!Named, Contract!FirstOf

(* A worker that is given the job has told that it has the engines it is given. *)
LEMMA ClaimInv ==
  ASSUME Contract!IInv, NEW w \in ContractWorkers, Contract!Claim(w)
  PROVE  Contract!IInv'
<1>1. /\ s2 = "queued" /\ s4 < ContractAttempts /\ s2' = "running" /\ s3' = w /\ s4' = s4 + 1
      /\ s5' = Contract!TargetsFor(w) /\ s6' = "claimed" /\ s7' = Contract!None /\ s9' = {} /\ s10' = "none"
      /\ UNCHANGED <<s1, s8, s11, s12, s13, s14, s15>>
  BY DEF Contract!Claim, Contract!workerVars
<1>2. Contract!TargetsFor(w) # {} /\ (s1.profile => s13[w].profile)
  BY DEF Contract!Claim, Contract!CanRun
<1>3. s13[w].backends \subseteq Contract!Engines
  BY DEF Contract!IInv, Contract!TypeOK
<1>4. s5' \subseteq s13[w].backends /\ s5' \subseteq Contract!Named
  BY <1>1, <1>3 DEF Contract!TargetsFor, Contract!Named
<1>5. s4 \in Nat /\ s4' \in 0 .. ContractAttempts /\ w # Contract!NoWorker
  BY <1>1, MediaAssumption DEF Contract!IInv, Contract!TypeOK, Contract!ContractAssumption
<1>6. Contract!TypeOK'
  BY <1>1, <1>3, <1>4, <1>5 DEF Contract!IInv, Contract!TypeOK
<1>7. Contract!TellsWhatItHas'
  BY <1>1 DEF Contract!IInv, Contract!TellsWhatItHas
<1>8. Contract!GivenWhatItTold'
  BY <1>1, <1>2, <1>4, ChainStays DEF Contract!GivenWhatItTold
<1>9. Contract!EngineAsAsked' /\ Contract!AcceptedIsValid' /\ Contract!RefusedForARelease'
      /\ Contract!WhereItIs' /\ Contract!GivenWhatItHas'
  BY <1>1 DEF Contract!EngineAsAsked, Contract!AcceptedIsValid, Contract!RefusedForARelease,
     Contract!WhereItIs, Contract!GivenWhatItHas
<1>. QED  BY <1>6, <1>7, <1>8, <1>9 DEF Contract!IInv

(* What is tried is of what was given. *)
LEMMA TriedIsGiven ==
  ASSUME Contract!IInv, s6 = "claimed"
  PROVE  Contract!Tried \subseteq s5
<1>1. s5 # {} /\ s5 \subseteq Contract!Named
  BY DEF Contract!IInv, Contract!GivenWhatItTold
<1>2. PICK e : e \in s5
  BY <1>1
<1>3. Contract!FirstOf(s5) \in s5
  BY <1>1, <1>2, FirstIsOne
<1>. QED  BY <1>3 DEF Contract!Tried

(* The holder transcribes with an engine that it was given and has, or has none. *)
LEMMA TranscribeInv ==
  ASSUME Contract!IInv, Contract!Transcribe
  PROVE  Contract!IInv'
<1>1. /\ s6 = "claimed" /\ UNCHANGED <<s1, s2, s3, s4, s5, s8, s9, s10, s11, s12, s13, s14, s15>>
  BY DEF Contract!Transcribe, Contract!jobVars, Contract!doneVars, Contract!workerVars
<1>2. s2 = "running" /\ s3 \in ContractWorkers
  BY <1>1, HolderWorks DEF Contract!IInv, Contract!WhereItIs
<1>3. s5 \subseteq Contract!Named /\ s5 \subseteq s13[s3].backends /\ (s1.profile => s13[s3].profile)
  BY <1>1, <1>2 DEF Contract!IInv, Contract!GivenWhatItTold
<1>4. Contract!Tried \subseteq s5
  BY <1>1, TriedIsGiven
<1>5. Contract!Ready # {} => Contract!FirstOf(Contract!Ready) \in Contract!Ready
  <2> SUFFICES ASSUME NEW e \in Contract!Ready PROVE Contract!FirstOf(Contract!Ready) \in Contract!Ready
    OBVIOUS
  <2>1. e \in Contract!Named
    BY <1>3, <1>4 DEF Contract!Ready
  <2>. QED  BY <2>1, FirstIsOne
<1>6. \/ /\ s6' = "transcribed"
         /\ s1.profile => s7' = "parakeet"
         /\ ~ s1.profile => s7' \in Contract!Named
         /\ s7' \in Contract!Engines
      \/ /\ s6' = "engineless" /\ s7' = s7
         /\ s1.profile => ~ {"parakeet", "whispercpp", "windows"} \subseteq s11[s3]
         /\ ~ s1.profile => Contract!Ready = {}
  <2>1. CASE s1.profile
    BY <1>1, <2>1 DEF Contract!Transcribe, Contract!Engines
  <2>2. CASE ~ s1.profile /\ Contract!Ready # {}
    <3>1. s6' = "transcribed" /\ s7' = Contract!FirstOf(Contract!Ready)
      BY <1>1, <2>2 DEF Contract!Transcribe
    <3>2. s7' \in Contract!Named
      BY <3>1, <2>2, <1>3, <1>4, <1>5 DEF Contract!Ready
    <3>. QED  BY <3>1, <3>2, <2>2 DEF Contract!Named
  <2>3. CASE ~ s1.profile /\ Contract!Ready = {}
    BY <1>1, <2>3 DEF Contract!Transcribe
  <2>. QED  BY <2>1, <2>2, <2>3
<1>7. Contract!TypeOK'
  BY <1>1, <1>2, <1>6 DEF Contract!IInv, Contract!TypeOK
<1>8. Contract!TellsWhatItHas'
  BY <1>1 DEF Contract!IInv, Contract!TellsWhatItHas
<1>9. Contract!GivenWhatItTold'
  BY <1>1, <1>6, ChainStays DEF Contract!IInv, Contract!GivenWhatItTold
<1>10. Contract!EngineAsAsked'
  BY <1>1, <1>6, ChainStays DEF Contract!EngineAsAsked
<1>11. Contract!AcceptedIsValid' /\ Contract!RefusedForARelease' /\ Contract!WhereItIs'
  BY <1>1, <1>2, <1>6 DEF Contract!AcceptedIsValid, Contract!RefusedForARelease, Contract!WhereItIs
<1>12. ASSUME s6' = "engineless", s14[s3] = {}
       PROVE  ~ s1.profile /\ "parakeet" \notin Contract!Tried
  <2>1. s1.profile => ~ {"parakeet", "whispercpp", "windows"} \subseteq s11[s3]
    BY <1>6, <1>12
  <2>2. ~ s1.profile => Contract!Ready = {}
    BY <1>6, <1>12
  <2>3. /\ s13[s3].profile => {"parakeet", "whispercpp", "windows"} \subseteq s11[s3]
        /\ "parakeet" \in s13[s3].backends => "parakeet" \in s11[s3]
    BY <1>2, <1>12 DEF Contract!IInv, Contract!TellsWhatItHas
  <2>4. ~ s1.profile
    BY <2>1, <2>3, <1>3
  <2>. QED  BY <2>2, <2>3, <2>4, <1>3, <1>4 DEF Contract!Ready
<1>13. Contract!Tried' = Contract!Tried
  BY <1>1, ChainStays DEF Contract!Tried
<1>14. Contract!GivenWhatItHas'
  BY <1>1, <1>12, <1>13 DEF Contract!GivenWhatItHas
<1>. QED  BY <1>7, <1>8, <1>9, <1>10, <1>11, <1>14 DEF Contract!IInv

(* A release that knows chapter marks sends every artifact it is asked for. *)
LEMMA ManifestOfRelease ==
  ASSUME s1 \in ContractJobs
  PROVE  /\ Contract!Manifest \subseteq Contract!Kinds
         /\ s3 \notin OldRelease => Contract!ArtifactsValid(Contract!Manifest)
<1>1. s1.formats \subseteq {"text", "json"} /\ s1.profile \in BOOLEAN /\ s1.marks \in BOOLEAN
  BY ContractJob DEF Contract!Formats
<1>2. Contract!Manifest \subseteq Contract!Kinds
  BY <1>1 DEF Contract!Manifest, Contract!Kinds, Contract!Formats
<1>3. ASSUME s3 \notin OldRelease PROVE Contract!ArtifactsValid(Contract!Manifest)
  <2>1. "source" \in Contract!Manifest /\ Contract!Manifest \cap Contract!Formats = s1.formats
    BY <1>1 DEF Contract!Manifest, Contract!Formats
  <2>2. /\ "words" \in Contract!Manifest <=> s1.profile
        /\ "chapter_windows" \in Contract!Manifest <=> s1.profile /\ s1.marks
        /\ "speakers" \in Contract!Manifest <=> Contract!Known
    BY <1>1, <1>3 DEF Contract!Manifest
  <2>. QED  BY <2>1, <2>2 DEF Contract!ArtifactsValid
<1>. QED  BY <1>2, <1>3

(* The first completion. *)
LEMMA CompleteInv ==
  ASSUME Contract!IInv, NEW heard \in BOOLEAN, Contract!Complete(heard)
  PROVE  Contract!IInv'
<1>. DEFINE valid == Contract!ArtifactsValid(Contract!Manifest) /\ Contract!MetadataValid(s3)
<1>1. /\ s6 = "transcribed" /\ s2 = "running" /\ s9' = Contract!Manifest
      /\ UNCHANGED <<s1, s3, s4, s5, s7, s11, s12, s13, s14, s15>>
  BY DEF Contract!Complete, Contract!workerVars
<1>2. \/ /\ valid /\ s2' = "succeeded" /\ s8' = Contract!Manifest /\ s10' = "yes"
         /\ s6' \in {"answered", "lost"}
      \/ /\ ~ valid /\ s2' = s2 /\ s8' = s8 /\ s10' = "no" /\ s6' \in {"refused", "lost"}
  BY DEF Contract!Complete, Contract!Answered
<1>3. s1 \in ContractJobs /\ s3 \in ContractWorkers
  BY <1>1 DEF Contract!IInv, Contract!TypeOK
<1>4. ~ valid => s3 \in OldRelease \/ RuleOf[s3] # Rule
  BY <1>3, ManifestOfRelease DEF Contract!MetadataValid
<1>5. Contract!TypeOK'
  BY <1>1, <1>2, <1>3, ManifestOfRelease DEF Contract!IInv, Contract!TypeOK
<1>6. Contract!TellsWhatItHas' /\ Contract!GivenWhatItHas'
  BY <1>1, <1>2 DEF Contract!IInv, Contract!TellsWhatItHas, Contract!GivenWhatItHas
<1>7. Contract!GivenWhatItTold'
  BY <1>1, <1>2, ChainStays DEF Contract!IInv, Contract!GivenWhatItTold
<1>8. Contract!EngineAsAsked'
  BY <1>1, <1>2, ChainStays DEF Contract!IInv, Contract!EngineAsAsked
<1>9. ASSUME s2' = "succeeded" PROVE Contract!AcceptedIsValid'
  <2>1. valid /\ s8' = s9' /\ s10' = "yes" /\ s6' \in {"answered", "lost"}
    BY <1>1, <1>2, <1>9
  <2>2. Contract!Matches(s9)'
    BY <2>1 DEF Contract!Matches
  <2>3. Contract!ArtifactsValid(s9)'
    BY <1>1, <2>1 DEF Contract!ArtifactsValid, Contract!Known
  <2>4. Contract!MetadataValid(s3)'
    BY <1>1, <2>1 DEF Contract!MetadataValid
  <2>. QED  BY <2>1, <2>2, <2>3, <2>4 DEF Contract!AcceptedIsValid
<1>10. Contract!AcceptedIsValid'
  BY <1>9 DEF Contract!AcceptedIsValid
<1>11. Contract!RefusedForARelease' /\ Contract!WhereItIs'
  BY <1>1, <1>2, <1>4 DEF Contract!RefusedForARelease, Contract!WhereItIs
<1>. QED  BY <1>5, <1>6, <1>7, <1>8, <1>10, <1>11 DEF Contract!IInv

(* A completion is sent again: of a job that succeeded it is accepted again, and of one *)
(* that runs still it is refused again.                                                  *)
LEMMA RepeatInv ==
  ASSUME Contract!IInv, NEW heard \in BOOLEAN, Contract!Repeat(heard) \/ Contract!RepeatRefused(heard)
  PROVE  Contract!IInv'
<1>1. /\ s6 = "lost" /\ s2 \in {"succeeded", "running"}
      /\ UNCHANGED <<s1, s2, s3, s4, s5, s7, s8, s9, s11, s12, s13, s14, s15>>
  BY DEF Contract!Repeat, Contract!RepeatRefused, Contract!jobVars, Contract!workerVars
<1>2. s2 = "succeeded" => s10' = "yes" /\ s6' \in {"answered", "lost"}
  <2> SUFFICES ASSUME s2 = "succeeded" PROVE s10' = "yes" /\ s6' \in {"answered", "lost"}
    OBVIOUS
  <2>1. Contract!ArtifactsValid(s9) /\ Contract!MetadataValid(s3) /\ Contract!Matches(s9)
    BY DEF Contract!IInv, Contract!AcceptedIsValid
  <2>2. Contract!Repeat(heard)
    BY DEF Contract!RepeatRefused
  <2>. QED  BY <2>1, <2>2 DEF Contract!Repeat, Contract!Answered
<1>3. s2 = "running" => s10' = "no" /\ s6' \in {"refused", "lost"}
  BY DEF Contract!Repeat, Contract!RepeatRefused, Contract!Answered
<1>4. s2 = "running" => s3 \in OldRelease \/ RuleOf[s3] # Rule
  BY <1>1 DEF Contract!IInv, Contract!RefusedForARelease
<1>5. Contract!TypeOK'
  BY <1>1, <1>2, <1>3 DEF Contract!IInv, Contract!TypeOK
<1>6. Contract!TellsWhatItHas' /\ Contract!GivenWhatItHas'
  BY <1>1, <1>2, <1>3 DEF Contract!IInv, Contract!TellsWhatItHas, Contract!GivenWhatItHas
<1>7. Contract!GivenWhatItTold'
  BY <1>1, <1>2, <1>3, ChainStays DEF Contract!IInv, Contract!GivenWhatItTold
<1>8. Contract!EngineAsAsked'
  BY <1>1, <1>2, <1>3, ChainStays DEF Contract!IInv, Contract!EngineAsAsked
<1>9. Contract!AcceptedIsValid'
  BY <1>1, <1>2 DEF Contract!IInv, Contract!AcceptedIsValid, Contract!ArtifactsValid,
     Contract!MetadataValid, Contract!Matches, Contract!Known
<1>10. Contract!RefusedForARelease' /\ Contract!WhereItIs'
  BY <1>1, <1>2, <1>3, <1>4 DEF Contract!RefusedForARelease, Contract!WhereItIs
<1>. QED  BY <1>5, <1>6, <1>7, <1>8, <1>9, <1>10 DEF Contract!IInv

(* A failure that is reported gives the job back. *)
LEMMA FailureInv ==
  ASSUME Contract!IInv, Contract!ReportFailure
  PROVE  Contract!IInv'
<1>1. /\ s2 = "running" /\ s2' \in {"queued", "failed"} /\ s3' = Contract!NoWorker /\ s6' = "idle"
      /\ UNCHANGED <<s1, s4, s5, s7, s8, s9, s10, s11, s12, s13, s14, s15>>
  BY DEF Contract!ReportFailure, Contract!doneVars, Contract!workerVars
<1>2. Contract!TypeOK'
  BY <1>1 DEF Contract!IInv, Contract!TypeOK
<1>3. Contract!TellsWhatItHas'
  BY <1>1 DEF Contract!IInv, Contract!TellsWhatItHas
<1>4. Contract!GivenWhatItTold' /\ Contract!EngineAsAsked' /\ Contract!AcceptedIsValid'
      /\ Contract!RefusedForARelease' /\ Contract!WhereItIs' /\ Contract!GivenWhatItHas'
  BY <1>1 DEF Contract!GivenWhatItTold, Contract!EngineAsAsked, Contract!AcceptedIsValid,
     Contract!RefusedForARelease, Contract!WhereItIs, Contract!GivenWhatItHas
<1>. QED  BY <1>2, <1>3, <1>4 DEF Contract!IInv

(* Retention takes what may be missed when a completion is sent again. *)
LEMMA PruneInv ==
  ASSUME Contract!IInv, NEW kind, Contract!Prune(kind)
  PROVE  Contract!IInv'
<1>1. /\ s2 = "succeeded" /\ kind \in Contract!Prunable /\ s8' = s8 \ {kind}
      /\ UNCHANGED <<s1, s2, s3, s4, s5, s6, s7, s9, s10, s11, s12, s13, s14, s15>>
  BY DEF Contract!Prune, Contract!jobVars, Contract!runVars, Contract!workerVars
<1>2. Contract!TypeOK'
  BY <1>1 DEF Contract!IInv, Contract!TypeOK
<1>3. Contract!Matches(s9)'
  <2>1. s8 = {k \in s9 : k \in s8 \/ k \notin Contract!Prunable}
    BY <1>1 DEF Contract!IInv, Contract!AcceptedIsValid, Contract!Matches
  <2>. QED  BY <1>1, <2>1 DEF Contract!Matches
<1>4. Contract!AcceptedIsValid'
  BY <1>1, <1>3 DEF Contract!IInv, Contract!AcceptedIsValid, Contract!ArtifactsValid,
     Contract!MetadataValid, Contract!Known
<1>5. Contract!TellsWhatItHas'
  BY <1>1 DEF Contract!IInv, Contract!TellsWhatItHas
<1>6. Contract!GivenWhatItTold' /\ Contract!EngineAsAsked'
  BY <1>1, ChainStays DEF Contract!IInv, Contract!GivenWhatItTold, Contract!EngineAsAsked
<1>7. Contract!RefusedForARelease' /\ Contract!WhereItIs'
  BY <1>1 DEF Contract!IInv, Contract!RefusedForARelease, Contract!WhereItIs
<1>8. Contract!GivenWhatItHas'
  <2>1. s6' # "engineless"
    BY <1>1 DEF Contract!IInv, Contract!AcceptedIsValid
  <2>. QED  BY <2>1 DEF Contract!GivenWhatItHas
<1>. QED  BY <1>2, <1>4, <1>5, <1>6, <1>7, <1>8 DEF Contract!IInv

(* Every step of the contract keeps its invariant. *)
LEMMA ContractNext ==
  ASSUME Contract!IInv, [Contract!Next]_(Contract!vars)
  PROVE  Contract!IInv'
<1>1. CASE \E w \in ContractWorkers : Contract!Poll(w) \/ Contract!Claim(w)
  BY <1>1, PollInv, ClaimInv
<1>2. CASE \E w \in ContractWorkers, tool \in Contract!Tools : Contract!Change(w, tool)
  BY <1>2, ChangeInv
<1>3. CASE Contract!Transcribe \/ Contract!ReportFailure
  BY <1>3, TranscribeInv, FailureInv
<1>4. CASE \E heard \in BOOLEAN : \/ Contract!Complete(heard) \/ Contract!Repeat(heard)
                                  \/ Contract!RepeatRefused(heard)
  BY <1>4, CompleteInv, RepeatInv
<1>5. CASE \E kind \in Contract!Kinds : Contract!Prune(kind)
  BY <1>5, PruneInv
<1>6. CASE UNCHANGED Contract!vars
  <2>1. UNCHANGED <<s1, s2, s3, s4, s5, s6, s7, s8, s9, s10>> /\ UNCHANGED <<s11, s12, s13, s14, s15>>
    BY <1>6 DEF Contract!vars, Contract!jobVars, Contract!runVars, Contract!doneVars, Contract!workerVars
  <2>2. Contract!TypeOK'
    BY <2>1 DEF Contract!IInv, Contract!TypeOK
  <2>3. Contract!TellsWhatItHas'
    BY <2>1 DEF Contract!IInv, Contract!TellsWhatItHas
  <2>4. Contract!GivenWhatItTold'
    BY <2>1, JobStays DEF Contract!IInv, Contract!GivenWhatItTold
  <2>5. Contract!GivenWhatItHas'
    BY <2>1, JobStays DEF Contract!IInv, Contract!GivenWhatItHas
  <2>. QED  BY <2>1, <2>2, <2>3, <2>4, <2>5, JobStays DEF Contract!IInv
<1>. QED  BY <1>1, <1>2, <1>3, <1>4, <1>5, <1>6 DEF Contract!Next

LEMMA ContractInductive ==
  /\ MediaInit => ContractInv
  /\ ContractInv /\ [MediaNext]_all => ContractInv'
<1>1. MediaInit => ContractInv
  BY ContractInit DEF MediaInit, Launch, ContractInv
<1>2. ContractInv /\ [MediaNext]_all => ContractInv'
  BY ContractRuns, ContractNext DEF ContractInv
<1>. QED  BY <1>1, <1>2

(* A job that succeeded is as asked. *)
LEMMA ContractKept == ContractInv => ContractHonoured
<1> SUFFICES ASSUME Contract!IInv
             PROVE  Contract!TypeOK /\ Contract!EngineHonoured /\ Contract!ResultComplete
  BY DEF ContractInv, ContractHonoured
<1>1. Contract!TypeOK /\ s1 \in ContractJobs
  BY DEF Contract!IInv, Contract!TypeOK
<1>2. ASSUME s2 = "succeeded"
      PROVE  /\ Contract!ArtifactsValid(s9) /\ Contract!MetadataValid(s3) /\ Contract!Matches(s9)
             /\ s6 \in {"answered", "lost"}
  BY <1>2 DEF Contract!IInv, Contract!AcceptedIsValid
<1>3. Contract!EngineHonoured
  <2> SUFFICES ASSUME s2 = "succeeded"
               PROVE  IF s1.profile THEN s7 = "parakeet" /\ RuleOf[s3] = Rule
                      ELSE s1.backend # "auto" => s7 = s1.backend
    BY DEF Contract!EngineHonoured
  <2>1. /\ s1.profile => s7 = "parakeet"
        /\ ~ s1.profile => s7 \in Contract!Named
    BY <1>2 DEF Contract!IInv, Contract!EngineAsAsked
  <2>. QED  BY <2>1, <1>1, <1>2, NamedIsAsked DEF Contract!MetadataValid
<1>4. Contract!ResultComplete
  <2> SUFFICES ASSUME s2 = "succeeded"
               PROVE  /\ s1.formats \subseteq s8
                      /\ s1.profile => "words" \in s8 /\ (s1.marks => "chapter_windows" \in s8)
                      /\ Contract!Known => "speakers" \in s8
    BY DEF Contract!ResultComplete
  <2>1. \A k \in s9 : k \notin Contract!Prunable => k \in s8
    BY <1>2 DEF Contract!Matches
  <2>2. s1.formats \subseteq s9 /\ s1.formats \subseteq {"text", "json"}
    BY <1>1, <1>2, ContractJob DEF Contract!ArtifactsValid, Contract!Formats
  <2>3. /\ s1.profile => "words" \in s9 /\ (s1.marks => "chapter_windows" \in s9)
        /\ Contract!Known => "speakers" \in s9
    BY <1>2 DEF Contract!ArtifactsValid
  <2>. QED  BY <2>1, <2>2, <2>3 DEF Contract!Prunable
<1>. QED  BY <1>1, <1>3, <1>4

-----------------------------------------------------------------------------
(* All of them *)

(* One of them runs, and its invariant holds. *)
MediaInv ==
  /\ ChainsInv /\ TokensInv /\ WindowsInv /\ ProfileInv /\ SidecarInv
  /\ PiperInv /\ KokoroInv /\ RoutingInv /\ SynthesisInv /\ ContractInv

LEMMA MediaInductive ==
  /\ MediaInit => MediaInv
  /\ MediaInv /\ [MediaNext]_all => MediaInv'
  BY ChainsInductive, TokensInductive, WindowsInductive, ProfileInductive, SidecarInductive,
     VoicesInductive, RoutingInductive, SynthesisInductive, ContractInductive DEF MediaInv

(* When another component runs, nothing is claimed of these. *)
Elsewhere ==
  running \notin {"contract", "chains", "tokens", "windows", "profile", "sidecar", "piper",
                  "kokoro", "routing", "synthesis"}

LEMMA NothingElsewhere == Elsewhere => MediaInv
  BY DEF Elsewhere, MediaInv, ChainsInv, TokensInv, WindowsInv, ProfileInv, SidecarInv, PiperInv,
     KokoroInv, RoutingInv, SynthesisInv, ContractInv

(* What the invariant says of states. *)
LEMMA MediaSays ==
  ASSUME MediaInv
  PROVE  /\ CallsKeepToThemselves /\ ProfileIsComplete /\ ConnectionsAreBounded
         /\ SpeechAsRequested /\ ContractHonoured /\ HonestWorkersAccepted
<1>1. CallsKeepToThemselves
  BY DEF MediaInv, ChainsInv, Chains!IInv, CallsKeepToThemselves
<1>2. ProfileIsComplete
  BY DEF MediaInv, WindowsInv, ProfileInv, ProfileIsComplete, Windows!IInv, Profile!IInv
<1>3. ConnectionsAreBounded
  BY DEF MediaInv, SidecarInv, Sidecar!IInv, Sidecar!SidecarTypes, ConnectionsAreBounded
<1>4. SpeechAsRequested
  <2>1. Routing!RoutingAssumption BY MediaAssumption
  <2> QED BY <2>1, RoutingHolds, SynthesisHolds
      DEF MediaInv, PiperInv, KokoroInv, RoutingInv, SynthesisInv, SpeechAsRequested, Voices!IInv
<1>5. ContractHonoured BY ContractKept DEF MediaInv
<1>6. HonestWorkersAccepted
  BY DEF MediaInv, ContractInv, HonestWorkersAccepted, Contract!IInv, Contract!HonestAccepted,
     Contract!RefusedForARelease, Contract!RepeatsAccepted, Contract!AcceptedIsValid
<1> QED BY <1>1, <1>2, <1>3, <1>4, <1>5, <1>6

(* What no step of theirs does. *)
MediaHonest ==
  /\ running = "chains" => Chains!CancelIsNoLackOfBackends
  /\ running = "tokens" => Tokens!EndsOnlyGrow
  /\ running = "windows" => Windows!GapsAreFailedClips /\ Windows!CancelledNotAnswered
  /\ running = "piper" => Voices(Piper)!NeverStale
  /\ running = "kokoro" => Voices(Kokoro)!NeverStale

LEMMA MediaStepsHonest ==
  ASSUME MediaInv, [MediaNext]_all
  PROVE  MediaHonest
<1>1. running' = running BY DEF MediaNext, Step, all
<1>2. CASE running = "chains"
  BY <1>1, <1>2, ChainsRuns, ChainsStepsHonest DEF MediaInv, ChainsInv, MediaHonest
<1>3. CASE running = "tokens"
  BY <1>1, <1>3, TokensRuns, TokensNext DEF MediaInv, TokensInv, MediaHonest
<1>4. CASE running = "windows"
  BY <1>1, <1>4, MediaAssumption, WindowsRuns, WindowsStepsHonest DEF MediaInv, WindowsInv, MediaHonest
<1>5. CASE running = "piper"
  BY <1>1, <1>5, MediaAssumption, VoicesRuns, VoicesNext DEF MediaInv, PiperInv, MediaHonest
<1>6. CASE running = "kokoro"
  BY <1>1, <1>6, MediaAssumption, VoicesRuns, VoicesNext DEF MediaInv, KokoroInv, MediaHonest
<1> QED BY <1>2, <1>3, <1>4, <1>5, <1>6 DEF MediaHonest

=============================================================================
