--------------------------- MODULE ServicesProofs ---------------------------
(***************************************************************************)
(* What the run Services checks of the components on small instances,      *)
(* proved for every value of their constants: here fetching, sign-ins, the *)
(* filesystem store and the sweep; what works on media is in MediaProofs.  *)
(* A component's variables lie in the slots s1, s2, ... in the order in    *)
(* which its module declares them; its inductive invariant is IInv of its  *)
(* module (of the store: StoreInv and Tidy).                               *)
(***************************************************************************)
EXTENDS MCServices, MediaProofs

-----------------------------------------------------------------------------
(* Fetching media *)

LEMMA FetchingRuns ==
  ASSUME [Next]_all, running' = "fetching"
  PROVE  running = "fetching" /\ [Fetching!Next]_(Fetching!vars)
  BY DEF Next, MediaNext, Step, all, slots, Fetching!vars

LEMMA FetchingStart == ASSUME Init, running = "fetching" PROVE Fetching!Init
  BY DEF Init, MediaInit, Launch

LEMMA FetchingInit ==
  ASSUME Fetching!FetchAssumption, Fetching!Init
  PROVE  Fetching!IInv
<1>1. /\ MaxRedirects \in Nat /\ MaxBytes \in Nat /\ FetchBudget \in Nat /\ Tries \in Nat \ {0}
  BY DEF Fetching!FetchAssumption
<1>2. Fetching!TypeOK BY <1>1 DEF Fetching!Init, Fetching!TypeOK, Fetching!Addresses, Fetching!None
<1> QED BY <1>2 DEF Fetching!Init, Fetching!IInv, Fetching!Checked, Fetching!Networking,
     Fetching!FilesOfPlace, Fetching!PeersAreChecked, Fetching!NothingCutOff,
     Fetching!FailureLeavesNothing, Fetching!None

(* However a try ends, its file and its connection go. *)
LEMMA FetchingEndTry ==
  ASSUME Fetching!IInv, NEW how \in {"transient", "final"}, Fetching!EndTry(how), s1 # "copy"
  PROVE  Fetching!IInv'
<1>1. s1' \in {"sleep", "failed"} /\ (s1' = "sleep" => how = "transient" /\ s11 < Tries)
  BY DEF Fetching!EndTry
<1>2. /\ s12' = how /\ s6' = "none" /\ s9' = {}
      /\ UNCHANGED <<s2, s3, s4, s5, s7, s8, s10, s11>>
  BY DEF Fetching!EndTry, Fetching!request, Fetching!body, Fetching!None
<1>3. Fetching!TypeOK' BY <1>1, <1>2 DEF Fetching!IInv, Fetching!TypeOK, Fetching!None
<1> QED BY <1>1, <1>2, <1>3 DEF Fetching!IInv, Fetching!Checked, Fetching!Networking,
     Fetching!FilesOfPlace, Fetching!PeersAreChecked, Fetching!NothingCutOff,
     Fetching!FailureLeavesNothing, Fetching!None

LEMMA FetchingNext ==
  ASSUME Fetching!FetchAssumption, Fetching!IInv, [Fetching!Next]_(Fetching!vars)
  PROVE  Fetching!IInv'
<1>1. /\ MaxRedirects \in Nat /\ MaxBytes \in Nat /\ FetchBudget \in Nat /\ Tries \in Nat \ {0}
      /\ AllowedUrls \subseteq Urls /\ Nothing \notin Nat
      /\ BodyLengths \subseteq Nat \cup {Nothing}
  BY DEF Fetching!FetchAssumption
<1>2. /\ Fetching!TypeOK /\ Fetching!Checked /\ Fetching!FilesOfPlace
      /\ Fetching!PeersAreChecked /\ Fetching!NothingCutOff /\ Fetching!FailureLeavesNothing
  BY DEF Fetching!IInv
<1> USE DEF Fetching!Networking, Fetching!None, Fetching!request, Fetching!body,
            Fetching!InBudget, Fetching!Goto
<1> DEFINE Rest == /\ Fetching!Checked /\ Fetching!FilesOfPlace /\ Fetching!PeersAreChecked
                   /\ Fetching!NothingCutOff /\ Fetching!FailureLeavesNothing
<1>3. ASSUME Fetching!TypeOK', Rest' PROVE Fetching!IInv' BY <1>3 DEF Fetching!IInv
<1>4. CASE UNCHANGED Fetching!vars
  <2>1. Fetching!TypeOK' BY <1>2, <1>4 DEF Fetching!vars, Fetching!TypeOK
  <2>2. Rest' BY <1>2, <1>4 DEF Fetching!vars, Fetching!Checked, Fetching!Acceptable,
      Fetching!FilesOfPlace, Fetching!PeersAreChecked, Fetching!NothingCutOff,
      Fetching!FailureLeavesNothing
  <2> QED BY <2>1, <2>2, <1>3
<1>5. CASE Fetching!Start
  <2>1. CASE s3 \in AllowedUrls
    <3>1. s1 = "start" /\ s1' = "resolve" /\ UNCHANGED <<s2, s3, s4, s5, s6, s7, s8, s9, s10, s11, s12>>
      BY <1>5, <2>1 DEF Fetching!Start
    <3>2. Fetching!TypeOK' BY <1>2, <3>1 DEF Fetching!TypeOK
    <3>3. Rest' BY <1>2, <2>1, <3>1 DEF Fetching!Checked,
        Fetching!FilesOfPlace, Fetching!PeersAreChecked, Fetching!NothingCutOff,
        Fetching!FailureLeavesNothing
    <3> QED BY <3>2, <3>3, <1>3
  <2>2. CASE s3 \notin AllowedUrls BY <1>5, <2>2, FetchingEndTry DEF Fetching!Start
  <2> QED BY <2>1, <2>2
<1>6. CASE Fetching!OutOfTime BY <1>6, FetchingEndTry DEF Fetching!OutOfTime
<1>7. CASE Fetching!Retry
  <2>1. /\ s1 = "sleep" /\ s1' = "start" /\ s11' = s11 + 1 /\ s4' = 0 /\ s5' = {} /\ s7' = Nothing
        /\ s8' = 0 /\ s10' = 0 /\ s3' = s2 /\ UNCHANGED <<s2, s6, s9, s12>>
    BY <1>7 DEF Fetching!Retry
  <2>2. s11' \in 1 .. Tries /\ s9 = {} /\ s6 = "none"
    BY <1>1, <1>2, <2>1 DEF Fetching!TypeOK, Fetching!FilesOfPlace
  <2>3. Fetching!TypeOK' BY <1>1, <1>2, <2>1, <2>2 DEF Fetching!TypeOK
  <2>4. Rest' BY <1>2, <2>1, <2>2 DEF Fetching!Checked, Fetching!FilesOfPlace,
      Fetching!PeersAreChecked, Fetching!NothingCutOff, Fetching!FailureLeavesNothing
  <2> QED BY <2>3, <2>4, <1>3
<1>8. ASSUME NEW whole \in BOOLEAN, Fetching!Copied(whole) PROVE Fetching!IInv'
  <2>1. /\ s1 = "copy" /\ UNCHANGED <<s2, s3, s4, s5, s6, s7, s8, s10, s11>>
        /\ \/ s1' = "fetched" /\ UNCHANGED <<s9, s12>>
           \/ s1' = "failed" /\ s9' = {} /\ s12' = "final"
    BY <1>8 DEF Fetching!Copied
  <2>2. Fetching!TypeOK'
    <3>1. Fetching!TypeOK BY <1>2
    <3>2. s1' \in {"fetched", "extract", "ready", "failed"} /\ s6 = "none" BY <3>1, <2>1 DEF Fetching!TypeOK
    <3>3. s9' \subseteq {"media", "audio"} BY <3>1, <2>1 DEF Fetching!TypeOK
    <3>4. s12' \in {"none", "transient", "final"} BY <3>1, <2>1 DEF Fetching!TypeOK
    <3> QED BY <3>1, <2>1, <3>2, <3>3, <3>4 DEF Fetching!TypeOK
  <2>3. Rest' BY <1>2, <2>1 DEF Fetching!TypeOK, Fetching!Checked, Fetching!FilesOfPlace,
      Fetching!PeersAreChecked, Fetching!NothingCutOff, Fetching!FailureLeavesNothing
  <2> QED BY <2>2, <2>3, <1>3
<1>9. ASSUME NEW video \in BOOLEAN, Fetching!UseMedia(video) PROVE Fetching!IInv'
  <2>1. /\ s1 = "fetched" /\ UNCHANGED <<s2, s3, s4, s5, s6, s7, s8, s10, s11, s12>>
        /\ s1' \in {"extract", "ready"} /\ s9' \in {s9, s9 \cup {"audio"}}
    BY <1>9 DEF Fetching!UseMedia
  <2>2. Fetching!TypeOK'
    <3>1. Fetching!TypeOK BY <1>2
    <3>2. s1' \in {"fetched", "extract", "ready", "failed"} /\ s6 = "none" BY <3>1, <2>1 DEF Fetching!TypeOK
    <3>3. s9' \subseteq {"media", "audio"} BY <3>1, <2>1 DEF Fetching!TypeOK
    <3>4. s12' \in {"none", "transient", "final"} BY <3>1, <2>1 DEF Fetching!TypeOK
    <3> QED BY <3>1, <2>1, <3>2, <3>3, <3>4 DEF Fetching!TypeOK
  <2>3. Rest' BY <1>2, <2>1 DEF Fetching!TypeOK, Fetching!Checked, Fetching!FilesOfPlace,
      Fetching!PeersAreChecked, Fetching!NothingCutOff, Fetching!FailureLeavesNothing
  <2> QED BY <2>2, <2>3, <1>3
<1>10. ASSUME NEW well \in BOOLEAN, Fetching!Extracted(well) PROVE Fetching!IInv'
  <2>1. /\ s1 = "extract" /\ UNCHANGED <<s2, s3, s4, s5, s6, s7, s8, s10, s11>>
        /\ \/ s1' = "ready" /\ UNCHANGED <<s9, s12>>
           \/ s1' = "failed" /\ s9' = {} /\ s12' = "final"
    BY <1>10 DEF Fetching!Extracted
  <2>2. Fetching!TypeOK'
    <3>1. Fetching!TypeOK BY <1>2
    <3>2. s1' \in {"fetched", "extract", "ready", "failed"} /\ s6 = "none" BY <3>1, <2>1 DEF Fetching!TypeOK
    <3>3. s9' \subseteq {"media", "audio"} BY <3>1, <2>1 DEF Fetching!TypeOK
    <3>4. s12' \in {"none", "transient", "final"} BY <3>1, <2>1 DEF Fetching!TypeOK
    <3> QED BY <3>1, <2>1, <3>2, <3>3, <3>4 DEF Fetching!TypeOK
  <2>3. Rest' BY <1>2, <2>1 DEF Fetching!TypeOK, Fetching!Checked, Fetching!FilesOfPlace,
      Fetching!PeersAreChecked, Fetching!NothingCutOff, Fetching!FailureLeavesNothing
  <2> QED BY <2>2, <2>3, <1>3
<1>11. ASSUME NEW addresses \in SUBSET Fetching!Addresses, Fetching!Resolved(addresses)
       PROVE  Fetching!IInv'
  <2>1. CASE addresses # {} /\ \A a \in addresses : Fetching!Acceptable(a)
    <3>1. /\ s1 = "resolve" /\ s1' = "connect" /\ s5' = addresses
          /\ UNCHANGED <<s2, s3, s4, s6, s7, s8, s9, s10, s11, s12>>
      BY <1>11, <2>1 DEF Fetching!Resolved
    <3>2. Fetching!TypeOK' BY <1>2, <3>1 DEF Fetching!TypeOK
    <3>3. Rest' BY <1>2, <2>1, <3>1 DEF Fetching!TypeOK, Fetching!Checked, Fetching!Acceptable,
        Fetching!FilesOfPlace, Fetching!PeersAreChecked, Fetching!NothingCutOff,
        Fetching!FailureLeavesNothing
    <3> QED BY <3>2, <3>3, <1>3
  <2>2. CASE ~(addresses # {} /\ \A a \in addresses : Fetching!Acceptable(a))
    BY <1>11, <2>2, FetchingEndTry DEF Fetching!Resolved
  <2> QED BY <2>1, <2>2
<1>12. ASSUME NEW address \in Fetching!Addresses, Fetching!Connected(address) PROVE Fetching!IInv'
  <2>1. /\ s1 = "connect" /\ s1' = "respond" /\ s6' = address /\ address \in s5
        /\ UNCHANGED <<s2, s3, s4, s5, s7, s8, s9, s10, s11, s12>>
    BY <1>12 DEF Fetching!Connected
  <2>2. Fetching!TypeOK' BY <1>2, <2>1 DEF Fetching!TypeOK, Fetching!Addresses
  <2>3. Fetching!Acceptable(address) BY <1>2, <2>1 DEF Fetching!Checked
  <2>4. Rest' BY <1>2, <2>1, <2>3 DEF Fetching!TypeOK, Fetching!Checked, Fetching!Acceptable,
      Fetching!FilesOfPlace, Fetching!PeersAreChecked, Fetching!NothingCutOff,
      Fetching!FailureLeavesNothing
  <2> QED BY <2>2, <2>4, <1>3
<1>13. ASSUME NEW target \in Urls, Fetching!Redirected(target) PROVE Fetching!IInv'
  <2>1. CASE s4 = MaxRedirects \/ target \notin AllowedUrls
    BY <1>13, <2>1, FetchingEndTry DEF Fetching!Redirected
  <2>2. CASE ~(s4 = MaxRedirects \/ target \notin AllowedUrls)
    <3>1. /\ s1 = "respond" /\ s1' = "resolve" /\ s3' = target /\ s4' = s4 + 1 /\ s6' = "none"
          /\ s5' = {} /\ UNCHANGED <<s2, s7, s8, s9, s10, s11, s12>>
      BY <1>13, <2>2 DEF Fetching!Redirected
    <3>2. s4' \in 0 .. MaxRedirects BY <1>1, <1>2, <2>2, <3>1 DEF Fetching!TypeOK
    <3>3. Fetching!TypeOK' BY <1>2, <3>1, <3>2 DEF Fetching!TypeOK
    <3>4. Rest' BY <1>2, <2>2, <3>1 DEF Fetching!TypeOK, Fetching!Checked,
        Fetching!FilesOfPlace, Fetching!PeersAreChecked, Fetching!NothingCutOff,
        Fetching!FailureLeavesNothing
    <3> QED BY <3>3, <3>4, <1>3
  <2> QED BY <2>1, <2>2
<1>14. ASSUME NEW how \in {"transient", "final"}, Fetching!NetworkFails(how) PROVE Fetching!IInv'
  BY <1>14, FetchingEndTry DEF Fetching!NetworkFails
<1>15. ASSUME NEW supported \in BOOLEAN, NEW length \in BodyLengths, Fetching!Answered(supported, length)
       PROVE  Fetching!IInv'
  <2>1. CASE ~supported BY <1>15, <2>1, FetchingEndTry DEF Fetching!Answered
  <2>2. CASE supported
    <3>1. /\ s1 = "respond" /\ s1' = "body" /\ s7' = length /\ s9' = {"media"}
          /\ UNCHANGED <<s2, s3, s4, s5, s6, s8, s10, s11, s12>>
      BY <1>15, <2>2 DEF Fetching!Answered
    <3>2. Fetching!TypeOK' BY <1>2, <3>1 DEF Fetching!TypeOK
    <3>3. Rest' BY <1>2, <3>1 DEF Fetching!TypeOK, Fetching!Checked, Fetching!Acceptable,
        Fetching!FilesOfPlace, Fetching!PeersAreChecked, Fetching!NothingCutOff,
        Fetching!FailureLeavesNothing
    <3> QED BY <3>2, <3>3, <1>3
  <2> QED BY <2>1, <2>2
<1>16. CASE Fetching!Chunk
  <2>1. CASE s8 = MaxBytes BY <1>16, <2>1, FetchingEndTry DEF Fetching!Chunk
  <2>2. CASE s8 # MaxBytes
    <3>1. /\ s1 = "body" /\ s8' = s8 + 1
          /\ UNCHANGED <<s1, s2, s3, s4, s5, s6, s7, s9, s10, s11, s12>>
      BY <1>16, <2>2 DEF Fetching!Chunk
    <3>2. s8' \in 0 .. MaxBytes BY <1>1, <1>2, <2>2, <3>1 DEF Fetching!TypeOK
    <3>3. Fetching!TypeOK' BY <1>2, <3>1, <3>2 DEF Fetching!TypeOK
    <3>4. Rest' BY <1>2, <3>1 DEF Fetching!TypeOK, Fetching!Checked, Fetching!Acceptable,
        Fetching!FilesOfPlace, Fetching!PeersAreChecked, Fetching!NothingCutOff,
        Fetching!FailureLeavesNothing
    <3> QED BY <3>3, <3>4, <1>3
  <2> QED BY <2>1, <2>2
<1>17. CASE Fetching!BodyEnds
  <2>1. CASE s7 # Nothing /\ s8 < s7 BY <1>17, <2>1, FetchingEndTry DEF Fetching!BodyEnds
  <2>2. CASE ~(s7 # Nothing /\ s8 < s7)
    <3>1. /\ s1 = "body" /\ s1' = "fetched" /\ s6' = "none"
          /\ UNCHANGED <<s2, s3, s4, s5, s7, s8, s9, s10, s11, s12>>
      BY <1>17, <2>2 DEF Fetching!BodyEnds
    <3>2. Fetching!TypeOK' BY <1>2, <3>1 DEF Fetching!TypeOK
    <3>3. s7 # Nothing => s8 >= s7
      <4>1. s8 \in Nat /\ (s7 # Nothing => s7 \in Nat) BY <1>1, <1>2 DEF Fetching!TypeOK
      <4> QED BY <2>2, <4>1
    <3>4. Rest' BY <1>2, <3>1, <3>3 DEF Fetching!TypeOK, Fetching!Checked,
        Fetching!FilesOfPlace, Fetching!PeersAreChecked, Fetching!NothingCutOff,
        Fetching!FailureLeavesNothing
    <3> QED BY <3>2, <3>4, <1>3
  <2> QED BY <2>1, <2>2
<1>18. CASE Fetching!Tick
  <2>1. s10' \in 0 .. FetchBudget /\ UNCHANGED <<s1, s2, s3, s4, s5, s6, s7, s8, s9, s11, s12>>
    BY <1>1, <1>2, <1>18 DEF Fetching!Tick, Fetching!TypeOK
  <2>2. Fetching!TypeOK' BY <1>2, <2>1 DEF Fetching!TypeOK
  <2>3. Rest' BY <1>2, <2>1 DEF Fetching!Checked, Fetching!Acceptable,
      Fetching!FilesOfPlace, Fetching!PeersAreChecked, Fetching!NothingCutOff,
      Fetching!FailureLeavesNothing
  <2> QED BY <2>2, <2>3, <1>3
<1> QED BY <1>4, <1>5, <1>6, <1>7, <1>8, <1>9, <1>10, <1>11, <1>12, <1>13, <1>14, <1>15, <1>16, <1>17,
        <1>18 DEF Fetching!Next, Fetching!Own, Fetching!Others

FetchingInv == running = "fetching" => Fetching!IInv

LEMMA FetchingInductive ==
  /\ Init => FetchingInv
  /\ FetchingInv /\ [Next]_all => FetchingInv'
<1>1. Fetching!FetchAssumption BY InstancesAssumption
<1>2. Init => FetchingInv BY <1>1, FetchingStart, FetchingInit DEF FetchingInv
<1>3. ASSUME FetchingInv, [Next]_all PROVE FetchingInv'
  <2> SUFFICES ASSUME running' = "fetching" PROVE Fetching!IInv' BY DEF FetchingInv
  <2> QED BY <1>1, <1>3, FetchingRuns, FetchingNext DEF FetchingInv
<1> QED BY <1>2, <1>3

(* Only a failure that another try can fix is tried again. *)
LEMMA FetchingStepsHonest ==
  ASSUME Fetching!FetchAssumption, Fetching!IInv, [Fetching!Next]_(Fetching!vars)
  PROVE  Fetching!OnlyTransientRetried
<1>1. s11 \in Nat BY DEF Fetching!IInv, Fetching!TypeOK, Fetching!FetchAssumption
<1>2. ASSUME s11' = s11 PROVE Fetching!OnlyTransientRetried
  BY <1>1, <1>2 DEF Fetching!OnlyTransientRetried
<1>3. CASE Fetching!Retry
  BY <1>3 DEF Fetching!Retry, Fetching!IInv, Fetching!FilesOfPlace, Fetching!OnlyTransientRetried
<1>4. CASE UNCHANGED Fetching!vars \/ Fetching!Tick \/ Fetching!Others
  BY <1>2, <1>4 DEF Fetching!vars, Fetching!Tick, Fetching!Others, Fetching!Resolved, Fetching!Connected,
     Fetching!Redirected, Fetching!NetworkFails, Fetching!Answered, Fetching!Chunk, Fetching!BodyEnds,
     Fetching!Goto, Fetching!EndTry
<1>5. CASE Fetching!Own /\ ~Fetching!Retry
  BY <1>2, <1>5 DEF Fetching!Own, Fetching!Start, Fetching!OutOfTime, Fetching!Copied,
     Fetching!UseMedia, Fetching!Extracted, Fetching!Goto, Fetching!EndTry
<1> QED BY <1>3, <1>4, <1>5 DEF Fetching!Next

-----------------------------------------------------------------------------
(* Sign-ins *)

LEMMA LoginsRuns ==
  ASSUME [Next]_all, running' = "logins"
  PROVE  running = "logins" /\ [Logins!Next]_(Logins!vars)
  BY DEF Next, MediaNext, Step, all, slots, Logins!vars

LEMMA LoginsStart == ASSUME Init, running = "logins" PROVE Logins!Init
  BY DEF Init, MediaInit, Launch

LEMMA LoginsFinite == \A S : Logins!IsFiniteSet(S) <=> IsFiniteSet(S)
  BY DEF Logins!IsFiniteSet, IsFiniteSet

LEMMA LoginsCardinality == \A S : Logins!Cardinality(S) = Cardinality(S)
  BY DEF Logins!Cardinality, Cardinality

(* The entry of a key as it counts now: of an expired window nothing is left but the *)
(* reservations.                                                                      *)
LEMMA LoginsLoad ==
  ASSUME Logins!ThrottleAssumption, Logins!TypeOK, NEW k \in Logins!Keys
  PROVE  /\ Logins!Load(k) \in [failures : Nat, expires : 0 .. LastSecond + Lockout, pending : SUBSET Attempts]
         /\ s2[k] \in [failures : Nat, expires : 0 .. LastSecond + Lockout, pending : SUBSET Attempts]
         /\ s1 \in Nat
         /\ Logins!Load(k).pending = s2[k].pending
         /\ s2[k].expires <= s1 => Logins!Load(k).failures = 0 /\ Logins!Load(k).expires = 0
         /\ s2[k].expires > s1 => Logins!Load(k) = s2[k]
         /\ Logins!Load(k).failures = 0 => Logins!Load(k).expires = 0
         /\ Logins!Load(k).failures <= s2[k].failures
<1>1. /\ s2[k] \in [failures : Nat, expires : 0 .. LastSecond + Lockout, pending : SUBSET Attempts]
      /\ s1 \in Nat /\ 0 \in 0 .. LastSecond + Lockout
      /\ s2[k].failures = 0 => s2[k].expires = 0
  BY DEF Logins!TypeOK, Logins!ThrottleAssumption
<1>2. CASE s2[k].expires <= s1
  <2>1. Logins!Load(k) = [failures |-> 0, expires |-> 0, pending |-> s2[k].pending]
    BY <1>1, <1>2 DEF Logins!Load
  <2>2. Logins!Load(k) \in [failures : Nat, expires : 0 .. LastSecond + Lockout, pending : SUBSET Attempts]
    <3>1. s2[k].pending \in SUBSET Attempts BY <1>1
    <3> QED BY <2>1, <3>1, <1>1
  <2>3. Logins!Load(k).pending = s2[k].pending /\ Logins!Load(k).failures = 0 /\ Logins!Load(k).expires = 0
    BY <2>1, <1>1
  <2>4. 0 <= s2[k].failures /\ ~(s2[k].expires > s1) BY <1>1, <1>2
  <2> QED BY <2>2, <2>3, <2>4, <1>1
<1>3. CASE ~(s2[k].expires <= s1) BY <1>1, <1>3 DEF Logins!Load
<1> QED BY <1>2, <1>3

(* What counts are counts: the sign-ins that have begun are finitely many. *)
LEMMA LoginsSets ==
  ASSUME Logins!ThrottleAssumption, Logins!IInv, NEW k \in Logins!Keys
  PROVE  /\ IsFiniteSet(Logins!Checks(k)) /\ Cardinality(Logins!Checks(k)) \in Nat
         /\ IsFiniteSet(Logins!InWindow(k)) /\ Cardinality(Logins!InWindow(k)) \in Nat
<1>1. IsFiniteSet(Logins!Started) BY LoginsFinite DEF Logins!IInv
<1>2. Logins!Checks(k) \subseteq Logins!Started /\ Logins!InWindow(k) \subseteq Logins!Started
  BY DEF Logins!Checks, Logins!InWindow, Logins!Started
<1> QED BY <1>1, <1>2, FS_Subset, FS_CardinalityType

LEMMA LoginsInit ==
  ASSUME Logins!ThrottleAssumption, Logins!Init
  PROVE  Logins!IInv
<1>1. MaxFailures \in Nat \ {0} /\ Lockout \in Nat \ {0} /\ LastSecond \in Nat /\ Evictions \in Nat
  BY DEF Logins!ThrottleAssumption
<1>2. /\ s1 = 0 /\ s4 = 0
      /\ \A k \in Logins!Keys : s2[k] = [failures |-> 0, expires |-> 0, pending |-> {}]
      /\ \A a \in Attempts : s3[a] = [at |-> "new", keys |-> {}, time |-> 0, counted |-> {}]
  BY DEF Logins!Init, Logins!Empty, Logins!Fresh
<1>3. Logins!TypeOK BY <1>1, <1>2 DEF Logins!Init, Logins!TypeOK, Logins!Empty, Logins!Fresh
<1>4. Logins!Started = {} BY <1>2 DEF Logins!Started
<1>5. \A k : Logins!Checks(k) = {} /\ Logins!InWindow(k) = {}
  BY <1>2 DEF Logins!Checks, Logins!InWindow
<1>6. IsFiniteSet({}) /\ Cardinality({}) = 0 BY FS_EmptySet
<1>7. Logins!IsFiniteSet(Logins!Started) BY <1>4, <1>6, LoginsFinite
<1>8. Logins!ChecksReserve BY <1>2, <1>5 DEF Logins!ChecksReserve
<1>9. Logins!WindowsOpen BY <1>1, <1>2 DEF Logins!WindowsOpen, Logins!Keys
<1>10. Logins!ChecksBounded
  <2> SUFFICES ASSUME NEW k \in Logins!Keys
               PROVE  Logins!Cardinality(Logins!Checks(k)) + Logins!Load(k).failures <= MaxFailures
    BY DEF Logins!ChecksBounded
  <2>1. Logins!Load(k).failures = 0 BY <1>1, <1>2, <1>3, LoginsLoad
  <2>2. Logins!Cardinality(Logins!Checks(k)) = 0 BY <1>5, <1>6, LoginsCardinality
  <2> QED BY <2>1, <2>2, <1>1
<1>11. Logins!FailuresOfTheWindow
  <2> SUFFICES ASSUME NEW k \in ClientAddresses
               PROVE  s2[k].failures = Logins!Cardinality(Logins!InWindow(k)) /\ s2[k].failures = 0
    BY DEF Logins!FailuresOfTheWindow
  <2>1. Logins!Cardinality(Logins!InWindow(k)) = 0 BY <1>5, <1>6, LoginsCardinality
  <2> QED BY <2>1, <1>2 DEF Logins!Keys
<1> QED BY <1>3, <1>7, <1>8, <1>9, <1>10, <1>11 DEF Logins!IInv

(* The invariant needs only what it says of one key, for every key. *)
LEMMA LoginsKeyByKey ==
  ASSUME Logins!ThrottleAssumption, Logins!TypeOK', Logins!IInv,
         Logins!IsFiniteSet(Logins!Started)',
         s4' >= s4,
         \A a \in Attempts : s3'[a].time <= s1',
         \A k \in Logins!Keys :
           /\ s2'[k].pending \subseteq Logins!Checks(k)'
           /\ s4' = 0 => s2'[k].pending = Logins!Checks(k)'
           /\ s2'[k].expires <= s1' + Lockout
           /\ s4' = 0 => Cardinality(Logins!Checks(k)') + Logins!Load(k)'.failures <= MaxFailures,
         \A k \in ClientAddresses :
           /\ s4' = 0 =>
                \A a \in Attempts :
                  s3'[a].at = "failed" /\ k \in s3'[a].counted /\ s3'[a].time = s1' => s2'[k].expires > s1'
           /\ s2'[k].failures <= Cardinality(Logins!InWindow(k)')
           /\ (s4' = 0 /\ s2'[k].expires > s1') => s2'[k].failures = Cardinality(Logins!InWindow(k)')
  PROVE  Logins!IInv'
<1>1. Logins!ChecksReserve' BY DEF Logins!ChecksReserve
<1>2. Logins!WindowsOpen' BY DEF Logins!WindowsOpen
<1>3. Logins!ChecksBounded' BY LoginsCardinality DEF Logins!ChecksBounded
<1>4. Logins!FailuresOfTheWindow' BY LoginsCardinality DEF Logins!FailuresOfTheWindow
<1> QED BY <1>1, <1>2, <1>3, <1>4 DEF Logins!IInv

(* What the invariant says of a key. *)
LEMMA LoginsOfKey ==
  ASSUME Logins!ThrottleAssumption, Logins!IInv, NEW k \in Logins!Keys
  PROVE  /\ s2[k].pending \subseteq Logins!Checks(k)
         /\ s4 = 0 => s2[k].pending = Logins!Checks(k)
         /\ s2[k].expires <= s1 + Lockout
         /\ s4 = 0 => Cardinality(Logins!Checks(k)) + Logins!Load(k).failures <= MaxFailures
         /\ k \in ClientAddresses =>
              /\ s4 = 0 =>
                   \A a \in Attempts :
                     s3[a].at = "failed" /\ k \in s3[a].counted /\ s3[a].time = s1 => s2[k].expires > s1
              /\ s2[k].failures <= Cardinality(Logins!InWindow(k))
              /\ (s4 = 0 /\ s2[k].expires > s1) => s2[k].failures = Cardinality(Logins!InWindow(k))
<1>1. s2[k].pending \subseteq Logins!Checks(k) /\ (s4 = 0 => s2[k].pending = Logins!Checks(k))
  BY DEF Logins!IInv, Logins!ChecksReserve
<1>2. /\ s2[k].expires <= s1 + Lockout
      /\ k \in ClientAddresses /\ s4 = 0 =>
           \A a \in Attempts :
             s3[a].at = "failed" /\ k \in s3[a].counted /\ s3[a].time = s1 => s2[k].expires > s1
  BY DEF Logins!IInv, Logins!WindowsOpen
<1>3. s4 = 0 => Cardinality(Logins!Checks(k)) + Logins!Load(k).failures <= MaxFailures
  BY LoginsCardinality DEF Logins!IInv, Logins!ChecksBounded
<1>4. k \in ClientAddresses =>
        /\ s2[k].failures <= Cardinality(Logins!InWindow(k))
        /\ (s4 = 0 /\ s2[k].expires > s1) => s2[k].failures = Cardinality(Logins!InWindow(k))
  BY LoginsCardinality DEF Logins!IInv, Logins!FailuresOfTheWindow
<1> QED BY <1>1, <1>2, <1>3, <1>4

(* Time passes: windows expire, and no check and no failure moves. *)
LEMMA LoginsTick ==
  ASSUME Logins!ThrottleAssumption, Logins!IInv, s1' \in 0 .. LastSecond, s1' >= s1,
         UNCHANGED <<s2, s3, s4>>
  PROVE  Logins!IInv'
<1>1. /\ MaxFailures \in Nat \ {0} /\ Lockout \in Nat \ {0} /\ LastSecond \in Nat /\ Evictions \in Nat
      /\ ClientAddresses \subseteq Logins!Keys
  BY DEF Logins!ThrottleAssumption, Logins!Keys
<1>2. Logins!TypeOK /\ Logins!IsFiniteSet(Logins!Started) BY DEF Logins!IInv
<1>3. Logins!TypeOK' BY <1>2 DEF Logins!TypeOK
<1>4. Logins!IsFiniteSet(Logins!Started)' BY <1>2, LoginsFinite DEF Logins!Started
<1>5. s1 \in Nat /\ s1' \in Nat /\ s4 \in Nat BY <1>1, <1>2 DEF Logins!TypeOK
<1>6. \A a \in Attempts : s3'[a].time <= s1'
  <2> SUFFICES ASSUME NEW a \in Attempts PROVE s3[a].time <= s1' OBVIOUS
  <2>1. s3[a].time \in Nat /\ s3[a].time <= s1 BY <1>1, <1>2 DEF Logins!TypeOK, Logins!IInv, Logins!WindowsOpen
  <2> QED BY <2>1, <1>5
<1>7. ASSUME NEW k \in Logins!Keys
      PROVE  /\ Logins!Checks(k)' = Logins!Checks(k) /\ Logins!InWindow(k)' = Logins!InWindow(k)
             /\ Logins!Load(k)'.failures <= Logins!Load(k).failures
             /\ s2[k].failures \in Nat /\ s2[k].expires \in Nat
             /\ Logins!Load(k).failures \in Nat /\ Logins!Load(k)'.failures \in Nat
  <2>1. Logins!Checks(k)' = Logins!Checks(k) BY DEF Logins!Checks
  <2>2. Logins!InWindow(k)' = Logins!InWindow(k) BY DEF Logins!InWindow
  <2>3. s2[k] \in [failures : Nat, expires : 0 .. LastSecond + Lockout, pending : SUBSET Attempts]
    BY <1>2 DEF Logins!TypeOK
  <2>4. CASE s2[k].expires <= s1'
    <3>1. Logins!Load(k)'.failures = 0 BY <2>3, <2>4 DEF Logins!Load
    <3>2. Logins!Load(k).failures \in Nat BY <1>2, LoginsLoad
    <3> QED BY <2>1, <2>2, <2>3, <3>1, <3>2, <1>1
  <2>5. CASE ~(s2[k].expires <= s1')
    <3>1. ~(s2[k].expires <= s1) BY <2>3, <2>5, <1>1, <1>5
    <3>2. Logins!Load(k)' = s2[k] /\ Logins!Load(k) = s2[k] BY <2>5, <3>1 DEF Logins!Load
    <3> QED BY <2>1, <2>2, <2>3, <3>2, <1>1
  <2> QED BY <2>4, <2>5
<1>8. ASSUME NEW k \in Logins!Keys
      PROVE  /\ s2'[k].pending \subseteq Logins!Checks(k)'
             /\ s4' = 0 => s2'[k].pending = Logins!Checks(k)'
             /\ s2'[k].expires <= s1' + Lockout
             /\ s4' = 0 => Cardinality(Logins!Checks(k)') + Logins!Load(k)'.failures <= MaxFailures
  <2>1. PICK n \in Nat : n = Cardinality(Logins!Checks(k)) BY LoginsSets
  <2>2. s2[k].expires <= s1' + Lockout BY <1>1, <1>5, <1>7, LoginsOfKey
  <2>3. s4 = 0 => n + Logins!Load(k)'.failures <= MaxFailures BY <1>1, <1>7, <2>1, LoginsOfKey
  <2> QED BY <1>7, <2>1, <2>2, <2>3, LoginsOfKey
<1>9. ASSUME NEW k \in ClientAddresses
      PROVE  /\ s4' = 0 =>
                  \A a \in Attempts :
                    s3'[a].at = "failed" /\ k \in s3'[a].counted /\ s3'[a].time = s1' => s2'[k].expires > s1'
             /\ s2'[k].failures <= Cardinality(Logins!InWindow(k)')
             /\ (s4' = 0 /\ s2'[k].expires > s1') => s2'[k].failures = Cardinality(Logins!InWindow(k)')
  <2>0. k \in Logins!Keys BY <1>1
  <2>1. PICK n \in Nat : n = Cardinality(Logins!InWindow(k)) BY <2>0, LoginsSets
  <2>2. /\ s2[k].failures <= n
        /\ (s4 = 0 /\ s2[k].expires > s1') => s2[k].failures = n
    BY <1>5, <1>7, <2>0, <2>1, LoginsOfKey
  <2>3. ASSUME s4 = 0, NEW a \in Attempts, s3[a].at = "failed", k \in s3[a].counted, s3[a].time = s1'
        PROVE  s2[k].expires > s1'
    <3>1. s3[a].time <= s1 BY DEF Logins!IInv, Logins!WindowsOpen
    <3>2. s1' = s1 BY <3>1, <2>3, <1>5
    <3> QED BY <3>2, <2>3, <2>0, LoginsOfKey
  <2> QED BY <2>0, <2>1, <2>2, <2>3, <1>7
<1>10. s4' >= s4 BY <1>5
<1> QED BY <1>3, <1>4, <1>6, <1>8, <1>9, <1>10, LoginsKeyByKey

(* A step that moves no check and no failure, and at most drops an entry. *)
LEMMA LoginsEvict ==
  ASSUME Logins!ThrottleAssumption, Logins!IInv, NEW k \in Logins!Keys, Logins!Evict(k)
  PROVE  Logins!IInv'
<1>1. /\ MaxFailures \in Nat \ {0} /\ Lockout \in Nat \ {0} /\ LastSecond \in Nat /\ Evictions \in Nat
      /\ ClientAddresses \subseteq Logins!Keys
  BY DEF Logins!ThrottleAssumption, Logins!Keys
<1>2. Logins!TypeOK /\ Logins!IsFiniteSet(Logins!Started) BY DEF Logins!IInv
<1>3. s1 \in 0 .. LastSecond /\ s4 \in 0 .. Evictions BY <1>2 DEF Logins!TypeOK
<1>4. /\ UNCHANGED <<s1, s3>> /\ s4' = s4 + 1 /\ s4 < Evictions
      /\ s2' = [s2 EXCEPT ![k] = Logins!Empty]
  BY DEF Logins!Evict
<1>5. \A j \in Logins!Keys :
        \/ s2'[j] = s2[j]
        \/ s2'[j] = [failures |-> 0, expires |-> 0, pending |-> {}]
  BY <1>2, <1>4 DEF Logins!TypeOK, Logins!Empty
<1>6. Logins!TypeOK'
  <2>1. s2' \in [Logins!Keys -> [failures : Nat, expires : 0 .. LastSecond + Lockout, pending : SUBSET Attempts]]
    <3>1. Logins!Empty \in [failures : Nat, expires : 0 .. LastSecond + Lockout, pending : SUBSET Attempts]
      BY <1>1 DEF Logins!Empty
    <3> QED BY <1>2, <1>4, <3>1 DEF Logins!TypeOK
  <2>2. s4' \in 0 .. Evictions BY <1>1, <1>3, <1>4
  <2>3. \A j \in Logins!Keys : s2'[j].failures = 0 => s2'[j].expires = 0
    BY <1>2, <1>5 DEF Logins!TypeOK
  <2> QED BY <1>2, <1>4, <2>1, <2>2, <2>3 DEF Logins!TypeOK
<1>7. Logins!IsFiniteSet(Logins!Started)' BY <1>2, <1>4, LoginsFinite DEF Logins!Started
<1>8. s4' >= s4 /\ s4' # 0 BY <1>1, <1>3, <1>4
<1>9. \A a \in Attempts : s3'[a].time <= s1' BY <1>4 DEF Logins!IInv, Logins!WindowsOpen
<1>10. ASSUME NEW j \in Logins!Keys
       PROVE  s2'[j].pending \subseteq Logins!Checks(j)' /\ s2'[j].expires <= s1' + Lockout
  <2>1. Logins!Checks(j)' = Logins!Checks(j) BY <1>4 DEF Logins!Checks
  <2>2. s2[j].pending \subseteq Logins!Checks(j) /\ s2[j].expires <= s1 + Lockout BY LoginsOfKey
  <2>3. 0 <= s1 + Lockout BY <1>1, <1>3
  <2> QED BY <1>4, <1>5, <2>1, <2>2, <2>3
<1>11. ASSUME NEW j \in ClientAddresses PROVE s2'[j].failures <= Cardinality(Logins!InWindow(j)')
  <2>0. j \in Logins!Keys BY <1>1
  <2>1. CASE s2'[j] = s2[j]
    <3>1. Logins!InWindow(j)' = Logins!InWindow(j) BY <1>4, <2>1 DEF Logins!InWindow
    <3> QED BY <2>0, <2>1, <3>1, LoginsOfKey
  <2>2. CASE s2'[j] = [failures |-> 0, expires |-> 0, pending |-> {}]
    <3>1. Logins!InWindow(j)' \subseteq Logins!Started BY <1>4 DEF Logins!InWindow, Logins!Started
    <3>2. PICK n \in Nat : n = Cardinality(Logins!InWindow(j)')
      BY <3>1, <1>2, LoginsFinite, FS_Subset, FS_CardinalityType
    <3>3. s2'[j].failures = 0 BY <2>2
    <3> QED BY <3>2, <3>3
  <2> QED BY <2>0, <2>1, <2>2, <1>5
<1> QED BY <1>6, <1>7, <1>8, <1>9, <1>10, <1>11, LoginsKeyByKey

(* A failure counts once, and opens the window when it is the first of it. *)
LEMMA LoginsFailed ==
  ASSUME NEW b \in [failures : Nat, expires : 0 .. LastSecond + Lockout, pending : SUBSET Attempts],
         NEW f \in Nat, NEW e \in 0 .. LastSecond + Lockout,
         NEW entry, entry = [b EXCEPT !.failures = f, !.expires = e]
  PROVE  entry = [failures |-> f, expires |-> e, pending |-> b.pending]
<1>1. PICK q \in [failures : Nat, expires : 0 .. LastSecond + Lockout, pending : SUBSET Attempts] :
        q = [b EXCEPT !.failures = f]
  OBVIOUS
<1>2. q = [failures |-> f, expires |-> b.expires, pending |-> b.pending] BY <1>1
<1>3. [q EXCEPT !.expires = e] = [failures |-> q.failures, expires |-> e, pending |-> q.pending] OBVIOUS
<1>4. [[b EXCEPT !.failures = f] EXCEPT !.expires = e] = [q EXCEPT !.expires = e] BY <1>1
<1> QED BY <1>2, <1>3, <1>4

LEMMA LoginsReserve ==
  ASSUME Logins!ThrottleAssumption, Logins!IInv,
         NEW a \in Attempts, NEW address \in ClientAddresses, NEW user \in Users,
         Logins!Reserve(a, address, user)
  PROVE  Logins!IInv'
<1>1. /\ MaxFailures \in Nat \ {0} /\ Lockout \in Nat \ {0} /\ LastSecond \in Nat /\ Evictions \in Nat
      /\ ClientAddresses \subseteq Logins!Keys /\ Users \subseteq Logins!Keys
  BY DEF Logins!ThrottleAssumption, Logins!Keys
<1>2. Logins!TypeOK /\ Logins!IsFiniteSet(Logins!Started) BY DEF Logins!IInv
<1>3. s1 \in 0 .. LastSecond /\ s4 \in 0 .. Evictions BY <1>2 DEF Logins!TypeOK
<1>4. PICK keys \in SUBSET Logins!Keys : keys = {address, user} BY <1>1
<1>5. /\ s3[a].at = "new" /\ UNCHANGED <<s1, s4>>
      /\ \/ /\ s3' = [s3 EXCEPT ![a].at = "refused"] /\ UNCHANGED s2
         \/ /\ \A k \in keys : ~Logins!Full(Logins!Load(k))
            /\ s3' = [s3 EXCEPT ![a].at = "checking", ![a].keys = keys]
            /\ s2' = [k \in Logins!Keys |->
                        IF k \in keys THEN [Logins!Load(k) EXCEPT !.pending = @ \cup {a}] ELSE s2[k]]
  BY <1>4 DEF Logins!Reserve, Logins!Save
<1>6. s3[a] \in [at : {"new", "checking", "refused", "failed", "signedIn"},
                 keys : SUBSET Logins!Keys, time : 0 .. LastSecond, counted : SUBSET Logins!Keys]
  BY <1>2 DEF Logins!TypeOK
<1>7. /\ s3' \in [Attempts -> [at : {"new", "checking", "refused", "failed", "signedIn"},
                               keys : SUBSET Logins!Keys, time : 0 .. LastSecond, counted : SUBSET Logins!Keys]]
      /\ \A b \in Attempts : b # a => s3'[b] = s3[b]
      /\ s3'[a].at \in {"refused", "checking"} /\ s3'[a].time = s3[a].time
  <2>1. PICK r \in [at : {"new", "checking", "refused", "failed", "signedIn"},
                    keys : SUBSET Logins!Keys, time : 0 .. LastSecond, counted : SUBSET Logins!Keys] : r = s3[a]
    BY <1>6
  <2>2. s3 \in [Attempts -> [at : {"new", "checking", "refused", "failed", "signedIn"},
                             keys : SUBSET Logins!Keys, time : 0 .. LastSecond, counted : SUBSET Logins!Keys]]
    BY <1>2 DEF Logins!TypeOK
  <2>3. CASE s3' = [s3 EXCEPT ![a].at = "refused"]
    <3>1. [r EXCEPT !.at = "refused"] = [at |-> "refused", keys |-> r.keys, time |-> r.time, counted |-> r.counted]
      OBVIOUS
    <3>2. s3' = [s3 EXCEPT ![a] = [r EXCEPT !.at = "refused"]] BY <2>1, <2>3, Zenon
    <3>3. s3' = [s3 EXCEPT ![a] = [at |-> "refused", keys |-> r.keys, time |-> r.time, counted |-> r.counted]]
      BY <3>1, <3>2, Zenon
    <3> QED BY <2>1, <2>2, <3>3
  <2>4. CASE s3' = [s3 EXCEPT ![a].at = "checking", ![a].keys = keys]
    <3>1. [r EXCEPT !.at = "checking", !.keys = keys]
            = [at |-> "checking", keys |-> keys, time |-> r.time, counted |-> r.counted]
      <4>1. PICK q \in [at : {"checking"}, keys : SUBSET Logins!Keys, time : 0 .. LastSecond, counted : SUBSET Logins!Keys] :
              q = [r EXCEPT !.at = "checking"]
        OBVIOUS
      <4>2. q = [at |-> "checking", keys |-> r.keys, time |-> r.time, counted |-> r.counted] BY <4>1
      <4>3. [q EXCEPT !.keys = keys] = [at |-> q.at, keys |-> keys, time |-> q.time, counted |-> q.counted]
        OBVIOUS
      <4>4. [[r EXCEPT !.at = "checking"] EXCEPT !.keys = keys] = [q EXCEPT !.keys = keys] BY <4>1
      <4> QED BY <4>2, <4>3, <4>4
    <3>2. s3'[a] = [r EXCEPT !.at = "checking", !.keys = keys] BY <2>1, <2>2, <2>4
    <3>3. s3' = [s3 EXCEPT ![a] = s3'[a]] BY <2>2, <2>4
    <3>4. s3'[a] = [at |-> "checking", keys |-> keys, time |-> r.time, counted |-> r.counted]
      BY <3>1, <3>2, Zenon
    <3>5. s3' = [s3 EXCEPT ![a] = [at |-> "checking", keys |-> keys, time |-> r.time, counted |-> r.counted]]
      BY <3>3, <3>4, Zenon
    <3> QED BY <2>1, <2>2, <3>5
  <2> QED BY <1>5, <2>3, <2>4
<1>8. Logins!IsFiniteSet(Logins!Started)'
  <2>1. Logins!Started' \subseteq Logins!Started \cup {a} BY <1>7 DEF Logins!Started
  <2>2. IsFiniteSet(Logins!Started) BY <1>2, LoginsFinite
  <2>3. IsFiniteSet(Logins!Started \cup {a}) BY <2>2, FS_AddElement
  <2>4. IsFiniteSet(Logins!Started') BY <2>1, <2>3, FS_Subset
  <2> QED BY <2>4, LoginsFinite
<1>9. \A b \in Attempts : s3'[b].time <= s1'
  BY <1>5, <1>7 DEF Logins!IInv, Logins!WindowsOpen
<1>10. \A k \in Logins!Keys : a \notin Logins!Checks(k) BY <1>5 DEF Logins!Checks
<1>11. ASSUME NEW k \in Logins!Keys, s2'[k].expires = s2[k].expires
       PROVE  Logins!InWindow(k)' = Logins!InWindow(k)
  BY <1>5, <1>7, <1>11 DEF Logins!InWindow
<1>12. s4' >= s4 /\ s1 \in Nat BY <1>1, <1>3, <1>5
<1>13. s1' = s1 BY <1>5
<1>14. CASE s3' = [s3 EXCEPT ![a].at = "refused"] /\ UNCHANGED s2
  <2>1. Logins!TypeOK' BY <1>2, <1>5, <1>7, <1>14 DEF Logins!TypeOK
  <2>2. s3'[a].at = "refused" BY <1>2, <1>6, <1>14 DEF Logins!TypeOK
  <2>3. ASSUME NEW k \in Logins!Keys
        PROVE  /\ Logins!Checks(k)' = Logins!Checks(k) /\ Logins!InWindow(k)' = Logins!InWindow(k)
               /\ Logins!Load(k)' = Logins!Load(k)
    <3>1. Logins!Checks(k)' = Logins!Checks(k) BY <1>5, <1>7, <2>2 DEF Logins!Checks
    <3>2. Logins!InWindow(k)' = Logins!InWindow(k) BY <1>11, <1>14
    <3>3. Logins!Load(k)' = Logins!Load(k) BY <1>5, <1>14 DEF Logins!Load
    <3> QED BY <3>1, <3>2, <3>3
  <2>4. ASSUME s4' = 0, NEW k \in ClientAddresses, NEW b \in Attempts,
               s3'[b].at = "failed", k \in s3'[b].counted, s3'[b].time = s1'
        PROVE  s2'[k].expires > s1'
    <3>1. b # a BY <2>2, <2>4
    <3>2. s3[b] = s3'[b] BY <1>7, <3>1
    <3> QED BY <1>1, <1>5, <1>14, <2>4, <3>2, LoginsOfKey
  <2>5. \A k \in Logins!Keys :
          /\ s2'[k].pending \subseteq Logins!Checks(k)'
          /\ s4' = 0 => s2'[k].pending = Logins!Checks(k)'
          /\ s2'[k].expires <= s1' + Lockout
          /\ s4' = 0 => Cardinality(Logins!Checks(k)') + Logins!Load(k)'.failures <= MaxFailures
    BY <1>5, <1>14, <2>3, LoginsOfKey
  <2>6. \A k \in ClientAddresses :
          /\ s2'[k].failures <= Cardinality(Logins!InWindow(k)')
          /\ (s4' = 0 /\ s2'[k].expires > s1') => s2'[k].failures = Cardinality(Logins!InWindow(k)')
    BY <1>1, <1>5, <1>14, <2>3, LoginsOfKey
  <2> QED BY <1>8, <1>9, <1>12, <2>1, <2>4, <2>5, <2>6, LoginsKeyByKey
<1>15. CASE /\ \A k \in keys : ~Logins!Full(Logins!Load(k))
            /\ s3' = [s3 EXCEPT ![a].at = "checking", ![a].keys = keys]
            /\ s2' = [k \in Logins!Keys |->
                        IF k \in keys THEN [Logins!Load(k) EXCEPT !.pending = @ \cup {a}] ELSE s2[k]]
  <2>1. s3'[a].at = "checking" /\ s3'[a].keys = keys BY <1>2, <1>6, <1>15 DEF Logins!TypeOK
  <2>2. ASSUME NEW k \in Logins!Keys
        PROVE  /\ s2[k] \in [failures : Nat, expires : 0 .. LastSecond + Lockout, pending : SUBSET Attempts]
               /\ s2'[k] \in [failures : Nat, expires : 0 .. LastSecond + Lockout, pending : SUBSET Attempts]
               /\ k \in keys => /\ s2'[k].pending = s2[k].pending \cup {a}
                                /\ s2'[k].failures = Logins!Load(k).failures
                                /\ s2'[k].expires = Logins!Load(k).expires
               /\ k \notin keys => s2'[k] = s2[k]
    <3>1. CASE k \in keys
      <4>1. PICK b \in [failures : Nat, expires : 0 .. LastSecond + Lockout, pending : SUBSET Attempts] :
              b = Logins!Load(k) /\ b.pending = s2[k].pending
        BY <1>2, LoginsLoad
      <4>2. s2'[k] = [b EXCEPT !.pending = @ \cup {a}] BY <1>15, <3>1, <4>1
      <4>3. s2'[k] = [failures |-> b.failures, expires |-> b.expires, pending |-> b.pending \cup {a}]
        BY <4>2
      <4>4. b.pending \cup {a} \in SUBSET Attempts BY <4>1
      <4> QED BY <3>1, <4>1, <4>3, <4>4, <1>2, LoginsLoad
    <3>2. CASE k \notin keys BY <1>15, <3>2, <1>2, LoginsLoad
    <3> QED BY <3>1, <3>2
  <2>3. Logins!TypeOK'
    <3>1. s2' \in [Logins!Keys -> [failures : Nat, expires : 0 .. LastSecond + Lockout, pending : SUBSET Attempts]]
      BY <1>15, <2>2
    <3>2. \A k \in Logins!Keys : s2'[k].failures = 0 => s2'[k].expires = 0
      <4> SUFFICES ASSUME NEW k \in Logins!Keys, s2'[k].failures = 0 PROVE s2'[k].expires = 0 OBVIOUS
      <4>1. CASE k \in keys BY <1>2, <2>2, <4>1, LoginsLoad
      <4>2. CASE k \notin keys BY <1>2, <2>2, <4>2 DEF Logins!TypeOK
      <4> QED BY <4>1, <4>2
    <3> QED BY <1>2, <1>5, <1>7, <3>1, <3>2 DEF Logins!TypeOK
  <2>4. ASSUME NEW k \in Logins!Keys
        PROVE  /\ k \in keys => Logins!Checks(k)' = Logins!Checks(k) \cup {a}
               /\ k \notin keys => Logins!Checks(k)' = Logins!Checks(k)
    BY <1>7, <1>10, <2>1 DEF Logins!Checks
  <2>5. ASSUME NEW k \in Logins!Keys
        PROVE  /\ s2'[k].pending \subseteq Logins!Checks(k)'
               /\ s4' = 0 => s2'[k].pending = Logins!Checks(k)'
               /\ s2'[k].expires <= s1' + Lockout
    <3>1. s2[k].pending \subseteq Logins!Checks(k) /\ (s4 = 0 => s2[k].pending = Logins!Checks(k))
      BY LoginsOfKey
    <3>2. s2'[k].pending \subseteq Logins!Checks(k)' /\ (s4' = 0 => s2'[k].pending = Logins!Checks(k)')
      BY <1>5, <2>2, <2>4, <3>1
    <3>3. s2[k].expires <= s1 + Lockout /\ s2[k].expires \in Nat
      BY <1>1, <2>2, LoginsOfKey
    <3>4. s2'[k].expires \in {0, s2[k].expires}
      <4>1. CASE s2[k].expires <= s1 BY <1>2, <2>2, <4>1, LoginsLoad
      <4>2. CASE ~(s2[k].expires <= s1)
        <5>1. s2[k].expires > s1 BY <4>2, <3>3, <1>12
        <5> QED BY <1>2, <2>2, <5>1, LoginsLoad
      <4> QED BY <4>1, <4>2
    <3>5. s2'[k].expires <= s1 + Lockout BY <3>3, <3>4, <1>1, <1>12
    <3> QED BY <3>2, <3>5, <1>5
  <2>6. ASSUME NEW k \in Logins!Keys, s4' = 0
        PROVE  Cardinality(Logins!Checks(k)') + Logins!Load(k)'.failures <= MaxFailures
    <3>1. Logins!Load(k)'.failures <= s2'[k].failures /\ Logins!Load(k)'.failures \in Nat
      <4>1. CASE s2'[k].expires <= s1
        <5>1. Logins!Load(k)' = [s2'[k] EXCEPT !.failures = 0, !.expires = 0]
          BY <1>13, <4>1 DEF Logins!Load
        <5>2. Logins!Load(k)'.failures = 0 BY <5>1, <2>2
        <5>3. s2'[k].failures \in Nat BY <2>2
        <5> QED BY <5>2, <5>3
      <4>2. CASE ~(s2'[k].expires <= s1)
        <5>1. Logins!Load(k)' = s2'[k] BY <1>13, <4>2 DEF Logins!Load
        <5>2. s2'[k].failures \in Nat BY <2>2
        <5> QED BY <5>1, <5>2
      <4> QED BY <4>1, <4>2
    <3>2. IsFiniteSet(Logins!Checks(k)) BY LoginsSets
    <3>3. PICK n \in Nat : n = Cardinality(Logins!Checks(k)) BY LoginsSets
    <3>4. CASE k \in keys
      <4>1. Cardinality(Logins!Checks(k)') = n + 1
        BY <1>10, <2>4, <3>2, <3>3, <3>4, FS_AddElement
      <4>2. s2[k].pending = Logins!Checks(k) BY <1>5, <2>6, LoginsOfKey
      <4>3. PICK f \in Nat : f = Logins!Load(k).failures BY <1>2, LoginsLoad
      <4>4. Logins!Load(k).pending = Logins!Checks(k) BY <1>2, <4>2, LoginsLoad
      <4>5. ~(f + n >= MaxFailures)
        BY <1>15, <3>3, <3>4, <4>3, <4>4, LoginsCardinality DEF Logins!Full
      <4>6. s2'[k].failures = f BY <2>2, <3>4, <4>3
      <4>7. n + 1 + Logins!Load(k)'.failures <= MaxFailures BY <1>1, <3>1, <4>5, <4>6
      <4> QED BY <4>1, <4>7
    <3>5. CASE k \notin keys
      <4>1. Logins!Checks(k)' = Logins!Checks(k) BY <2>4, <3>5
      <4>2. s2'[k] = s2[k] BY <2>2, <3>5
      <4>3. Logins!Load(k)' = Logins!Load(k) BY <1>13, <4>2 DEF Logins!Load
      <4> QED BY <1>5, <2>6, <4>1, <4>3, LoginsOfKey
    <3> QED BY <3>4, <3>5
  <2>7. ASSUME NEW k \in ClientAddresses
        PROVE  /\ s4' = 0 =>
                    \A b \in Attempts :
                      s3'[b].at = "failed" /\ k \in s3'[b].counted /\ s3'[b].time = s1' => s2'[k].expires > s1'
               /\ s2'[k].failures <= Cardinality(Logins!InWindow(k)')
               /\ (s4' = 0 /\ s2'[k].expires > s1') => s2'[k].failures = Cardinality(Logins!InWindow(k)')
    <3>0. k \in Logins!Keys BY <1>1
    <3>1. s2[k].expires \in Nat /\ s2[k].failures \in Nat BY <1>1, <2>2, <3>0
    <3>2. CASE k \in keys /\ s2[k].expires <= s1
      <4>1. s2'[k].failures = 0 /\ s2'[k].expires = 0 BY <1>2, <2>2, <3>0, <3>2, LoginsLoad
      <4>2. Logins!InWindow(k)' \subseteq Logins!Started
        BY <1>7 DEF Logins!InWindow, Logins!Started
      <4>3. PICK n \in Nat : n = Cardinality(Logins!InWindow(k)')
        BY <4>2, <1>2, LoginsFinite, FS_Subset, FS_CardinalityType
      <4>4. ~(s2'[k].expires > s1') BY <4>1, <1>5, <1>12
      <4>5. ASSUME s4' = 0, NEW b \in Attempts,
                   s3'[b].at = "failed", k \in s3'[b].counted, s3'[b].time = s1'
            PROVE  FALSE
        <5>1. b # a BY <2>1, <4>5
        <5>2. s3[b] = s3'[b] BY <1>7, <5>1
        <5>3. s2[k].expires > s1 BY <1>5, <3>0, <4>5, <5>2, LoginsOfKey
        <5> QED BY <5>3, <3>2, <3>1, <1>12
      <4> QED BY <4>1, <4>3, <4>4, <4>5
    <3>3. CASE ~(k \in keys /\ s2[k].expires <= s1)
      <4>1. s2'[k].failures = s2[k].failures /\ s2'[k].expires = s2[k].expires
        <5>1. CASE k \in keys
          <6>1. s2[k].expires > s1 BY <3>3, <5>1, <3>1, <1>12
          <6> QED BY <1>2, <2>2, <3>0, <5>1, <6>1, LoginsLoad
        <5>2. CASE k \notin keys BY <2>2, <3>0, <5>2
        <5> QED BY <5>1, <5>2
      <4>2. Logins!InWindow(k)' = Logins!InWindow(k) BY <1>11, <3>0, <4>1
      <4>3. ASSUME s4' = 0, NEW b \in Attempts,
                   s3'[b].at = "failed", k \in s3'[b].counted, s3'[b].time = s1'
            PROVE  s2'[k].expires > s1'
        <5>1. b # a BY <2>1, <4>3
        <5>2. s3[b] = s3'[b] BY <1>7, <5>1
        <5>3. s2[k].expires > s1 BY <1>5, <3>0, <4>3, <5>2, LoginsOfKey
        <5> QED BY <5>3, <4>1, <1>5
      <4> QED BY <1>5, <3>0, <4>1, <4>2, <4>3, LoginsOfKey
    <3> QED BY <3>2, <3>3
  <2> QED BY <1>8, <1>9, <1>12, <2>3, <2>5, <2>6, <2>7, LoginsKeyByKey
<1> QED BY <1>5, <1>14, <1>15

(* What settling does to the entry of a key that still has the reservation. *)
SettledTo(a, success, k, failures, expires) ==
  Logins!Settled(a, success, k).failures = failures /\ Logins!Settled(a, success, k).expires = expires

LEMMA LoginsSettledKey ==
  ASSUME Logins!ThrottleAssumption, Logins!TypeOK, NEW k \in Logins!Keys,
         NEW a \in Attempts, NEW success \in BOOLEAN
  PROVE  /\ Logins!Settled(a, success, k)
              \in [failures : Nat, expires : 0 .. LastSecond + Lockout, pending : SUBSET Attempts]
         /\ Logins!Settled(a, success, k).pending = s2[k].pending \ {a}
         /\ success /\ k \notin Users => SettledTo(a, success, k, Logins!Load(k).failures, Logins!Load(k).expires)
         /\ success /\ k \in Users => SettledTo(a, success, k, 0, 0)
         /\ ~success /\ Logins!Load(k).failures = 0 => SettledTo(a, success, k, 1, s1 + Lockout)
         /\ ~success /\ Logins!Load(k).failures # 0 =>
              SettledTo(a, success, k, Logins!Load(k).failures + 1, Logins!Load(k).expires)
<1>1. s1 \in 0 .. LastSecond /\ Lockout \in Nat /\ LastSecond \in Nat
  BY DEF Logins!ThrottleAssumption, Logins!TypeOK
<1>2. PICK b \in [failures : Nat, expires : 0 .. LastSecond + Lockout, pending : SUBSET Attempts] :
        b = Logins!Load(k) /\ b.pending = s2[k].pending
  BY LoginsLoad
<1>3. PICK c \in [failures : Nat, expires : 0 .. LastSecond + Lockout, pending : SUBSET Attempts] :
        c = [failures |-> b.failures, expires |-> b.expires, pending |-> b.pending \ {a}]
  OBVIOUS
<1>4. [Logins!Load(k) EXCEPT !.pending = @ \ {a}] = c
  <2>3. [b EXCEPT !.pending = b.pending \ {a}]
          = [failures |-> b.failures, expires |-> b.expires, pending |-> b.pending \ {a}]
    OBVIOUS
  <2>1. [b EXCEPT !.pending = b.pending \ {a}] = c BY <2>3, <1>3
  <2>2. [b EXCEPT !.pending = b.pending \ {a}] = [Logins!Load(k) EXCEPT !.pending = @ \ {a}] BY <1>2
  <2> QED BY <2>1, <2>2
<1>5. Logins!Settled(a, success, k) =
        IF ~success THEN Logins!Failed(c) ELSE IF k \in Users THEN Logins!Cleared(c) ELSE c
  BY <1>4 DEF Logins!Settled
<1>6. CASE ~success
  <2>1. PICK e \in 0 .. LastSecond + Lockout : e = IF c.failures = 0 THEN s1 + Lockout ELSE c.expires
    BY <1>1
  <2>7. PICK f \in Nat : f = c.failures + 1 OBVIOUS
  <2>2. PICK entry : entry = Logins!Failed(c) OBVIOUS
  <2>6. entry = [c EXCEPT !.failures = f, !.expires = e]
    BY <2>1, <2>2, <2>7 DEF Logins!Failed
  <2>8. entry = [failures |-> f, expires |-> e, pending |-> c.pending]
    BY <2>6, LoginsFailed, Zenon
  <2>3. Logins!Failed(c) = [failures |-> c.failures + 1, expires |-> e, pending |-> c.pending]
    BY <2>2, <2>7, <2>8
  <2>4. Logins!Settled(a, success, k) = [failures |-> c.failures + 1, expires |-> e, pending |-> c.pending]
    BY <1>5, <1>6, <2>3
  <2>5. c.failures = Logins!Load(k).failures /\ c.expires = Logins!Load(k).expires
        /\ c.pending = s2[k].pending \ {a}
    BY <1>2, <1>3
  <2>9. /\ Logins!Settled(a, success, k).failures = c.failures + 1
        /\ Logins!Settled(a, success, k).expires = e
        /\ Logins!Settled(a, success, k).pending = c.pending
        /\ Logins!Settled(a, success, k)
             \in [failures : Nat, expires : 0 .. LastSecond + Lockout, pending : SUBSET Attempts]
    BY <2>4
  <2> QED BY <1>6, <2>1, <2>5, <2>9 DEF SettledTo
<1>7. CASE success /\ k \in Users
  <2>1. PICK z \in Nat : z = 0 OBVIOUS
  <2>5. z \in 0 .. LastSecond + Lockout BY <2>1, <1>1
  <2>6. PICK entry : entry = Logins!Cleared(c) OBVIOUS
  <2>7. entry = [c EXCEPT !.failures = z, !.expires = z] BY <2>1, <2>6 DEF Logins!Cleared
  <2>8. entry = [failures |-> z, expires |-> z, pending |-> c.pending] BY <2>1, <2>5, <2>7, LoginsFailed, Zenon
  <2>9. Logins!Cleared(c) = [failures |-> 0, expires |-> 0, pending |-> c.pending]
    BY <2>1, <2>6, <2>8
  <2>2. c.pending = s2[k].pending \ {a} BY <1>2, <1>3
  <2>3. Logins!Settled(a, success, k) = [failures |-> 0, expires |-> 0, pending |-> c.pending]
    BY <1>5, <1>7, <2>9
  <2>4. 0 \in 0 .. LastSecond + Lockout BY <1>1
  <2>12. [failures |-> 0, expires |-> 0, pending |-> c.pending]
          \in [failures : Nat, expires : 0 .. LastSecond + Lockout, pending : SUBSET Attempts]
    BY <2>4
  <2>10. /\ Logins!Settled(a, success, k).failures = 0 /\ Logins!Settled(a, success, k).expires = 0
         /\ Logins!Settled(a, success, k).pending = c.pending
    BY <2>3
  <2>11. Logins!Settled(a, success, k)
           \in [failures : Nat, expires : 0 .. LastSecond + Lockout, pending : SUBSET Attempts]
    BY <2>3, <2>12
  <2> QED BY <1>7, <2>2, <2>10, <2>11 DEF SettledTo
<1>8. CASE success /\ k \notin Users
  <2>1. c.failures = Logins!Load(k).failures /\ c.expires = Logins!Load(k).expires
        /\ c.pending = s2[k].pending \ {a}
    BY <1>2, <1>3
  <2>2. Logins!Settled(a, success, k) = c BY <1>5, <1>8
  <2> QED BY <1>8, <2>1, <2>2 DEF SettledTo
<1> QED BY <1>6, <1>7, <1>8

(* What settling makes of the attempt. *)
LEMMA LoginsAttempt ==
  ASSUME Logins!TypeOK, NEW a \in Attempts, NEW place \in {"signedIn", "failed"},
         NEW counted \in SUBSET Logins!Keys,
         s3' = [s3 EXCEPT ![a].at = place, ![a].time = s1, ![a].counted = counted]
  PROVE  /\ s3' \in [Attempts -> [at : {"new", "checking", "refused", "failed", "signedIn"},
                                  keys : SUBSET Logins!Keys, time : 0 .. LastSecond, counted : SUBSET Logins!Keys]]
         /\ \A b \in Attempts : b # a => s3'[b] = s3[b]
         /\ s3'[a].at = place /\ s3'[a].time = s1 /\ s3'[a].counted = counted
<1>0. s1 \in 0 .. LastSecond BY DEF Logins!TypeOK
<1>1. PICK r \in [at : {"new", "checking", "refused", "failed", "signedIn"},
                  keys : SUBSET Logins!Keys, time : 0 .. LastSecond, counted : SUBSET Logins!Keys] : r = s3[a]
  BY DEF Logins!TypeOK
<1>2. s3 \in [Attempts -> [at : {"new", "checking", "refused", "failed", "signedIn"},
                           keys : SUBSET Logins!Keys, time : 0 .. LastSecond, counted : SUBSET Logins!Keys]]
  BY DEF Logins!TypeOK
<1>3. s3'[a] = [r EXCEPT !.at = place, !.time = s1, !.counted = counted] BY <1>1, <1>2
<1>4. place \in {"new", "checking", "refused", "failed", "signedIn"} OBVIOUS
<1>5. [r EXCEPT !.at = place, !.time = s1, !.counted = counted]
        = [at |-> place, keys |-> r.keys, time |-> s1, counted |-> counted]
  <2> DEFINE Attempt == [at : {"new", "checking", "refused", "failed", "signedIn"},
                         keys : SUBSET Logins!Keys, time : 0 .. LastSecond, counted : SUBSET Logins!Keys]
  <2>1. PICK q \in Attempt : q = [r EXCEPT !.at = place] BY <1>1, <1>4
  <2>2. PICK p \in Attempt : p = [q EXCEPT !.time = s1] BY <1>0
  <2>3. q = [at |-> place, keys |-> r.keys, time |-> r.time, counted |-> r.counted] BY <2>1
  <2>4. p = [at |-> q.at, keys |-> q.keys, time |-> s1, counted |-> q.counted] BY <2>2
  <2>5. [p EXCEPT !.counted = counted] = [at |-> p.at, keys |-> p.keys, time |-> p.time, counted |-> counted]
    OBVIOUS
  <2>6. [[[r EXCEPT !.at = place] EXCEPT !.time = s1] EXCEPT !.counted = counted] = [p EXCEPT !.counted = counted]
    BY <2>1, <2>2
  <2>7. p = [at |-> place, keys |-> r.keys, time |-> s1, counted |-> r.counted] BY <2>3, <2>4
  <2> QED BY <2>5, <2>6, <2>7
<1>6. s3'[a] = [at |-> place, keys |-> r.keys, time |-> s1, counted |-> counted] BY <1>3, <1>5, Zenon
<1>7. s3' = [s3 EXCEPT ![a] = s3'[a]] BY <1>2
<1>8. s3' = [s3 EXCEPT ![a] = [at |-> place, keys |-> r.keys, time |-> s1, counted |-> counted]]
  BY <1>6, <1>7, Zenon
<1>. DEFINE new == [at |-> place, keys |-> r.keys, time |-> s1, counted |-> counted]
<1>9. new \in [at : {"new", "checking", "refused", "failed", "signedIn"},
              keys : SUBSET Logins!Keys, time : 0 .. LastSecond, counted : SUBSET Logins!Keys]
  BY <1>0, <1>1, <1>4
<1>10. new.at = place /\ new.time = s1 /\ new.counted = counted
  OBVIOUS
<1>11. s3'[a] = new /\ \A b \in Attempts : b # a => s3'[b] = s3[b]
  BY <1>2, <1>6
<1>12. s3' \in [Attempts -> [at : {"new", "checking", "refused", "failed", "signedIn"},
                            keys : SUBSET Logins!Keys, time : 0 .. LastSecond, counted : SUBSET Logins!Keys]]
  <2> HIDE DEF new
  <2>1. s3' = [s3 EXCEPT ![a] = new] BY <1>8, Zenon DEF new
  <2> QED BY <2>1, <1>2, <1>9
<1> QED BY <1>10, <1>11, <1>12

LEMMA LoginsSettle ==
  ASSUME Logins!ThrottleAssumption, Logins!IInv,
         NEW a \in Attempts, NEW success \in BOOLEAN, Logins!Settle(a, success)
  PROVE  Logins!IInv'
<1>1. /\ MaxFailures \in Nat \ {0} /\ Lockout \in Nat \ {0} /\ LastSecond \in Nat /\ Evictions \in Nat
      /\ ClientAddresses \subseteq Logins!Keys /\ ClientAddresses \cap Users = {}
  BY DEF Logins!ThrottleAssumption, Logins!Keys
<1>2. Logins!TypeOK /\ Logins!IsFiniteSet(Logins!Started) BY DEF Logins!IInv
<1>3. s1 \in 0 .. LastSecond /\ s4 \in 0 .. Evictions BY <1>2 DEF Logins!TypeOK
<1>4. s3[a] \in [at : {"new", "checking", "refused", "failed", "signedIn"},
                 keys : SUBSET Logins!Keys, time : 0 .. LastSecond, counted : SUBSET Logins!Keys]
  BY <1>2 DEF Logins!TypeOK
<1>5. PICK mine \in SUBSET Logins!Keys : mine = {k \in s3[a].keys : a \in s2[k].pending} BY <1>4
<1>6. PICK place \in {"signedIn", "failed"} : place = IF success THEN "signedIn" ELSE "failed" OBVIOUS
<1>7. PICK counted \in SUBSET Logins!Keys : counted = IF success THEN {} ELSE mine OBVIOUS
<1>8. /\ s3[a].at = "checking" /\ s1' = s1 /\ s4' = s4
      /\ s3' = [s3 EXCEPT ![a].at = place, ![a].time = s1, ![a].counted = counted]
      /\ s2' = [k \in Logins!Keys |-> IF k \in mine THEN Logins!Settled(a, success, k) ELSE s2[k]]
  BY <1>5, <1>6, <1>7 DEF Logins!Settle, Logins!Save
<1>9. /\ s3' \in [Attempts -> [at : {"new", "checking", "refused", "failed", "signedIn"},
                               keys : SUBSET Logins!Keys, time : 0 .. LastSecond, counted : SUBSET Logins!Keys]]
      /\ \A b \in Attempts : b # a => s3'[b] = s3[b]
      /\ s3'[a].at = place /\ s3'[a].time = s1 /\ s3'[a].counted = counted
  BY <1>2, <1>8, LoginsAttempt
<1>10. ASSUME NEW k \in Logins!Keys
       PROVE  /\ s2[k] \in [failures : Nat, expires : 0 .. LastSecond + Lockout, pending : SUBSET Attempts]
              /\ s2'[k] \in [failures : Nat, expires : 0 .. LastSecond + Lockout, pending : SUBSET Attempts]
              /\ k \in mine => s2'[k] = Logins!Settled(a, success, k)
              /\ k \notin mine => s2'[k] = s2[k]
  BY <1>2, <1>8, LoginsSettledKey DEF Logins!TypeOK
<1> DEFINE To(k, failures, expires) == s2'[k].failures = failures /\ s2'[k].expires = expires
<1>20. ASSUME NEW k \in Logins!Keys, k \in mine
       PROVE  /\ s2'[k].pending = s2[k].pending \ {a}
              /\ success /\ k \notin Users => To(k, Logins!Load(k).failures, Logins!Load(k).expires)
              /\ success /\ k \in Users => To(k, 0, 0)
              /\ ~success /\ Logins!Load(k).failures = 0 => To(k, 1, s1 + Lockout)
              /\ ~success /\ Logins!Load(k).failures # 0 =>
                   To(k, Logins!Load(k).failures + 1, Logins!Load(k).expires)
  BY <1>2, <1>10, <1>20, LoginsSettledKey DEF SettledTo
<1>11. Logins!TypeOK'
  <2>1. s2' \in [Logins!Keys -> [failures : Nat, expires : 0 .. LastSecond + Lockout, pending : SUBSET Attempts]]
    BY <1>8, <1>10
  <2>2. ASSUME NEW k \in Logins!Keys, s2'[k].failures = 0 PROVE s2'[k].expires = 0
    <3>1. CASE k \in mine
      <4>1. Logins!Load(k).failures \in Nat /\ (Logins!Load(k).failures = 0 => Logins!Load(k).expires = 0)
        BY <1>2, LoginsLoad
      <4>2. success
        <5>1. ~success => s2'[k].failures = Logins!Load(k).failures + 1
          BY <1>20, <3>1, <4>1
        <5> QED BY <5>1, <4>1, <2>2
      <4>3. CASE k \in Users BY <1>20, <3>1, <4>2, <4>3
      <4>4. CASE k \notin Users
        <5>1. s2'[k].failures = Logins!Load(k).failures /\ s2'[k].expires = Logins!Load(k).expires
          BY <1>20, <3>1, <4>2, <4>4
        <5> QED BY <5>1, <4>1, <2>2
      <4> QED BY <4>3, <4>4
    <3>2. CASE k \notin mine BY <1>2, <1>10, <2>2, <3>2 DEF Logins!TypeOK
    <3> QED BY <3>1, <3>2
  <2> QED BY <1>2, <1>8, <1>9, <2>1, <2>2 DEF Logins!TypeOK
<1>12. Logins!Started' \subseteq Logins!Started /\ IsFiniteSet(Logins!Started)
  <2>1. Logins!Started' \subseteq Logins!Started BY <1>8, <1>9 DEF Logins!Started
  <2> QED BY <2>1, <1>2, LoginsFinite
<1>13. Logins!IsFiniteSet(Logins!Started)' BY <1>12, LoginsFinite, FS_Subset
<1>14. s4' >= s4 /\ s1 \in Nat BY <1>1, <1>3, <1>8
<1>15. \A b \in Attempts : s3'[b].time <= s1'
  <2> SUFFICES ASSUME NEW b \in Attempts PROVE s3'[b].time <= s1 BY <1>8
  <2>1. CASE b = a BY <1>9, <1>14, <2>1
  <2>2. CASE b # a BY <1>9, <2>2 DEF Logins!IInv, Logins!WindowsOpen
  <2> QED BY <2>1, <2>2
<1>16. ASSUME NEW k \in Logins!Keys
       PROVE  /\ Logins!Checks(k)' = Logins!Checks(k) \ {a}
              /\ s2'[k].pending = s2[k].pending \ {a}
              /\ k \in mine => a \in Logins!Checks(k)
              /\ k \notin mine => a \notin s2[k].pending
  <2>1. Logins!Checks(k)' = Logins!Checks(k) \ {a}
    <3>1. s3'[a].at # "checking" BY <1>9
    <3> QED BY <1>9, <3>1 DEF Logins!Checks
  <2>2. s2[k].pending \subseteq Logins!Checks(k) BY LoginsOfKey
  <2>3. k \notin mine => a \notin s2[k].pending BY <2>2, <1>5 DEF Logins!Checks
  <2>4. k \in mine => a \in Logins!Checks(k) BY <1>5, <2>2
  <2>5. s2'[k].pending = s2[k].pending \ {a}
    <3>1. CASE k \in mine BY <1>20, <3>1
    <3>2. CASE k \notin mine BY <1>10, <3>2, <2>3
    <3> QED BY <3>1, <3>2
  <2> QED BY <2>1, <2>3, <2>4, <2>5
<1>17. ASSUME NEW k \in Logins!Keys
       PROVE  /\ s2'[k].pending \subseteq Logins!Checks(k)'
              /\ s4' = 0 => s2'[k].pending = Logins!Checks(k)'
              /\ s2'[k].expires <= s1' + Lockout
  <2>1. s2[k].pending \subseteq Logins!Checks(k) /\ (s4 = 0 => s2[k].pending = Logins!Checks(k))
    BY LoginsOfKey
  <2>2. s2[k].expires <= s1 + Lockout /\ s2[k].expires \in Nat BY <1>1, <1>10, LoginsOfKey
  <2>3. Logins!Load(k).expires \in {0, s2[k].expires}
    <3>1. CASE s2[k].expires <= s1 BY <1>2, <3>1, LoginsLoad
    <3>2. CASE s2[k].expires > s1 BY <1>2, <3>2, LoginsLoad
    <3> QED BY <3>1, <3>2, <2>2, <1>14
  <2>4. s2'[k].expires \in {0, s2[k].expires, s1 + Lockout}
    <3>1. CASE k \in mine BY <1>20, <3>1, <2>3
    <3>2. CASE k \notin mine BY <1>10, <3>2
    <3> QED BY <3>1, <3>2
  <2>5. s2'[k].expires <= s1 + Lockout BY <2>2, <2>4, <1>1, <1>14
  <2> QED BY <1>8, <1>16, <2>1, <2>5
<1>18. ASSUME NEW k \in Logins!Keys, s4' = 0
       PROVE  Cardinality(Logins!Checks(k)') + Logins!Load(k)'.failures <= MaxFailures
  <2>1. IsFiniteSet(Logins!Checks(k)) BY LoginsSets
  <2>2. PICK n \in Nat : n = Cardinality(Logins!Checks(k)) BY LoginsSets
  <2>3. PICK f \in Nat : f = Logins!Load(k).failures BY <1>2, LoginsLoad
  <2>4. n + f <= MaxFailures BY <1>8, <1>18, <2>2, <2>3, LoginsOfKey
  <2>5. CASE k \in mine
    <3>1. Cardinality(Logins!Checks(k)') = n - 1
      BY <1>16, <2>1, <2>2, <2>5, FS_RemoveElement
    <3>2. PICK g \in Nat : g = s2'[k].failures BY <1>10
    <3>3. Logins!Load(k)'.failures \in {0, g}
      <4>1. CASE s2'[k].expires <= s1
        <5>1. Logins!Load(k)' = [s2'[k] EXCEPT !.failures = 0, !.expires = 0]
          BY <1>8, <4>1 DEF Logins!Load
        <5> QED BY <5>1, <1>10
      <4>2. CASE ~(s2'[k].expires <= s1)
        <5>1. Logins!Load(k)' = s2'[k] BY <1>8, <4>2 DEF Logins!Load
        <5> QED BY <5>1, <3>2
      <4> QED BY <4>1, <4>2
    <3>4. g \in {0, f, f + 1} BY <1>20, <2>3, <2>5, <3>2
    <3>5. (n - 1) + Logins!Load(k)'.failures <= MaxFailures BY <2>4, <3>3, <3>4, <1>1
    <3> QED BY <3>1, <3>5
  <2>6. CASE k \notin mine
    <3>1. s2[k].pending = Logins!Checks(k) BY <1>8, <1>18, LoginsOfKey
    <3>2. Logins!Checks(k)' = Logins!Checks(k) BY <1>16, <2>6, <3>1
    <3>3. s2'[k] = s2[k] BY <1>10, <2>6
    <3>4. Logins!Load(k)' = Logins!Load(k) BY <1>8, <3>3 DEF Logins!Load
    <3> QED BY <2>2, <2>3, <2>4, <3>2, <3>4
  <2> QED BY <2>5, <2>6
<1>19. ASSUME NEW k \in ClientAddresses
       PROVE  /\ s4' = 0 =>
                   \A b \in Attempts :
                     s3'[b].at = "failed" /\ k \in s3'[b].counted /\ s3'[b].time = s1' => s2'[k].expires > s1'
              /\ s2'[k].failures <= Cardinality(Logins!InWindow(k)')
              /\ (s4' = 0 /\ s2'[k].expires > s1') => s2'[k].failures = Cardinality(Logins!InWindow(k)')
  <2>0. k \in Logins!Keys /\ k \notin Users BY <1>1
  <2>1. s2[k].expires \in Nat /\ s2[k].failures \in Nat /\ s2[k].expires <= s1 + Lockout
    BY <1>1, <1>10, <2>0, LoginsOfKey
  <2>2. a \notin Logins!InWindow(k) BY <1>8 DEF Logins!InWindow
  <2>3. IsFiniteSet(Logins!InWindow(k)) BY <2>0, LoginsSets
  <2>4. PICK n \in Nat : n = Cardinality(Logins!InWindow(k)) BY <2>0, LoginsSets
  <2>5. s2[k].failures <= n /\ (s4 = 0 /\ s2[k].expires > s1 => s2[k].failures = n)
    BY <2>0, <2>4, LoginsOfKey
  <2>6. Logins!InWindow(k)' \subseteq Logins!Started'
    BY DEF Logins!InWindow, Logins!Started
  <2>7. IsFiniteSet(Logins!InWindow(k)') /\ Cardinality(Logins!InWindow(k)') \in Nat
    BY <2>6, <1>12, FS_Subset, FS_CardinalityType
  <2>8. ASSUME s4' = 0, NEW b \in Attempts, b # a,
               s3'[b].at = "failed", k \in s3'[b].counted, s3'[b].time = s1
        PROVE  s2[k].expires > s1
    <3>1. s3[b] = s3'[b] BY <1>9, <2>8
    <3> QED BY <1>8, <2>0, <2>8, <3>1, LoginsOfKey
  <2>9. CASE k \notin counted
    <3>1. ASSUME s2'[k].expires = s2[k].expires PROVE Logins!InWindow(k)' = Logins!InWindow(k)
      BY <1>8, <1>9, <2>9, <3>1 DEF Logins!InWindow
    <3>2. CASE k \in mine /\ s2[k].expires <= s1
      <4>1. success BY <2>9, <3>2, <1>7
      <4>2. s2'[k].failures = 0 /\ s2'[k].expires = 0
        <5>1. Logins!Load(k).failures = 0 /\ Logins!Load(k).expires = 0 BY <1>2, <2>0, <3>2, LoginsLoad
        <5> QED BY <5>1, <4>1, <1>20, <2>0, <3>2
      <4>3. 0 <= Cardinality(Logins!InWindow(k)') BY <2>7
      <4>4. ~(s2'[k].expires > s1') BY <4>2, <1>8, <1>14
      <4>5. ASSUME s4' = 0, NEW b \in Attempts,
                   s3'[b].at = "failed", k \in s3'[b].counted, s3'[b].time = s1'
            PROVE  FALSE
        <5>1. b # a BY <4>5, <1>9, <2>9
        <5>2. s2[k].expires > s1 BY <5>1, <4>5, <2>8, <1>8
        <5> QED BY <5>2, <3>2, <2>1, <1>14
      <4> QED BY <4>2, <4>3, <4>4, <4>5
    <3>3. CASE ~(k \in mine /\ s2[k].expires <= s1)
      <4>1. s2'[k].failures = s2[k].failures /\ s2'[k].expires = s2[k].expires
        <5>1. CASE k \in mine
          <6>1. success BY <2>9, <5>1, <1>7
          <6>2. Logins!Load(k) = s2[k]
            <7>1. s2[k].expires > s1 BY <3>3, <5>1, <2>1, <1>14
            <7> QED BY <7>1, <1>2, <2>0, LoginsLoad
          <6> QED BY <6>1, <6>2, <5>1, <1>20, <2>0
        <5>2. CASE k \notin mine BY <1>10, <2>0, <5>2
        <5> QED BY <5>1, <5>2
      <4>2. Logins!InWindow(k)' = Logins!InWindow(k) BY <3>1, <4>1
      <4>3. ASSUME s4' = 0, NEW b \in Attempts,
                   s3'[b].at = "failed", k \in s3'[b].counted, s3'[b].time = s1'
            PROVE  s2'[k].expires > s1'
        <5>1. b # a BY <4>3, <1>9, <2>9
        <5>2. s2[k].expires > s1 BY <5>1, <4>3, <2>8, <1>8
        <5> QED BY <5>2, <4>1, <1>8
      <4>4. s2'[k].failures <= Cardinality(Logins!InWindow(k)') BY <2>4, <2>5, <4>1, <4>2
      <4>5. s4' = 0 /\ s2'[k].expires > s1' => s2'[k].failures = Cardinality(Logins!InWindow(k)')
        BY <1>8, <2>4, <2>5, <4>1, <4>2
      <4> QED BY <4>3, <4>4, <4>5
    <3> QED BY <3>2, <3>3
  <2>10. CASE k \in counted
    <3>1. ~success /\ k \in mine /\ s3'[a].at = "failed" BY <2>10, <1>6, <1>7, <1>9
    <3>2. PICK f \in Nat : f = Logins!Load(k).failures BY <1>2, <2>0, LoginsLoad
    <3>3. s2'[k].failures = f + 1 BY <1>20, <2>0, <3>1, <3>2
    <3>4. CASE f = 0
      <4>9. Logins!Load(k).failures = 0 BY <3>2, <3>4
      <4>1. s2'[k].expires = s1 + Lockout BY <1>20, <2>0, <3>1, <4>9
      <4>2. s2'[k].expires > s1' BY <4>1, <1>1, <1>8, <1>14
      <4>3. a \in Logins!InWindow(k)'
        <5>1. s2'[k].expires - Lockout = s1 BY <4>1, <1>1, <1>14
        <5>2. s3'[a].time >= s2'[k].expires - Lockout BY <5>1, <1>9, <1>14
        <5> QED BY <5>2, <3>1, <1>9, <2>10 DEF Logins!InWindow
      <4>4. Cardinality({a}) = 1 /\ Cardinality({a}) <= Cardinality(Logins!InWindow(k)')
        BY <4>3, <2>7, FS_Singleton, FS_Subset
      <4>5. ASSUME s4' = 0 PROVE Logins!InWindow(k)' = {a}
        <5> SUFFICES ASSUME NEW b \in Attempts, b \in Logins!InWindow(k)', b # a PROVE FALSE
          BY <4>3 DEF Logins!InWindow
        <5>1. s3'[b].at = "failed" /\ k \in s3'[b].counted /\ s3'[b].time >= s2'[k].expires - Lockout
          BY DEF Logins!InWindow
        <5>2. s3'[b].time \in Nat BY <1>1, <1>9
        <5>7. s2'[k].expires - Lockout = s1 BY <4>1, <1>1, <1>14
        <5>8. s3'[b].time <= s1 BY <1>8, <1>15
        <5>3. s3'[b].time = s1 BY <5>1, <5>2, <5>7, <5>8, <1>14
        <5>4. s2[k].expires > s1 BY <4>5, <5>1, <5>3, <2>8
        <5>5. s2[k].failures = 0 BY <5>4, <3>2, <3>4, <1>2, <2>0, LoginsLoad
        <5>6. s2[k].expires = 0 BY <5>5, <1>2, <2>0 DEF Logins!TypeOK
        <5> QED BY <5>4, <5>6, <1>14
      <4>6. s2'[k].failures = 1 BY <3>3, <3>4
      <4>7. s2'[k].failures <= Cardinality(Logins!InWindow(k)') BY <4>4, <4>6
      <4>8. s4' = 0 => s2'[k].failures = Cardinality(Logins!InWindow(k)') BY <4>4, <4>5, <4>6
      <4> QED BY <4>2, <4>7, <4>8
    <3>5. CASE f # 0
      <4>1. s2[k].expires > s1
        <5>1. ~(s2[k].expires <= s1) BY <3>2, <3>5, <1>2, <2>0, LoginsLoad
        <5> QED BY <5>1, <2>1, <1>14
      <4>2. Logins!Load(k) = s2[k] BY <4>1, <1>2, <2>0, LoginsLoad
      <4>3. s2'[k].expires = s2[k].expires /\ s2[k].failures = f
        BY <1>20, <2>0, <3>1, <3>2, <3>5, <4>2
      <4>4. s1 >= s2[k].expires - Lockout BY <2>1, <1>1, <1>14
      <4>5. Logins!InWindow(k)' = Logins!InWindow(k) \cup {a}
        BY <1>9, <2>10, <3>1, <4>3, <4>4 DEF Logins!InWindow
      <4>6. Cardinality(Logins!InWindow(k)') = n + 1 BY <4>5, <2>2, <2>3, <2>4, FS_AddElement
      <4>7. s2'[k].failures <= n + 1 BY <3>3, <4>3, <2>5
      <4>8. s4' = 0 => s2'[k].failures = n + 1 BY <1>8, <3>3, <4>1, <4>3, <2>5
      <4>9. s2'[k].expires > s1' BY <4>1, <4>3, <1>8
      <4> QED BY <4>6, <4>7, <4>8, <4>9
    <3> QED BY <3>4, <3>5
  <2> QED BY <2>9, <2>10
<1> QED BY <1>11, <1>13, <1>14, <1>15, <1>17, <1>18, <1>19, LoginsKeyByKey

LoginsInv == running = "logins" => Logins!IInv

LEMMA LoginsInductive ==
  /\ Init => LoginsInv
  /\ LoginsInv /\ [Next]_all => LoginsInv'
<1>1. Logins!ThrottleAssumption BY InstancesAssumption
<1>2. Init => LoginsInv BY <1>1, LoginsStart, LoginsInit DEF LoginsInv
<1>3. ASSUME LoginsInv, [Next]_all PROVE LoginsInv'
  <2> SUFFICES ASSUME running' = "logins" PROVE Logins!IInv' BY DEF LoginsInv
  <2>1. Logins!IInv /\ [Logins!Next]_(Logins!vars) BY <1>3, LoginsRuns DEF LoginsInv
  <2>2. CASE UNCHANGED Logins!vars
    <3>1. s1 \in 0 .. LastSecond BY <2>1 DEF Logins!IInv, Logins!TypeOK
    <3>2. s1' \in 0 .. LastSecond /\ s1' >= s1 /\ UNCHANGED <<s2, s3, s4>>
      BY <2>2, <3>1, <1>1 DEF Logins!vars, Logins!ThrottleAssumption
    <3> QED BY <1>1, <2>1, <3>2, LoginsTick
  <2>3. CASE Logins!Tick
    <3>1. s1 \in 0 .. LastSecond BY <2>1 DEF Logins!IInv, Logins!TypeOK
    <3>2. s1' \in 0 .. LastSecond /\ s1' >= s1 /\ UNCHANGED <<s2, s3, s4>>
      BY <2>3, <3>1, <1>1 DEF Logins!Tick, Logins!ThrottleAssumption
    <3> QED BY <1>1, <2>1, <3>2, LoginsTick
  <2>4. CASE \E a \in Attempts, address \in ClientAddresses, user \in Users : Logins!Reserve(a, address, user)
    BY <1>1, <2>1, <2>4, LoginsReserve
  <2>5. CASE \E a \in Attempts, success \in BOOLEAN : Logins!Settle(a, success)
    BY <1>1, <2>1, <2>5, LoginsSettle
  <2>6. CASE \E k \in Logins!Keys : Logins!Evict(k) BY <1>1, <2>1, <2>6, LoginsEvict
  <2> QED BY <2>1, <2>2, <2>3, <2>4, <2>5, <2>6 DEF Logins!Next
<1> QED BY <1>2, <1>3

(* A reservation stays while its check runs. *)
LEMMA LoginsStepsHonest ==
  ASSUME Logins!ThrottleAssumption, Logins!IInv, [Logins!Next]_(Logins!vars)
  PROVE  Logins!ReservationsHeld
<1>1. /\ s4 \in Nat
      /\ s2 \in [Logins!Keys -> [failures : Nat, expires : 0 .. LastSecond + Lockout, pending : SUBSET Attempts]]
      /\ s3 \in [Attempts -> [at : {"new", "checking", "refused", "failed", "signedIn"},
                              keys : SUBSET Logins!Keys, time : 0 .. LastSecond, counted : SUBSET Logins!Keys]]
  BY DEF Logins!IInv, Logins!TypeOK, Logins!ThrottleAssumption
<1>2. CASE UNCHANGED s2 BY <1>2 DEF Logins!ReservationsHeld
<1>3. ASSUME NEW a \in Attempts, NEW address \in ClientAddresses, NEW user \in Users, Logins!Reserve(a, address, user)
      PROVE  Logins!ReservationsHeld
  <2>1. CASE s2' = s2 BY <1>2, <2>1
  <2>2. CASE s2' # s2
    <3>1. PICK loaded : loaded = [k \in {address, user} |-> [Logins!Load(k) EXCEPT !.pending = @ \cup {a}]]
      OBVIOUS
    <3>2. s2' = [k \in Logins!Keys |-> IF k \in {address, user} THEN loaded[k] ELSE s2[k]]
      <4>1. Logins!Save(loaded) BY <1>3, <2>2, <3>1 DEF Logins!Reserve
      <4>2. DOMAIN loaded = {address, user} BY <3>1
      <4> QED BY <4>1, <4>2 DEF Logins!Save
    <3>3. ASSUME NEW k \in {address, user} \cap Logins!Keys PROVE s2[k].pending \subseteq s2'[k].pending
      <4>1. Logins!Load(k).pending = s2[k].pending BY <1>1 DEF Logins!Load
      <4>2. PICK b : b = Logins!Load(k) OBVIOUS
      <4>3. \A set : [b EXCEPT !.pending = set].pending = set \/ "pending" \notin DOMAIN b OBVIOUS
      <4>4. s2'[k] = [b EXCEPT !.pending = b.pending \cup {a}] BY <3>1, <3>2, <4>2
      <4>5. "pending" \in DOMAIN b BY <1>1, <4>2 DEF Logins!Load
      <4> QED BY <4>1, <4>2, <4>3, <4>4, <4>5
    <3> QED BY <3>2, <3>3 DEF Logins!ReservationsHeld
  <2> QED BY <2>1, <2>2
<1>4. ASSUME NEW a \in Attempts, NEW success \in BOOLEAN, Logins!Settle(a, success)
      PROVE  Logins!ReservationsHeld
  <2>1. Logins!TypeOK BY DEF Logins!IInv
  <2>2. PICK mine \in SUBSET Logins!Keys : mine = {k \in s3[a].keys : a \in s2[k].pending} BY <1>1
  <2>3. PICK place \in {"signedIn", "failed"} : place = IF success THEN "signedIn" ELSE "failed" OBVIOUS
  <2>4. PICK counted \in SUBSET Logins!Keys : counted = IF success THEN {} ELSE mine OBVIOUS
  <2>5. /\ s3' = [s3 EXCEPT ![a].at = place, ![a].time = s1, ![a].counted = counted]
        /\ s2' = [k \in Logins!Keys |-> IF k \in mine THEN Logins!Settled(a, success, k) ELSE s2[k]]
    BY <1>4, <2>2, <2>3, <2>4 DEF Logins!Settle, Logins!Save
  <2>6. s3'[a].at \in {"failed", "signedIn"}
    <3>1. s3'[a].at = place BY <2>1, <2>5, LoginsAttempt, Zenon
    <3> QED BY <3>1
  <2>7. ASSUME NEW k \in Logins!Keys PROVE s2[k].pending \ {a} \subseteq s2'[k].pending
    <3>1. Logins!Settled(a, success, k).pending = s2[k].pending \ {a} BY <2>1, LoginsSettledKey
    <3> QED BY <2>5, <3>1
  <2> QED BY <2>6, <2>7 DEF Logins!ReservationsHeld
<1>5. ASSUME NEW k \in Logins!Keys, Logins!Evict(k) PROVE Logins!ReservationsHeld
  <2>1. s4' > s4 BY <1>1, <1>5 DEF Logins!Evict
  <2> QED BY <2>1 DEF Logins!ReservationsHeld
<1> QED BY <1>2, <1>3, <1>4, <1>5 DEF Logins!Next, Logins!vars, Logins!Tick

-----------------------------------------------------------------------------
(* The sweep                                                               *)

SweepInv == running = "sweep" => Sweep!IInv

LEMMA SweepRuns ==
  ASSUME [Next]_all, running' = "sweep"
  PROVE  running = "sweep" /\ [Sweep!Next]_(Sweep!vars)
  BY DEF Next, MediaNext, Step, all, slots, Sweep!vars

(* There are five phases, the last of which takes jobs, and each has a name of its own. *)
LEMMA FivePhases ==
  /\ Len(Sweep!Phases) = 5 /\ Sweep!Phases[5] = "jobs"
  /\ \A i, n \in 1 .. 5 : Sweep!Phases[i] = Sweep!Phases[n] => i = n
  /\ Sweep!PhaseSet \ {"jobs"} = {Sweep!Phases[i] : i \in 1 .. 4}
<1>1. Len(Sweep!Phases) = 5
  BY DEF Sweep!Phases
<1>2. /\ Sweep!Phases[1] = "artifacts" /\ Sweep!Phases[2] = "pending" /\ Sweep!Phases[3] = "prefixes"
      /\ Sweep!Phases[4] = "staged" /\ Sweep!Phases[5] = "jobs"
  BY DEF Sweep!Phases
<1>3. \A i \in 1 .. 5 : i = 1 \/ i = 2 \/ i = 3 \/ i = 4 \/ i = 5
  OBVIOUS
<1>4. \A i, n \in 1 .. 5 : Sweep!Phases[i] = Sweep!Phases[n] => i = n
  BY <1>2, <1>3
<1>5. Sweep!PhaseSet = {Sweep!Phases[i] : i \in 1 .. 5}
  BY <1>1 DEF Sweep!PhaseSet
<1>6. \A p : p \in Sweep!PhaseSet \ {"jobs"} <=> p \in {Sweep!Phases[i] : i \in 1 .. 4}
  <2> SUFFICES ASSUME NEW p PROVE p \in Sweep!PhaseSet \ {"jobs"} <=> p \in {Sweep!Phases[i] : i \in 1 .. 4}
    OBVIOUS
  <2>1. ASSUME p \in Sweep!PhaseSet \ {"jobs"} PROVE p \in {Sweep!Phases[i] : i \in 1 .. 4}
    <3>1. PICK i \in 1 .. 5 : p = Sweep!Phases[i]
      BY <2>1, <1>5
    <3>2. i # 5
      BY <3>1, <2>1, <1>2
    <3>. QED  BY <3>1, <3>2
  <2>2. ASSUME p \in {Sweep!Phases[i] : i \in 1 .. 4} PROVE p \in Sweep!PhaseSet \ {"jobs"}
    <3>1. PICK i \in 1 .. 4 : p = Sweep!Phases[i]
      BY <2>2
    <3>2. p # "jobs"
      BY <3>1, <1>2, <1>4
    <3>. QED  BY <3>1, <3>2, <1>5
  <2>. QED  BY <2>1, <2>2
<1>. QED  BY <1>1, <1>2, <1>4, <1>6

(* Rows and jobs that are said are found in what is said. *)
LEMMA SaidAndRead ==
  ASSUME NEW rows, rows \subseteq SweptRows, NEW gone, gone \subseteq SweptJobs
  PROVE  /\ Sweep!RowsIn(Sweep!Said(rows, gone)) = rows
         /\ Sweep!JobsIn(Sweep!Said(rows, gone)) = gone
<1>1. \A k : <<"row", k>> \in Sweep!Said(rows, gone) <=> k \in rows
  BY DEF Sweep!Said
<1>2. \A j : <<"job", j>> \in Sweep!Said(rows, gone) <=> j \in gone
  BY DEF Sweep!Said
<1>. QED  BY <1>1, <1>2 DEF Sweep!RowsIn, Sweep!JobsIn

(* Nothing has been told when it starts. *)
LEMMA SweepInit ==
  ASSUME Sweep!Init PROVE Sweep!IInv
<1>1. 0 \in 0 .. Len(Sweep!Phases)
  BY FivePhases
<1>. QED  BY <1>1, FivePhases DEF Sweep!Init, Sweep!IInv, Sweep!BatchOfPhase

(* What a selection takes is of what it is taken from. *)
LEMMA SelectedOf ==
  ASSUME NEW S, NEW p
  PROVE  Sweep!Selected(S, p) \subseteq S
BY DEF Sweep!Selected, Sweep!Beyond

(* What a selection takes changes with the cursor only. *)
LEMMA SelectedStays ==
  ASSUME s4' = s4, NEW S, NEW p
  PROVE  Sweep!Selected(S, p)' = Sweep!Selected(S, p)
BY DEF Sweep!Selected, Sweep!Beyond

(* Before a run, everything that is told is ahead. *)
LEMMA DryRunTells ==
  ASSUME Sweep!IInv, Sweep!DryRun
  PROVE  Sweep!IInv'
<1>. DEFINE lost == UNION {Sweep!Taken(i) : i \in 1 .. 4}
            gone == Sweep!Selected(Sweep!Free(Sweep!Present \ lost), "jobs")
<1>1. s6 = 0 /\ s10' = TRUE /\ s9' = Sweep!DryRunResult
      /\ UNCHANGED <<s1, s2, s3, s4, s5, s6, s7, s8, s11, s12>>
  BY DEF Sweep!DryRun, Sweep!dueVars
<1>2. UNION {Sweep!Selected(Sweep!In(p, s1), p) \ RefusedRows : p \in Sweep!PhaseSet \ {"jobs"}} = lost
  BY FivePhases DEF Sweep!Taken
<1>3. Sweep!DryRunResult = Sweep!Said(lost, gone)
  BY <1>2 DEF Sweep!DryRunResult
<1>4. lost \subseteq SweptRows
  BY SelectedOf DEF Sweep!IInv, Sweep!Taken, Sweep!In
<1>5. gone \subseteq SweptJobs
  BY SelectedOf DEF Sweep!IInv, Sweep!Free
<1>6. Sweep!RowsIn(s9') = lost /\ Sweep!JobsIn(s9') = gone /\ s9' = Sweep!Said(lost, gone)
  BY <1>1, <1>3, <1>4, <1>5, SaidAndRead
<1>7. \A i : Sweep!Taken(i)' = Sweep!Taken(i)
  BY <1>1 DEF Sweep!Taken, Sweep!In, Sweep!Selected, Sweep!Beyond
<1>8. Sweep!RowsAhead' = lost
  <2>1. s6' = 0 /\ s6' \notin 1 .. 4 /\ {n \in 1 .. 4 : s6' < n} = 1 .. 4
    BY <1>1
  <2>2. Sweep!RowsAhead' = {} \cup UNION {Sweep!Taken(i)' : i \in 1 .. 4}
    BY <2>1 DEF Sweep!RowsAhead
  <2>. QED  BY <2>2, <1>7
<1>9. Sweep!RowsDone' = {}
  BY <1>1 DEF Sweep!RowsDone
<1>10. Sweep!RowsAsTold'
  BY <1>6, <1>8, <1>9 DEF Sweep!RowsAsTold, Sweep!RowsIn
<1>11. Sweep!JobsAsTold'
  <2>1. Sweep!RowsIn(s9)' = lost /\ Sweep!JobsIn(s9)' = gone
    BY <1>6 DEF Sweep!RowsIn, Sweep!JobsIn
  <2>2. Sweep!Free(Sweep!Present \ Sweep!RowsIn(s9))' = Sweep!Free(Sweep!Present \ lost)
    BY <2>1, <1>1 DEF Sweep!Free, Sweep!Present
  <2>3. Sweep!Selected(Sweep!Free(Sweep!Present \ Sweep!RowsIn(s9)), "jobs")' = gone
    BY <2>2, <1>1 DEF Sweep!Selected, Sweep!Beyond
  <2>4. s6' # 5
    BY <1>1
  <2>. QED  BY <2>1, <2>3, <2>4, FivePhases DEF Sweep!JobsAsTold
<1>. QED  BY <1>1, <1>6, <1>10, <1>11, FivePhases
          DEF Sweep!IInv, Sweep!BatchOfPhase, Sweep!RowsIn, Sweep!JobsIn, Sweep!Said

(* What a phase would take does not change if its rows that are due do not. *)
LEMMA TakenStays ==
  ASSUME s4' = s4, NEW i, Sweep!In(Sweep!Phases[i], s1)' = Sweep!In(Sweep!Phases[i], s1)
  PROVE  Sweep!Taken(i)' = Sweep!Taken(i)
BY DEF Sweep!Taken, Sweep!Selected, Sweep!Beyond

(* As a phase starts, what it takes comes from what was ahead to its batch. *)
LEMMA PhaseTakesItsRows ==
  ASSUME Sweep!IInv, NEW i \in 1 .. 4, Sweep!StartPhase(i), s1' = s1, s4' = s4,
         i = s6 + 1, s6 \in 1 .. 4 => s7 = {}
  PROVE  /\ Sweep!RowsAhead' = Sweep!RowsAhead
         /\ s7' \subseteq Sweep!In(Sweep!Phases[i], SweptRows)
<1>1. s6' = i /\ s6 \in 0 .. 3
  BY FivePhases DEF Sweep!StartPhase, Sweep!IInv
<1>2. s7' = Sweep!Selected(Sweep!In(Sweep!Phases[i], s1), Sweep!Phases[i])
  BY FivePhases DEF Sweep!StartPhase, Sweep!Query
<1>3. s7' \ RefusedRows = Sweep!Taken(i)
  BY <1>2 DEF Sweep!Taken
<1>4. \A n : Sweep!Taken(n)' = Sweep!Taken(n)
  BY TakenStays DEF Sweep!In
<1>5. {n \in 1 .. 4 : s6 < n} = {i} \cup {n \in 1 .. 4 : s6' < n}
  BY <1>1
<1>6. Sweep!RowsAhead = UNION {Sweep!Taken(n) : n \in {m \in 1 .. 4 : s6 < m}}
  BY <1>1 DEF Sweep!RowsAhead
<1>7. Sweep!RowsAhead' = Sweep!Taken(i) \cup UNION {Sweep!Taken(n) : n \in {m \in 1 .. 4 : s6' < m}}
  <2>1. Sweep!RowsAhead' = (s7' \ RefusedRows) \cup UNION {Sweep!Taken(n)' : n \in {m \in 1 .. 4 : s6' < m}}
    BY <1>1 DEF Sweep!RowsAhead
  <2>. QED  BY <2>1, <1>3, <1>4
<1>8. s7' \subseteq Sweep!In(Sweep!Phases[i], SweptRows)
  <2>1. Sweep!In(Sweep!Phases[i], s1) \subseteq Sweep!In(Sweep!Phases[i], SweptRows)
    BY DEF Sweep!IInv, Sweep!In
  <2>. QED  BY <2>1, <1>2, SelectedOf
<1>9. UNION {Sweep!Taken(n) : n \in {i} \cup {m \in 1 .. 4 : s6' < m}}
        = Sweep!Taken(i) \cup UNION {Sweep!Taken(n) : n \in {m \in 1 .. 4 : s6' < m}}
  OBVIOUS
<1>. QED  BY <1>5, <1>6, <1>7, <1>8, <1>9

(* What was said of jobs stays true until the phase of the jobs. *)
LEMMA ForecastStays ==
  ASSUME Sweep!JobsAsTold, s6 # 5, s6' # 5, s2' = s2, s4' = s4, s9' = s9,
         SweptRows \ (s11' \cup Sweep!RowsIn(s9)) = SweptRows \ (s11 \cup Sweep!RowsIn(s9))
  PROVE  Sweep!JobsAsTold'
<1>1. Sweep!RowsIn(s9)' = Sweep!RowsIn(s9) /\ Sweep!JobsIn(s9)' = Sweep!JobsIn(s9)
  BY DEF Sweep!RowsIn, Sweep!JobsIn
<1>2. (Sweep!Present \ Sweep!RowsIn(s9))' = Sweep!Present \ Sweep!RowsIn(s9)
  BY <1>1 DEF Sweep!Present
<1>3. Sweep!Free(Sweep!Present \ Sweep!RowsIn(s9))' = Sweep!Free(Sweep!Present \ Sweep!RowsIn(s9))
  BY <1>2 DEF Sweep!Free
<1>4. Sweep!Selected(Sweep!Free(Sweep!Present \ Sweep!RowsIn(s9)), "jobs")'
        = Sweep!Selected(Sweep!Free(Sweep!Present \ Sweep!RowsIn(s9)), "jobs")
  BY <1>3 DEF Sweep!Selected, Sweep!Beyond
<1>5. Sweep!JobsIn(s9) = Sweep!Selected(Sweep!Free(Sweep!Present \ Sweep!RowsIn(s9)), "jobs")
  BY FivePhases DEF Sweep!JobsAsTold
<1>. QED  BY <1>1, <1>4, <1>5, FivePhases DEF Sweep!JobsAsTold

(* A dry run says rows and jobs and nothing else, and what it said stays said. *)
LEMMA SaidStays ==
  ASSUME Sweep!IInv, s9' = s9, s10' = s10, s10
  PROVE  /\ s9' = Sweep!Said(Sweep!RowsIn(s9)', Sweep!JobsIn(s9)')
         /\ Sweep!RowsIn(s9)' = Sweep!RowsIn(s9) /\ Sweep!JobsIn(s9)' = Sweep!JobsIn(s9)
<1>1. Sweep!RowsIn(s9)' = Sweep!RowsIn(s9) /\ Sweep!JobsIn(s9)' = Sweep!JobsIn(s9)
  BY DEF Sweep!RowsIn, Sweep!JobsIn
<1>2. s9 = Sweep!Said(Sweep!RowsIn(s9), Sweep!JobsIn(s9))
  BY DEF Sweep!IInv
<1>. QED  BY <1>1, <1>2

(* A run starts: nothing is done, and everything is ahead still. *)
LEMMA StartRunInv ==
  ASSUME Sweep!IInv, Sweep!StartRun
  PROVE  Sweep!IInv'
<1>1. s6 = 0 /\ s8' = {} /\ UNCHANGED <<s1, s2, s3, s4, s9, s10, s11, s12>> /\ Sweep!StartPhase(1)
  BY DEF Sweep!StartRun, Sweep!dueVars, Sweep!tellVars
<1>2. Sweep!RowsAhead' = Sweep!RowsAhead /\ s7' \subseteq Sweep!In(Sweep!Phases[1], SweptRows) /\ s6' = 1
  BY <1>1, PhaseTakesItsRows DEF Sweep!StartPhase
<1>3. Sweep!RowsIn(s8)' = {} /\ Sweep!JobsIn(s8)' = {} /\ s8' = Sweep!Said({}, {})
  BY <1>1 DEF Sweep!RowsIn, Sweep!JobsIn, Sweep!Said
<1>4. Sweep!RowsDone' = {} /\ Sweep!RowsDone = {}
  BY <1>1, <1>2, <1>3 DEF Sweep!RowsDone
<1>5. ASSUME s10'
      PROVE  /\ s9' = Sweep!Said(Sweep!RowsIn(s9)', Sweep!JobsIn(s9)')
             /\ Sweep!RowsAsTold' /\ Sweep!JobsAsTold'
  <2>1. Sweep!RowsAsTold /\ Sweep!JobsAsTold
    BY <1>1, <1>5 DEF Sweep!IInv
  <2>2. Sweep!JobsAsTold'
    BY <2>1, <1>1, <1>2, ForecastStays
  <2>. QED  BY <2>1, <2>2, <1>1, <1>2, <1>4, <1>5, SaidStays DEF Sweep!RowsAsTold
<1>6. Sweep!BatchOfPhase'
  BY <1>2, FivePhases DEF Sweep!BatchOfPhase, Sweep!In
<1>7. s6' \in 0 .. Len(Sweep!Phases)
  BY <1>2, FivePhases
<1>8. s3' = {} /\ s1' \subseteq SweptRows /\ s2' \subseteq SweptJobs
  BY <1>1 DEF Sweep!IInv
<1>9. s8' = Sweep!Said(Sweep!RowsIn(s8)', Sweep!JobsIn(s8)')
  BY <1>3
<1>. QED  BY <1>3, <1>5, <1>6, <1>7, <1>8, <1>9 DEF Sweep!IInv, Sweep!Said

(* Between the first phase and the last, what has been deleted stays known. *)
LEMMA DeletedStays ==
  ASSUME Sweep!IInv, s8' = s8, s6 # 0, s6' # 0
  PROVE  /\ s8' = Sweep!Said(Sweep!RowsIn(s8)', Sweep!JobsIn(s8)')
         /\ Sweep!RowsIn(s8)' = Sweep!RowsIn(s8) /\ Sweep!JobsIn(s8)' = Sweep!JobsIn(s8)
         /\ Sweep!RowsDone' = Sweep!RowsDone
<1>1. Sweep!RowsIn(s8)' = Sweep!RowsIn(s8) /\ Sweep!JobsIn(s8)' = Sweep!JobsIn(s8)
  BY DEF Sweep!RowsIn, Sweep!JobsIn
<1>2. s8 = Sweep!Said(Sweep!RowsIn(s8), Sweep!JobsIn(s8))
  BY DEF Sweep!IInv
<1>. QED  BY <1>1, <1>2 DEF Sweep!RowsDone

(* The next table: what its phase takes is what was ahead of it. *)
LEMMA NextTableInv ==
  ASSUME Sweep!IInv, Sweep!NextPhase, s6 \in 1 .. 3
  PROVE  Sweep!IInv'
<1>1. s7 = {} /\ UNCHANGED <<s1, s2, s3, s4, s8, s9, s10, s11, s12>> /\ Sweep!StartPhase(s6 + 1)
  BY DEF Sweep!NextPhase, Sweep!dueVars, Sweep!tellVars
<1>2. PICK i \in 1 .. 4 : i = s6 + 1
  OBVIOUS
<1>3. s6' = i /\ Sweep!RowsAhead' = Sweep!RowsAhead /\ s7' \subseteq Sweep!In(Sweep!Phases[i], SweptRows)
  BY <1>1, <1>2, PhaseTakesItsRows DEF Sweep!StartPhase
<1>4. ASSUME s10'
      PROVE  /\ s9' = Sweep!Said(Sweep!RowsIn(s9)', Sweep!JobsIn(s9)')
             /\ Sweep!RowsAsTold' /\ Sweep!JobsAsTold'
  <2>1. Sweep!RowsAsTold /\ Sweep!JobsAsTold
    BY <1>1, <1>4 DEF Sweep!IInv
  <2>2. Sweep!JobsAsTold'
    BY <2>1, <1>1, <1>3, ForecastStays
  <2>. QED  BY <2>1, <2>2, <1>1, <1>3, <1>4, SaidStays, DeletedStays DEF Sweep!RowsAsTold
<1>5. Sweep!BatchOfPhase'
  BY <1>3, FivePhases DEF Sweep!BatchOfPhase, Sweep!In
<1>6. s6' \in 0 .. Len(Sweep!Phases) /\ s6' # 0
  BY <1>3, FivePhases
<1>7. s3' = {} /\ s1' \subseteq SweptRows /\ s2' \subseteq SweptJobs /\ Sweep!JobsIn(s8) = {}
  BY <1>1 DEF Sweep!IInv
<1>. QED  BY <1>1, <1>4, <1>5, <1>6, <1>7, DeletedStays DEF Sweep!IInv

(* The jobs: every row that was told is gone, and what is left of them is what the *)
(* dry run looked at.                                                              *)
LEMMA JobsPhaseInv ==
  ASSUME Sweep!IInv, Sweep!NextPhase, s6 = 4
  PROVE  Sweep!IInv'
<1>1. s7 = {} /\ UNCHANGED <<s1, s2, s3, s4, s8, s9, s10, s11, s12>> /\ Sweep!StartPhase(5)
  BY DEF Sweep!NextPhase, Sweep!dueVars, Sweep!tellVars
<1>2. s6' = 5 /\ s7' = Sweep!Selected(Sweep!Free(Sweep!Present), "jobs")
  BY <1>1, FivePhases DEF Sweep!StartPhase, Sweep!Query
<1>3. s7' \subseteq SweptJobs
  BY <1>2, SelectedOf DEF Sweep!IInv, Sweep!Free
<1>4. Sweep!RowsAhead = {} /\ Sweep!RowsAhead' = {}
  <2>1. {n \in 1 .. 4 : s6 < n} = {} /\ {n \in 1 .. 4 : s6' < n} = {} /\ s6' \notin 1 .. 4
    BY <1>2
  <2>2. s7 \ RefusedRows = {}
    BY <1>1
  <2>. QED  BY <2>1, <2>2 DEF Sweep!RowsAhead
<1>5. Sweep!JobsIn(s8) = {}
  BY DEF Sweep!IInv
<1>6. ASSUME s10'
      PROVE  /\ s9' = Sweep!Said(Sweep!RowsIn(s9)', Sweep!JobsIn(s9)')
             /\ Sweep!RowsAsTold' /\ Sweep!JobsAsTold'
  <2>1. Sweep!RowsAsTold /\ Sweep!JobsAsTold
    BY <1>1, <1>6 DEF Sweep!IInv
  <2>2. Sweep!RowsAsTold'
    BY <2>1, <1>1, <1>2, <1>4, <1>6, SaidStays, DeletedStays DEF Sweep!RowsAsTold
  <2>3. Sweep!Present \ Sweep!RowsIn(s9) = Sweep!Present
    BY <2>1, <1>4 DEF Sweep!RowsAsTold, Sweep!Present
  <2>4. Sweep!JobsIn(s9) = s7'
    BY <2>1, <2>3, <1>2, FivePhases DEF Sweep!JobsAsTold
  <2>5. Sweep!JobsAsTold'
    BY <2>4, <1>1, <1>2, <1>5, <1>6, SaidStays, DeletedStays, FivePhases DEF Sweep!JobsAsTold
  <2>. QED  BY <2>2, <2>5, <1>1, <1>6, SaidStays
<1>7. Sweep!BatchOfPhase'
  BY <1>2, <1>3, FivePhases DEF Sweep!BatchOfPhase
<1>8. s6' \in 0 .. Len(Sweep!Phases) /\ s6' # 0 /\ s6' \notin 1 .. 4
  BY <1>2, FivePhases
<1>9. s3' = {} /\ s1' \subseteq SweptRows /\ s2' \subseteq SweptJobs
  BY <1>1 DEF Sweep!IInv
<1>. QED  BY <1>1, <1>6, <1>7, <1>8, <1>9, DeletedStays DEF Sweep!IInv

(* A row that is deleted was ahead and is now done. *)
LEMMA DeleteRowInv ==
  ASSUME Sweep!IInv, NEW k, Sweep!DeleteRow(k)
  PROVE  Sweep!IInv'
<1>1. /\ s6 \in 1 .. 4 /\ k \in s7 /\ s7' = s7 \ {k} /\ k \notin RefusedRows
      /\ s1' = s1 \ {k} /\ s11' = s11 \cup {k} /\ s8' = s8 \cup {<<"row", k>>}
      /\ UNCHANGED <<s2, s3, s4, s6, s9, s10, s12>>
  BY FivePhases DEF Sweep!DeleteRow, Sweep!Trying, Sweep!tellVars
<1>2. k \in SweptRows /\ s7 \subseteq Sweep!In(Sweep!Phases[s6], SweptRows)
      /\ SweptTable[k] = Sweep!Phases[s6]
  BY <1>1 DEF Sweep!IInv, Sweep!BatchOfPhase, Sweep!In
<1>3. ASSUME NEW n \in 1 .. 4, s6 < n
      PROVE  Sweep!Taken(n)' = Sweep!Taken(n)
  <2>1. SweptTable[k] # Sweep!Phases[n]
    BY <1>1, <1>2, <1>3, FivePhases
  <2>2. Sweep!In(Sweep!Phases[n], s1)' = Sweep!In(Sweep!Phases[n], s1)
    BY <1>1, <2>1 DEF Sweep!In
  <2>. QED  BY <1>1, <2>2, TakenStays
<1>. DEFINE later == UNION {Sweep!Taken(n) : n \in {m \in 1 .. 4 : s6 < m}}
<1>4. Sweep!RowsAhead = (s7 \ RefusedRows) \cup later
  BY <1>1 DEF Sweep!RowsAhead
<1>5. Sweep!RowsAhead' = (s7' \ RefusedRows) \cup later
  <2>1. Sweep!RowsAhead' = (s7' \ RefusedRows) \cup UNION {Sweep!Taken(n)' : n \in {m \in 1 .. 4 : s6 < m}}
    BY <1>1 DEF Sweep!RowsAhead
  <2>. QED  BY <2>1, <1>3
<1>6. /\ Sweep!RowsIn(s8)' = Sweep!RowsIn(s8) \cup {k} /\ Sweep!JobsIn(s8)' = Sweep!JobsIn(s8)
  BY <1>1, <1>2 DEF Sweep!RowsIn, Sweep!JobsIn
<1>7. s8' = Sweep!Said(Sweep!RowsIn(s8)', Sweep!JobsIn(s8)')
  <2>1. s8 = Sweep!Said(Sweep!RowsIn(s8), Sweep!JobsIn(s8))
    BY <1>1 DEF Sweep!IInv
  <2>2. Sweep!Said(Sweep!RowsIn(s8) \cup {k}, Sweep!JobsIn(s8))
          = Sweep!Said(Sweep!RowsIn(s8), Sweep!JobsIn(s8)) \cup {<<"row", k>>}
    BY DEF Sweep!Said
  <2>. QED  BY <2>1, <2>2, <1>1, <1>6
<1>8. Sweep!RowsDone' = Sweep!RowsDone \cup {k}
  BY <1>1, <1>6 DEF Sweep!RowsDone
<1>9. ASSUME s10'
      PROVE  /\ s9' = Sweep!Said(Sweep!RowsIn(s9)', Sweep!JobsIn(s9)')
             /\ Sweep!RowsAsTold' /\ Sweep!JobsAsTold'
  <2>1. Sweep!RowsAsTold /\ Sweep!JobsAsTold
    BY <1>1, <1>9 DEF Sweep!IInv
  <2>2. Sweep!RowsDone' \cup Sweep!RowsAhead' = Sweep!RowsDone \cup Sweep!RowsAhead
    BY <1>1, <1>4, <1>5, <1>8
  <2>3. Sweep!RowsAsTold'
    BY <2>1, <2>2, <1>1, <1>8, <1>9, SaidStays DEF Sweep!RowsAsTold
  <2>4. k \in Sweep!RowsIn(s9)
    BY <2>1, <1>1, <1>4 DEF Sweep!RowsAsTold
  <2>5. Sweep!JobsAsTold'
    BY <2>1, <2>4, <1>1, ForecastStays
  <2>. QED  BY <2>3, <2>5, <1>1, <1>9, SaidStays
<1>10. Sweep!BatchOfPhase'
  BY <1>1, <1>2, FivePhases DEF Sweep!BatchOfPhase, Sweep!In
<1>11. s3' = {} /\ s1' \subseteq SweptRows /\ s2' \subseteq SweptJobs /\ s6' \in 0 .. Len(Sweep!Phases)
       /\ Sweep!JobsIn(s8)' = {}
  BY <1>1, <1>6 DEF Sweep!IInv
<1>. QED  BY <1>7, <1>9, <1>10, <1>11 DEF Sweep!IInv

(* A row that is refused was not ahead either. *)
LEMMA SkipRowInv ==
  ASSUME Sweep!IInv, NEW k, Sweep!SkipRow(k)
  PROVE  Sweep!IInv'
<1>1. /\ s6 \in 1 .. 4 /\ k \in s7 /\ s7' = s7 \ {k} /\ k \in RefusedRows
      /\ UNCHANGED <<s1, s2, s3, s4, s6, s8, s9, s10, s11, s12>>
  BY FivePhases DEF Sweep!SkipRow, Sweep!Trying, Sweep!tellVars, Sweep!dueVars, Sweep!IInv
<1>2. \A n : Sweep!Taken(n)' = Sweep!Taken(n)
  BY <1>1, TakenStays DEF Sweep!In
<1>3. s7' \ RefusedRows = s7 \ RefusedRows
  BY <1>1
<1>4. Sweep!RowsAhead' = Sweep!RowsAhead
  BY <1>1, <1>2, <1>3 DEF Sweep!RowsAhead
<1>5. ASSUME s10'
      PROVE  /\ s9' = Sweep!Said(Sweep!RowsIn(s9)', Sweep!JobsIn(s9)')
             /\ Sweep!RowsAsTold' /\ Sweep!JobsAsTold'
  <2>1. Sweep!RowsAsTold /\ Sweep!JobsAsTold
    BY <1>1, <1>5 DEF Sweep!IInv
  <2>2. Sweep!JobsAsTold'
    BY <2>1, <1>1, ForecastStays
  <2>. QED  BY <2>1, <2>2, <1>1, <1>4, <1>5, SaidStays, DeletedStays DEF Sweep!RowsAsTold
<1>6. Sweep!BatchOfPhase'
  BY <1>1, FivePhases DEF Sweep!IInv, Sweep!BatchOfPhase, Sweep!In
<1>7. s3' = {} /\ s1' \subseteq SweptRows /\ s2' \subseteq SweptJobs /\ s6' \in 0 .. Len(Sweep!Phases)
      /\ Sweep!JobsIn(s8) = {}
  BY <1>1 DEF Sweep!IInv
<1>. QED  BY <1>1, <1>5, <1>6, <1>7, DeletedStays DEF Sweep!IInv

(* A job that is deleted leaves the batch of the last phase. *)
LEMMA DeleteJobInv ==
  ASSUME Sweep!IInv, NEW j, Sweep!DeleteJob(j)
  PROVE  Sweep!IInv'
<1>1. /\ s6 = 5 /\ j \in s7 /\ s7' = s7 \ {j} /\ s2' = s2 \ {j} /\ s8' = s8 \cup {<<"job", j>>}
      /\ UNCHANGED <<s1, s3, s4, s6, s9, s10, s11, s12>>
  BY FivePhases DEF Sweep!DeleteJob, Sweep!Trying, Sweep!tellVars
<1>2. j \in SweptJobs /\ s7 \subseteq SweptJobs
  BY <1>1, FivePhases DEF Sweep!IInv, Sweep!BatchOfPhase
<1>3. Sweep!RowsIn(s8)' = Sweep!RowsIn(s8) /\ Sweep!JobsIn(s8)' = Sweep!JobsIn(s8) \cup {j}
  BY <1>1, <1>2 DEF Sweep!RowsIn, Sweep!JobsIn
<1>4. s8' = Sweep!Said(Sweep!RowsIn(s8)', Sweep!JobsIn(s8)')
  <2>1. s8 = Sweep!Said(Sweep!RowsIn(s8), Sweep!JobsIn(s8))
    BY <1>1 DEF Sweep!IInv
  <2>2. Sweep!Said(Sweep!RowsIn(s8), Sweep!JobsIn(s8) \cup {j})
          = Sweep!Said(Sweep!RowsIn(s8), Sweep!JobsIn(s8)) \cup {<<"job", j>>}
    BY DEF Sweep!Said
  <2>. QED  BY <2>1, <2>2, <1>1, <1>3
<1>5. Sweep!RowsDone' = Sweep!RowsDone
  BY <1>1, <1>3 DEF Sweep!RowsDone
<1>6. Sweep!RowsAhead = {} /\ Sweep!RowsAhead' = {}
  <2>1. {n \in 1 .. 4 : s6 < n} = {} /\ {n \in 1 .. 4 : s6' < n} = {} /\ s6 \notin 1 .. 4 /\ s6' \notin 1 .. 4
    BY <1>1
  <2>. QED  BY <2>1 DEF Sweep!RowsAhead
<1>7. ASSUME s10'
      PROVE  /\ s9' = Sweep!Said(Sweep!RowsIn(s9)', Sweep!JobsIn(s9)')
             /\ Sweep!RowsAsTold' /\ Sweep!JobsAsTold'
  <2>1. Sweep!RowsAsTold /\ Sweep!JobsAsTold
    BY <1>1, <1>7 DEF Sweep!IInv
  <2>2. Sweep!RowsAsTold'
    BY <2>1, <1>1, <1>5, <1>6, <1>7, SaidStays DEF Sweep!RowsAsTold
  <2>3. Sweep!JobsIn(s8)' \cup s7' = Sweep!JobsIn(s8) \cup s7
    BY <1>1, <1>3
  <2>4. Sweep!JobsAsTold'
    BY <2>1, <2>3, <1>1, <1>7, SaidStays, FivePhases DEF Sweep!JobsAsTold
  <2>. QED  BY <2>2, <2>4, <1>1, <1>7, SaidStays
<1>8. Sweep!BatchOfPhase'
  BY <1>1, <1>2, FivePhases DEF Sweep!BatchOfPhase
<1>9. s3' = {} /\ s1' \subseteq SweptRows /\ s2' \subseteq SweptJobs /\ s6' \in 0 .. Len(Sweep!Phases)
      /\ s6' \notin 1 .. 4
  BY <1>1 DEF Sweep!IInv
<1>. QED  BY <1>4, <1>7, <1>8, <1>9 DEF Sweep!IInv

(* What happens outside a run, or ends it, makes what was told void. *)
LEMMA VoidInv ==
  ASSUME Sweep!IInv, Sweep!EndRun \/ Sweep!KillRun \/ \E k \in SweptRows : Sweep!Expire(k)
  PROVE  Sweep!IInv'
<1>1. s10' = FALSE /\ s3' = s3 /\ s2' = s2 /\ s8' = s8 /\ s1' \subseteq SweptRows
  BY DEF Sweep!IInv, Sweep!EndRun, Sweep!KillRun, Sweep!Expire, Sweep!dueVars
<1>2. (s6' = 0) \/ (s6' = s6 /\ s7' = s7)
  BY DEF Sweep!EndRun, Sweep!KillRun, Sweep!Expire
<1>3. Sweep!BatchOfPhase' /\ s6' \in 0 .. Len(Sweep!Phases)
  BY <1>2, FivePhases DEF Sweep!IInv, Sweep!BatchOfPhase, Sweep!In
<1>4. ~ s10'
  BY <1>1
<1>5. s6' # 0 => /\ s8' = Sweep!Said(Sweep!RowsIn(s8)', Sweep!JobsIn(s8)')
                 /\ Sweep!JobsIn(s8)' = Sweep!JobsIn(s8) /\ s6' = s6
  BY <1>1, <1>2, DeletedStays
<1>6. s6' \in 1 .. 4 => Sweep!JobsIn(s8)' = {}
  BY <1>5 DEF Sweep!IInv
<1>7. s3' = {} /\ s2' \subseteq SweptJobs
  BY <1>1 DEF Sweep!IInv
<1>. QED  BY <1>1, <1>3, <1>4, <1>5, <1>6, <1>7 DEF Sweep!IInv

(* Nothing happens. *)
LEMMA SweepStutters ==
  ASSUME Sweep!IInv, UNCHANGED Sweep!vars
  PROVE  Sweep!IInv'
<1>1. UNCHANGED <<s1, s2, s3, s4, s5, s6, s7, s8, s9, s10, s11, s12>>
  BY DEF Sweep!vars
<1>2. \A n : Sweep!Taken(n)' = Sweep!Taken(n)
  BY <1>1, TakenStays DEF Sweep!In
<1>3. Sweep!RowsAhead' = Sweep!RowsAhead
  BY <1>1, <1>2 DEF Sweep!RowsAhead
<1>4. Sweep!RowsIn(s8)' = Sweep!RowsIn(s8) /\ Sweep!JobsIn(s8)' = Sweep!JobsIn(s8)
      /\ Sweep!RowsDone' = Sweep!RowsDone
  BY <1>1 DEF Sweep!RowsIn, Sweep!JobsIn, Sweep!RowsDone
<1>5. ASSUME s10'
      PROVE  /\ s9' = Sweep!Said(Sweep!RowsIn(s9)', Sweep!JobsIn(s9)')
             /\ Sweep!RowsAsTold' /\ Sweep!JobsAsTold'
  <2>1. Sweep!RowsAsTold /\ Sweep!JobsAsTold
    BY <1>1, <1>5 DEF Sweep!IInv
  <2>2. ASSUME s6 = 5 PROVE Sweep!JobsAsTold'
    BY <2>1, <2>2, <1>1, <1>4, <1>5, SaidStays, FivePhases DEF Sweep!JobsAsTold
  <2>3. ASSUME s6 # 5 PROVE Sweep!JobsAsTold'
    BY <2>1, <2>3, <1>1, ForecastStays
  <2>4. Sweep!JobsAsTold'
    BY <2>2, <2>3
  <2>. QED  BY <2>1, <2>4, <1>1, <1>3, <1>4, <1>5, SaidStays DEF Sweep!RowsAsTold
<1>6. Sweep!BatchOfPhase'
  BY <1>1 DEF Sweep!IInv, Sweep!BatchOfPhase, Sweep!In
<1>7. s6' # 0 => s8' = Sweep!Said(Sweep!RowsIn(s8)', Sweep!JobsIn(s8)')
  BY <1>1, DeletedStays
<1>. QED  BY <1>1, <1>4, <1>5, <1>6, <1>7 DEF Sweep!IInv

LEMMA SweepNext ==
  ASSUME Sweep!IInv, [Sweep!Next]_(Sweep!vars)
  PROVE  Sweep!IInv'
<1>1. CASE Sweep!DryRun
  BY <1>1, DryRunTells
<1>2. CASE Sweep!StartRun
  BY <1>2, StartRunInv
<1>3. CASE Sweep!NextPhase
  <2>1. s6 \in 1 .. 3 \/ s6 = 4
    BY <1>3, FivePhases DEF Sweep!NextPhase
  <2>. QED  BY <1>3, <2>1, NextTableInv, JobsPhaseInv
<1>4. CASE \E k \in SweptRows : Sweep!DeleteRow(k) \/ Sweep!SkipRow(k)
  BY <1>4, DeleteRowInv, SkipRowInv
<1>5. CASE \E j \in SweptJobs : Sweep!DeleteJob(j)
  BY <1>5, DeleteJobInv
<1>6. CASE Sweep!EndRun \/ Sweep!KillRun \/ \E k \in SweptRows : Sweep!Expire(k)
  BY <1>6, VoidInv
<1>7. ASSUME NEW k, Sweep!Repair(k) PROVE FALSE
  BY <1>7 DEF Sweep!Repair, Sweep!IInv
<1>8. CASE UNCHANGED Sweep!vars
  BY <1>8, SweepStutters
<1>. QED  BY <1>1, <1>2, <1>3, <1>4, <1>5, <1>6, <1>7, <1>8 DEF Sweep!Next, Sweep!Run

-----------------------------------------------------------------------------
(* The filesystem store *)

LEMMA StoreRuns ==
  ASSUME [Next]_all, running' \in {"reads", "power"}
  PROVE  /\ running' = running
         /\ running' = "reads" => [Store(Reads)!Next]_(Store(Reads)!vars)
         /\ running' = "power" => [Store(Power)!Next]_(Store(Power)!vars)
  BY DEF Next, MediaNext, Step, all, slots, Store!vars, Store!disk, Store!readers

LEMMA StoreStart ==
  ASSUME Init
  PROVE  /\ running = "reads" => Store(Reads)!Init
         /\ running = "power" => Store(Power)!Init
  BY DEF Init, MediaInit, Launch

LEMMA StoreInitOK ==
  ASSUME NEW use, Store(use)!StoreAssumption, Store(use)!Init
  PROVE  Store(use)!StoreInv
<1>1. Store(use)!TypesOK /\ Store(use)!GotOK
  BY DEF Store!Init, Store!TypesOK, Store!GotOK, Store!Half
<1>2. Store(use)!Written /\ Store(use)!OnDisk /\ Store(use)!NamesOnDisk /\ Store(use)!ReadersOnDisk
  BY DEF Store!StoreAssumption, Store!Init, Store!Written, Store!OnDisk, Store!NamesOnDisk,
     Store!ReadersOnDisk
<1>. QED  BY <1>1, <1>2 DEF Store!StoreInv

(* A write goes on: neither names nor readers notice. *)
LEMMA StoreWriterStep ==
  ASSUME NEW use, Store(use)!StoreAssumption, Store(use)!StoreInv, NEW w \in use.writers,
         \/ Store(use)!Open(w) \/ Store(use)!WriteHalf(w) \/ Store(use)!WriteRest(w) \/ Store(use)!Sync(w)
         \/ Store(use)!Fail(w) \/ Store(use)!TidyUp(w) \/ Store(use)!Kill(w)
  PROVE  Store(use)!StoreInv'
<1>0. Store(use)!TypesOK /\ Store(use)!GotOK /\ Store(use)!Written /\ Store(use)!OnDisk
      /\ Store(use)!NamesOnDisk /\ Store(use)!ReadersOnDisk
  BY DEF Store!StoreInv
<1>1. CASE Store(use)!Open(w) \/ Store(use)!Fail(w) \/ Store(use)!TidyUp(w) \/ Store(use)!Kill(w)
  <2>1. /\ UNCHANGED <<s1, s3, s4, Store(use)!disk, Store(use)!readers>>
        /\ s7[w] \in {"idle", "opened", "half", "full", "synced", "failing"}
        /\ \E to \in {"opened", "failing", "failed", "dead"} :
             /\ s7' = [s7 EXCEPT ![w] = to]
             /\ to = "opened" => s7[w] = "idle"
    BY <1>0, <1>1 DEF Store!Open, Store!Fail, Store!TidyUp, Store!Kill, Store!Goes, Store!TypesOK
  <2>2. Store(use)!TypesOK' /\ Store(use)!GotOK' /\ Store(use)!NamesOnDisk'
        /\ Store(use)!ReadersOnDisk'
    BY <1>0, <2>1 DEF Store!TypesOK, Store!GotOK, Store!NamesOnDisk, Store!ReadersOnDisk,
       Store!disk, Store!readers
  <2>3. Store(use)!Written' /\ Store(use)!OnDisk'
    BY <1>0, <2>1 DEF Store!TypesOK, Store!Written, Store!OnDisk, Store!Whole
  <2>. QED  BY <2>2, <2>3 DEF Store!StoreInv
<1>2. CASE Store(use)!WriteHalf(w)
  <2>1. /\ UNCHANGED <<s1, s4, Store(use)!disk, Store(use)!readers>>
        /\ s7[w] = "opened" /\ s7' = [s7 EXCEPT ![w] = "half"]
        /\ s3' = [s3 EXCEPT ![w][1] = w]
    BY <1>2 DEF Store!WriteHalf, Store!Goes
  <2>2. s3' \in [use.writers -> Store(use)!Half \X Store(use)!Half] /\ s3'[w][1] = w
        /\ \A v \in use.writers \ {w} : s3'[v] = s3[v]
    BY <1>0, <2>1 DEF Store!TypesOK, Store!Half
  <2>3. Store(use)!TypesOK' /\ Store(use)!GotOK' /\ Store(use)!NamesOnDisk'
        /\ Store(use)!ReadersOnDisk'
    BY <1>0, <2>1, <2>2 DEF Store!TypesOK, Store!GotOK, Store!NamesOnDisk, Store!ReadersOnDisk,
       Store!disk, Store!readers
  <2>4. w \notin s4
    BY <1>0, <2>1 DEF Store!OnDisk
  <2>5. Store(use)!Written' /\ Store(use)!OnDisk'
    BY <1>0, <2>1, <2>2, <2>4 DEF Store!TypesOK, Store!Written, Store!OnDisk, Store!Whole
  <2>. QED  BY <2>3, <2>5 DEF Store!StoreInv
<1>3. CASE Store(use)!WriteRest(w)
  <2>1. /\ UNCHANGED <<s1, s4, Store(use)!disk, Store(use)!readers>>
        /\ s7[w] = "half" /\ s7' = [s7 EXCEPT ![w] = "full"]
        /\ s3' = [s3 EXCEPT ![w][2] = w]
    BY <1>3 DEF Store!WriteRest, Store!Goes
  <2>2. s3' \in [use.writers -> Store(use)!Half \X Store(use)!Half] /\ s3'[w] = <<w, w>>
        /\ \A v \in use.writers \ {w} : s3'[v] = s3[v]
    BY <1>0, <2>1 DEF Store!TypesOK, Store!Half, Store!Written
  <2>3. Store(use)!TypesOK' /\ Store(use)!GotOK' /\ Store(use)!NamesOnDisk'
        /\ Store(use)!ReadersOnDisk'
    BY <1>0, <2>1, <2>2 DEF Store!TypesOK, Store!GotOK, Store!NamesOnDisk, Store!ReadersOnDisk,
       Store!disk, Store!readers
  <2>4. w \notin s4
    BY <1>0, <2>1 DEF Store!OnDisk
  <2>5. Store(use)!Written' /\ Store(use)!OnDisk'
    BY <1>0, <2>1, <2>2, <2>4 DEF Store!TypesOK, Store!Written, Store!OnDisk, Store!Whole
  <2>. QED  BY <2>3, <2>5 DEF Store!StoreInv
<1>4. CASE Store(use)!Sync(w)
  <2>1. /\ UNCHANGED <<s1, s3, Store(use)!disk, Store(use)!readers>>
        /\ s7[w] = "full" /\ s7' = [s7 EXCEPT ![w] = "synced"]
        /\ s4' = s4 \cup {w}
    BY <1>4 DEF Store!Sync, Store!Goes
  <2>2. Store(use)!TypesOK' /\ Store(use)!GotOK' /\ Store(use)!NamesOnDisk'
        /\ Store(use)!ReadersOnDisk'
    BY <1>0, <2>1 DEF Store!TypesOK, Store!GotOK, Store!NamesOnDisk, Store!ReadersOnDisk,
       Store!disk, Store!readers
  <2>3. Store(use)!Written' /\ Store(use)!OnDisk'
    BY <1>0, <2>1 DEF Store!TypesOK, Store!Written, Store!OnDisk, Store!Whole
  <2>. QED  BY <2>2, <2>3 DEF Store!StoreInv
<1>. QED  BY <1>1, <1>2, <1>3, <1>4

(* Names are given, taken away and obstructed; the directory is written back. *)
LEMMA StoreNameStep ==
  ASSUME NEW use, Store(use)!StoreAssumption, Store(use)!StoreInv,
         \/ \E w \in use.writers : Store(use)!Replace(w)
         \/ \E k \in use.keys : Store(use)!Delete(k) \/ Store(use)!Obstruct(k)
         \/ Store(use)!WriteBack
  PROVE  Store(use)!StoreInv'
<1>0. Store(use)!TypesOK /\ Store(use)!GotOK /\ Store(use)!Written /\ Store(use)!OnDisk
      /\ Store(use)!NamesOnDisk /\ Store(use)!ReadersOnDisk
  BY DEF Store!StoreInv
<1>1. ASSUME NEW w \in use.writers, Store(use)!Replace(w) PROVE Store(use)!StoreInv'
  <2>1. UNCHANGED <<s3, s4, Store(use)!disk, Store(use)!readers>> /\ s7[w] = "synced" /\ w \in s4
    BY <1>0, <1>1 DEF Store!Replace, Store!Goes, Store!Written
  <2>2. \/ s7' = [s7 EXCEPT ![w] = "failing"] /\ s1' = s1
        \/ s7' = [s7 EXCEPT ![w] = "done"] /\ s1' = [s1 EXCEPT ![use.keyOf[w]] = w]
    BY <1>1 DEF Store!Replace, Store!Goes
  <2>3. use.keyOf[w] \in use.keys
    BY DEF Store!StoreAssumption
  <2>4. Store(use)!TypesOK' /\ Store(use)!GotOK' /\ Store(use)!ReadersOnDisk'
    <3>1. s1' \in [use.keys -> use.writers \cup {Nothing, Alias}]
      BY <1>0, <2>2, <2>3 DEF Store!TypesOK
    <3>2. s7' \in [use.writers -> {"idle", "opened", "half", "full", "synced", "failing", "done", "failed", "dead"}]
      BY <1>0, <2>2 DEF Store!TypesOK
    <3>3. UNCHANGED <<s5, s4, s3, s8, s9, s10>>
      BY <2>1 DEF Store!disk, Store!readers
    <3>4. Store(use)!TypesOK'
      BY <1>0, <3>1, <3>2, <3>3 DEF Store!TypesOK
    <3>. QED  BY <1>0, <3>3, <3>4 DEF Store!GotOK, Store!ReadersOnDisk
  <2>5. Store(use)!NamesOnDisk'
    <3>1. \A k \in use.keys : s1'[k] = s1[k] \/ (k = use.keyOf[w] /\ s1'[k] = w)
      BY <1>0, <2>2, <2>3 DEF Store!TypesOK
    <3>2. s5' = s5 /\ s4' = s4
      BY <2>1 DEF Store!disk
    <3>. QED  BY <1>0, <2>1, <3>1, <3>2 DEF Store!NamesOnDisk
  <2>6. Store(use)!Written' /\ Store(use)!OnDisk'
    BY <1>0, <2>1, <2>2 DEF Store!TypesOK, Store!Written, Store!OnDisk, Store!Whole
  <2>. QED  BY <2>4, <2>5, <2>6 DEF Store!StoreInv
<1>2. ASSUME NEW k \in use.keys, Store(use)!Delete(k) \/ Store(use)!Obstruct(k)
      PROVE  Store(use)!StoreInv'
  <2>1. /\ UNCHANGED <<s3, s4, Store(use)!disk, s7, Store(use)!readers>>
        /\ \E new \in {Nothing, Alias} : s1' = [s1 EXCEPT ![k] = new]
    BY <1>2 DEF Store!Delete, Store!Obstruct
  <2>2. Nothing \notin use.writers /\ Alias \notin use.writers
    BY DEF Store!StoreAssumption
  <2>3. Store(use)!TypesOK' /\ Store(use)!GotOK' /\ Store(use)!ReadersOnDisk'
        /\ Store(use)!Written' /\ Store(use)!OnDisk'
    BY <1>0, <2>1 DEF Store!TypesOK, Store!GotOK, Store!ReadersOnDisk, Store!Written,
       Store!OnDisk, Store!Whole, Store!disk, Store!readers
  <2>4. Store(use)!NamesOnDisk'
    BY <1>0, <2>1, <2>2 DEF Store!TypesOK, Store!NamesOnDisk, Store!disk
  <2>. QED  BY <2>3, <2>4 DEF Store!StoreInv
<1>3. CASE Store(use)!WriteBack
  <2>1. UNCHANGED <<s1, s3, s4, s7, Store(use)!readers>> /\ s5' = s1
    BY <1>3 DEF Store!WriteBack
  <2>2. Store(use)!TypesOK' /\ Store(use)!GotOK' /\ Store(use)!ReadersOnDisk'
        /\ Store(use)!Written' /\ Store(use)!OnDisk'
    BY <1>0, <2>1 DEF Store!TypesOK, Store!GotOK, Store!ReadersOnDisk, Store!Written,
       Store!OnDisk, Store!Whole, Store!readers
  <2>3. Store(use)!NamesOnDisk'
    BY <1>0, <2>1 DEF Store!NamesOnDisk
  <2>. QED  BY <2>2, <2>3 DEF Store!StoreInv
<1>. QED  BY <1>1, <1>2, <1>3

LEMMA AppendToOne ==
  ASSUME NEW S, NEW a \in S
  PROVE  Append(<<a>>, a) = <<a, a>>
<1>. DEFINE s == <<a>>
            t == Append(s, a)
            u == <<a, a>>
<1>1. s \in Seq(S) /\ Len(s) = 1 /\ s[1] = a
  OBVIOUS
<1>2. u \in Seq(S) /\ Len(u) = 2 /\ u[1] = a /\ u[2] = a
  OBVIOUS
<1>3. t \in Seq(S) /\ Len(t) = 2
  BY <1>1
<1>4. t[1] = a /\ t[2] = a
  BY <1>1
<1>. HIDE DEF t, u
<1>5. \A i \in 1 .. 2 : t[i] = u[i]
  BY <1>2, <1>4
<1>. QED  BY <1>2, <1>3, <1>5, SeqEqual DEF s, t, u

(* A file that was opened keeps its data, whatever becomes of its name. *)
LEMMA StoreReaderStep ==
  ASSUME NEW use, Store(use)!StoreAssumption, Store(use)!StoreInv, NEW r \in use.readers,
         Store(use)!OpenReader(r) \/ Store(use)!ReadHalf(r) \/ Store(use)!ReadRest(r)
  PROVE  Store(use)!StoreInv'
<1>0. Store(use)!TypesOK /\ Store(use)!GotOK /\ Store(use)!Written /\ Store(use)!OnDisk
      /\ Store(use)!NamesOnDisk /\ Store(use)!ReadersOnDisk
  BY DEF Store!StoreInv
<1>1. UNCHANGED <<s1, s3, s4, Store(use)!disk, s7>>
  BY DEF Store!OpenReader, Store!ReadHalf, Store!ReadRest
<1>2. Store(use)!Written' /\ Store(use)!OnDisk' /\ Store(use)!NamesOnDisk'
  BY <1>0, <1>1 DEF Store!Written, Store!OnDisk, Store!NamesOnDisk, Store!Whole, Store!disk
<1>3. use.keyOf[r] \in use.keys
  BY DEF Store!StoreAssumption
<1>4. CASE Store(use)!OpenReader(r)
  <2>1. /\ s10' = s10
        /\ \/ /\ s1[use.keyOf[r]] \in use.writers
              /\ s8' = [s8 EXCEPT ![r] = "opened"]
              /\ s9' = [s9 EXCEPT ![r] = s1[use.keyOf[r]]]
           \/ s8' = [s8 EXCEPT ![r] = "missed"] /\ s9' = s9
    BY <1>4 DEF Store!OpenReader
  <2>2. Store(use)!TypesOK' /\ Store(use)!GotOK'
    BY <1>0, <1>1, <2>1 DEF Store!TypesOK, Store!GotOK, Store!Half, Store!disk
  <2>3. Store(use)!ReadersOnDisk'
    BY <1>0, <1>1, <1>3, <2>1 DEF Store!TypesOK, Store!ReadersOnDisk, Store!NamesOnDisk
  <2>. QED  BY <1>2, <2>2, <2>3 DEF Store!StoreInv
<1>5. CASE Store(use)!ReadHalf(r) \/ Store(use)!ReadRest(r)
  <2>1. /\ s9' = s9 /\ s9[r] \in s4 /\ s3[s9[r]] = <<s9[r], s9[r]>> /\ s9[r] \in Store(use)!Half
    BY <1>0, <1>5 DEF Store!ReadHalf, Store!ReadRest, Store!ReadersOnDisk, Store!OnDisk,
       Store!Whole, Store!TypesOK, Store!Half
  <2>2. \/ s8' = [s8 EXCEPT ![r] = "half"] /\ s10' = [s10 EXCEPT ![r] = <<s9[r]>>]
        \/ s8' = [s8 EXCEPT ![r] = "done"] /\ s10' = [s10 EXCEPT ![r] = <<s9[r], s9[r]>>]
    <3>1. CASE Store(use)!ReadHalf(r)
      BY <2>1, <3>1 DEF Store!ReadHalf
    <3>2. CASE Store(use)!ReadRest(r)
      <4>1. s10[r] = <<s9[r]>>
        BY <1>0, <3>2 DEF Store!ReadRest, Store!ReadersOnDisk
      <4>2. Append(s10[r], s3[s9[r]][2]) = <<s9[r], s9[r]>>
        <5>1. s3[s9[r]][2] = s9[r]
          BY <2>1
        <5>. QED  BY <2>1, <4>1, <5>1, AppendToOne
      <4>3. s10' = [s10 EXCEPT ![r] = Append(s10[r], s3[s9[r]][2])]
            /\ s8' = [s8 EXCEPT ![r] = "done"]
        BY <3>2 DEF Store!ReadRest
      <4>. QED  BY <4>2, <4>3
    <3>. QED  BY <1>5, <3>1, <3>2
  <2>3. s8[r] \in {"opened", "half"}
    BY <1>5 DEF Store!ReadHalf, Store!ReadRest
  <2>4. Store(use)!TypesOK' /\ Store(use)!GotOK'
    <3>1. <<s9[r]>> \in Seq(Store(use)!Half) /\ <<s9[r], s9[r]>> \in Seq(Store(use)!Half)
      BY <2>1
    <3>2. Store(use)!GotOK'
      BY <1>0, <2>2, <3>1 DEF Store!GotOK
    <3>3. Store(use)!TypesOK'
      BY <1>0, <1>1, <2>1, <2>2 DEF Store!TypesOK, Store!disk
    <3>. QED  BY <3>2, <3>3
  <2>5. Store(use)!ReadersOnDisk'
    <3>1. \A q \in use.readers \ {r} : s8'[q] = s8[q] /\ s10'[q] = s10[q]
      BY <1>0, <2>2 DEF Store!TypesOK, Store!GotOK
    <3>2. \/ s8'[r] = "half" /\ s10'[r] = <<s9[r]>>
          \/ s8'[r] = "done" /\ s10'[r] = <<s9[r], s9[r]>>
      BY <1>0, <2>2 DEF Store!TypesOK, Store!GotOK
    <3>3. use.keyOf[s9[r]] = use.keyOf[r]
      BY <1>0, <2>3 DEF Store!ReadersOnDisk
    <3>4. s9' = s9 /\ s4' = s4
      BY <1>1, <2>1
    <3>. QED  BY <1>0, <2>1, <3>1, <3>2, <3>3, <3>4 DEF Store!ReadersOnDisk
  <2>. QED  BY <1>2, <2>4, <2>5 DEF Store!StoreInv
<1>. QED  BY <1>4, <1>5

(* The power goes: what is left was synchronised before it got its name. *)
LEMMA StorePowerStep ==
  ASSUME NEW use, Store(use)!StoreAssumption, Store(use)!StoreInv, Store(use)!PowerLoss
  PROVE  Store(use)!StoreInv'
<1>0. Store(use)!TypesOK /\ Store(use)!GotOK /\ Store(use)!Written /\ Store(use)!OnDisk
      /\ Store(use)!NamesOnDisk /\ Store(use)!ReadersOnDisk
  BY DEF Store!StoreInv
<1>1. /\ s1' = s5 /\ UNCHANGED <<s4, Store(use)!disk, s9, s10>>
      /\ s3' = [w \in use.writers |-> IF w \in s4 THEN s3[w] ELSE <<Nothing, Nothing>>]
      /\ s7' = [w \in use.writers |-> IF s7[w] \in {"idle", "done", "failed"} THEN s7[w] ELSE "dead"]
      /\ s8' = [r \in use.readers |-> IF s8[r] \in {"opened", "half"} THEN "dead" ELSE s8[r]]
  BY DEF Store!PowerLoss
<1>2. Store(use)!TypesOK' /\ Store(use)!GotOK'
  BY <1>0, <1>1 DEF Store!TypesOK, Store!GotOK, Store!Half, Store!disk
<1>3. Store(use)!Written' /\ Store(use)!OnDisk'
  BY <1>0, <1>1 DEF Store!TypesOK, Store!Written, Store!OnDisk, Store!Whole
<1>4. Store(use)!NamesOnDisk' /\ Store(use)!ReadersOnDisk'
  BY <1>0, <1>1 DEF Store!TypesOK, Store!NamesOnDisk, Store!ReadersOnDisk, Store!disk
<1>. QED  BY <1>2, <1>3, <1>4 DEF Store!StoreInv

LEMMA StoreNextOK ==
  ASSUME NEW use, Store(use)!StoreAssumption
  PROVE  Store(use)!StoreInv /\ [Store(use)!Next]_(Store(use)!vars) => Store(use)!StoreInv'
<1> SUFFICES ASSUME Store(use)!StoreInv,
[Store(use)!Next]_(Store(use)!vars) PROVE Store(use)!StoreInv'
  OBVIOUS
<1>1. CASE UNCHANGED Store(use)!vars
  BY <1>1 DEF Store!vars, Store!disk, Store!readers, Store!StoreInv, Store!TypesOK, Store!GotOK,
     Store!Written, Store!OnDisk, Store!Whole,
              Store!NamesOnDisk, Store!ReadersOnDisk
<1>. QED  BY <1>1, StoreWriterStep, StoreNameStep, StoreReaderStep, StorePowerStep DEF Store!Next

(* What the invariant says of names and of readers. *)
LEMMA StoreInvariantsSay ==
  ASSUME NEW use, Store(use)!StoreInv
  PROVE  Store(use)!NoTornObject /\ Store(use)!ReadsOneVersion
BY DEF Store!StoreInv, Store!TypesOK, Store!NamesOnDisk, Store!OnDisk, Store!Whole,
   Store!ReadersOnDisk, Store!NoTornObject, Store!ReadsOneVersion

LEMMA StoreInitTidy ==
  ASSUME NEW use, Store(use)!StoreAssumption, Store(use)!Init
  PROVE  Store(use)!Tidy
BY DEF Store!StoreAssumption, Store!Init, Store!Tidy, Store!NoTempLeft

LEMMA StoreNextTidy ==
  ASSUME NEW use, Store(use)!StoreAssumption, Store(use)!StoreInv, Store(use)!Tidy,
         [Store(use)!Next]_(Store(use)!vars)
  PROVE  Store(use)!Tidy'
<1>0. s7 \in [use.writers -> {"idle", "opened", "half", "full", "synced", "failing", "done", "failed", "dead"}]
  BY DEF Store!StoreInv, Store!TypesOK
<1>1. ASSUME NEW w \in use.writers,
Store(use)!Open(w) \/ Store(use)!WriteHalf(w) \/ Store(use)!WriteRest(w) \/ Store(use)!Sync(w)
      PROVE  Store(use)!Tidy'
  BY <1>0, <1>1 DEF Store!Tidy, Store!NoTempLeft, Store!Open, Store!WriteHalf, Store!WriteRest,
     Store!Sync, Store!Goes, Store!disk
<1>2. ASSUME NEW w \in use.writers,
Store(use)!Replace(w) \/ Store(use)!Fail(w) \/ Store(use)!TidyUp(w) \/ Store(use)!Kill(w)
      PROVE  Store(use)!Tidy'
  BY <1>0, <1>2 DEF Store!Tidy, Store!NoTempLeft, Store!Replace, Store!Fail, Store!TidyUp,
     Store!Kill, Store!Goes, Store!disk
<1>3. CASE Store(use)!WriteBack
  BY <1>3 DEF Store!Tidy, Store!NoTempLeft, Store!WriteBack
<1>4. CASE Store(use)!PowerLoss
  <2>1. s11' \in 0 .. use.losses /\ s11' > 0
    BY <1>4 DEF Store!Tidy, Store!PowerLoss, Store!StoreAssumption
  <2>2. \A w \in use.writers : s7'[w] \in {"idle", "done", "failed", "dead"}
    BY <1>0, <1>4 DEF Store!PowerLoss
  <2>3. s2' \subseteq use.writers /\ s6' \subseteq use.writers
    BY <1>4 DEF Store!Tidy, Store!PowerLoss, Store!disk
  <2>. QED  BY <2>1, <2>2, <2>3 DEF Store!Tidy, Store!NoTempLeft
<1>5. CASE UNCHANGED Store(use)!vars
  BY <1>5 DEF Store!Tidy, Store!NoTempLeft, Store!vars, Store!disk
<1>6. ASSUME UNCHANGED <<s2, Store(use)!disk, s7, s11>> PROVE Store(use)!Tidy'
  BY <1>6 DEF Store!Tidy, Store!NoTempLeft, Store!disk
<1>. QED  BY <1>1, <1>2, <1>3, <1>4, <1>5, <1>6
            DEF Store!Next, Store!OpenReader, Store!ReadHalf, Store!ReadRest, Store!Delete,
               Store!Obstruct

LEMMA StoreTidySays ==
  ASSUME NEW use, Store(use)!StoreInv, Store(use)!Tidy
  PROVE  Store(use)!TypeOK /\ Store(use)!NoTempLeft
BY DEF Store!StoreInv, Store!TypesOK, Store!GotOK, Store!Tidy, Store!TypeOK

LEMMA ObjectStoreStart ==
  ASSUME NEW use, Store(use)!Init
  PROVE  Store(use)!Abstract!Init
BY DEF Store!Init, Store!Abstract!Init

LEMMA ObjectStoreNext ==
  ASSUME NEW use, Store(use)!StoreAssumption, use.losses = 0, Store(use)!StoreInv,
         Store(use)!Tidy, [Store(use)!Next]_(Store(use)!vars)
  PROVE  Store(use)!ObjectStoreStep
<1> SUFFICES [Store(use)!Abstract!Next]_(Store(use)!Abstract!vars)
  BY DEF Store!ObjectStoreStep
<1>1. CASE UNCHANGED <<s1, s9>>
  BY <1>1 DEF Store!Abstract!vars
<1>2. ASSUME NEW w \in use.writers, Store(use)!Replace(w)
      PROVE  [Store(use)!Abstract!Next]_(Store(use)!Abstract!vars)
  <2>1. use.keyOf[w] \in use.keys /\ s9' = s9
    BY <1>2 DEF Store!StoreAssumption, Store!Replace, Store!readers
  <2>2. CASE s1' = [s1 EXCEPT ![use.keyOf[w]] = w]
    BY <2>1, <2>2 DEF Store!Abstract!Put, Store!Abstract!Next
  <2>. QED  BY <1>1, <1>2, <2>1, <2>2 DEF Store!Replace
<1>3. ASSUME NEW k \in use.keys, Store(use)!Delete(k) \/ Store(use)!Obstruct(k)
      PROVE  [Store(use)!Abstract!Next]_(Store(use)!Abstract!vars)
  BY <1>3 DEF Store!Delete, Store!Obstruct, Store!readers, Store!Abstract!Delete,
     Store!Abstract!Obstruct, Store!Abstract!Next
<1>4. ASSUME NEW r \in use.readers, Store(use)!OpenReader(r)
      PROVE  [Store(use)!Abstract!Next]_(Store(use)!Abstract!vars)
  <2>1. use.keyOf[r] \in use.keys /\ s9[r] = Nothing /\ s1' = s1
    BY <1>4 DEF Store!StoreAssumption, Store!StoreInv, Store!ReadersOnDisk, Store!OpenReader
  <2>2. CASE s1[use.keyOf[r]] \in use.writers
    <3>1. Store(use)!Abstract!Get(use.keyOf[r], r)
      BY <1>4, <2>1, <2>2 DEF Store!OpenReader, Store!Abstract!Get
    <3>. QED  BY <2>1, <3>1 DEF Store!Abstract!Next
  <2>3. CASE s1[use.keyOf[r]] \notin use.writers
    BY <1>1, <1>4, <2>1, <2>3 DEF Store!OpenReader
  <2>. QED  BY <2>2, <2>3
<1>5. ~Store(use)!PowerLoss
  BY DEF Store!Tidy, Store!PowerLoss
<1>. QED
  BY <1>1, <1>2, <1>3, <1>4, <1>5
     DEF Store!Next, Store!vars, Store!readers, Store!Open, Store!WriteHalf, Store!WriteRest,
        Store!Sync, Store!Fail, Store!TidyUp, Store!Kill,
         Store!ReadHalf, Store!ReadRest, Store!WriteBack

ReadsInv == running = "reads" => Store(Reads)!StoreInv /\ Store(Reads)!Tidy
PowerInv == running = "power" => Store(Power)!StoreInv

LEMMA StoreInductive ==
  /\ Init => ReadsInv /\ PowerInv
  /\ ReadsInv /\ PowerInv /\ [Next]_all => ReadsInv' /\ PowerInv'
<1>1. Store(Reads)!StoreAssumption /\ Store(Power)!StoreAssumption
  BY InstancesAssumption
<1>2. Init => ReadsInv /\ PowerInv
  BY <1>1, StoreStart, StoreInitOK, StoreInitTidy DEF ReadsInv, PowerInv
<1>3. ASSUME ReadsInv, [Next]_all PROVE ReadsInv'
  <2>. SUFFICES ASSUME running' = "reads" PROVE Store(Reads)!StoreInv' /\ Store(Reads)!Tidy'
    BY DEF ReadsInv
  <2>. QED  BY <1>1, <1>3, StoreRuns, StoreNextOK, StoreNextTidy DEF ReadsInv
<1>4. ASSUME PowerInv, [Next]_all PROVE PowerInv'
  <2>. SUFFICES ASSUME running' = "power" PROVE Store(Power)!StoreInv'
    BY DEF PowerInv
  <2>. QED  BY <1>1, <1>4, StoreRuns, StoreNextOK DEF PowerInv
<1>. QED  BY <1>2, <1>3, <1>4

-----------------------------------------------------------------------------
(* The run: all components, one at a time *)

LEMMA RunningStays == ASSUME [Next]_all PROVE running' = running
  BY DEF Next, MediaNext, Step, all

LEMMA ElsewhereStays == ASSUME Elsewhere, running' = running PROVE MediaInv'
<1>1. Elsewhere' BY DEF Elsewhere
<1>2. MediaInv'
  BY <1>1 DEF Elsewhere, MediaInv, ChainsInv, TokensInv, WindowsInv, ProfileInv, SidecarInv, PiperInv,
     KokoroInv, RoutingInv, SynthesisInv, ContractInv
<1> QED BY <1>2

(* A component that is not of MCMedia leaves MediaInv with nothing to say. *)
LEMMA MediaAlways == Spec => []MediaInv
<1>1. Init => MediaInv
  BY MediaInductive, NothingElsewhere DEF Init, Launch, Elsewhere
<1>2. MediaInv /\ [Next]_all => MediaInv'
  <2>1. ASSUME MediaInv, [MediaNext]_all PROVE MediaInv'
    BY <2>1, MediaInductive
  <2>2. ASSUME Next, ~MediaNext PROVE running' = running /\ Elsewhere
    BY <2>2 DEF Next, Step, Elsewhere
  <2>3. ASSUME Elsewhere, running' = running PROVE MediaInv'
    BY <2>3, ElsewhereStays
  <2>. QED  BY <2>1, <2>2, <2>3
<1>. QED  BY <1>1, <1>2, PTL DEF Spec

(* Whatever is cancelled, fails, hangs or ignores SIGTERM, no child outlives its  *)
(* call, the models in this process are used by one thread at a time, and no call *)
(* switches back ends because one failed (run_cancellable_process, _MLX_LOCK,     *)
(* transcribe_audio).                                                             *)
THEOREM CallsAlwaysToThemselves == Spec => []CallsKeepToThemselves
  BY MediaSays, MediaAlways, PTL

(* An answer of the profile has every window it owes, made of clips of its own mark, and  *)
(* was never given without the drift check; after a cancellation at most one child works  *)
(* at the media, and at most three are asked for a version, whatever fails and whenever   *)
(* the model is replaced (run_profile_transcription, profile_identity).                    *)
THEOREM ProfileAlwaysComplete == Spec => []ProfileIsComplete
  BY MediaSays, MediaAlways, PTL

(* A connection of the sidecar holds no more than its limits whatever lengths a   *)
(* client declares, mixes no two requests or answers, and leaves no file          *)
(* (read_bounded_event, handle_event).                                            *)
THEOREM ConnectionsAlwaysBounded == Spec => []ConnectionsAreBounded
  BY MediaSays, MediaAlways, PTL

(* Whatever happens to the files of voices while they load, a cache holds no more than *)
(* its limit and gives each request the parts of one version; a request for a voice is *)
(* spoken by the back end that has the voice; and a request's speech is in its own     *)
(* language, its answer whole, its files gone (VoiceRegistry, apply_language_routing,  *)
(* export_audio, the caches and their locks).                                          *)
THEOREM SpeechAlwaysAsRequested == Spec => []SpeechAsRequested
  BY MediaSays, MediaAlways, PTL

(* A job that succeeded was transcribed by the engine it asked for under the *)
(* control plane's rule, and has every artifact it promises, whichever       *)
(* release ran it (validate_remote_artifacts,                                *)
(* normalize_remote_result_metadata).                                        *)
THEOREM ResultsAreAsAsked == Spec => []ContractHonoured
  BY MediaSays, MediaAlways, PTL

(* An honest worker is not turned away: its completion is accepted, and again *)
(* after a lost answer and a retention sweep, and what it is given it had told *)
(* (worker_can_run_job, stored_manifest_matches_completion).                   *)
THEOREM HonestyIsRewarded == Spec => []HonestWorkersAccepted
  BY MediaSays, MediaAlways, PTL

(* However many sign-ins arrive at once and however slow their password checks are, a    *)
(* key spends no more than its budget, and an address's window counts what failed in it; *)
(* and whatever redirects and name servers answer, a fetch is connected to checked peers *)
(* only, uses whole bodies only and leaves nothing when it fails.                          *)
THEOREM GuardsAlwaysHold == Spec => []GuardsHold
<1>1. LoginsInv /\ FetchingInv => GuardsHold
  BY DEF GuardsHold, LoginsInv, FetchingInv, Logins!IInv, Fetching!IInv
<1> QED BY <1>1, LoginsInductive, FetchingInductive, PTL DEF Spec

(* If nothing happens in between and no store fails, a run deletes what the *)
(* dry run before it listed, rows and jobs that lose their last row         *)
(* (prune_job_artifacts, --dry-run).                                        *)
THEOREM DryRunsTellTheTruth == Spec => []DryRunPredicts
<1>1. Init => SweepInv
  BY SweepInit DEF Init, MediaInit, Launch, SweepInv
<1>2. SweepInv /\ [Next]_all => SweepInv'
  BY SweepRuns, SweepNext DEF SweepInv
<1>3. SweepInv => DryRunPredicts
  <2> SUFFICES ASSUME Sweep!IInv, s6 = 5, s7 = {}, s10
               PROVE  s8 = s9
    BY FivePhases DEF SweepInv, DryRunPredicts, Sweep!DryRunPredicts
  <2>1. {n \in 1 .. 4 : s6 < n} = {}
    OBVIOUS
  <2>2. Sweep!RowsAhead = {}
    BY <2>1 DEF Sweep!RowsAhead
  <2>3. Sweep!RowsIn(s9) = Sweep!RowsIn(s8)
    BY <2>2 DEF Sweep!IInv, Sweep!RowsAsTold, Sweep!RowsDone
  <2>4. Sweep!JobsIn(s9) = Sweep!JobsIn(s8)
    BY FivePhases DEF Sweep!IInv, Sweep!JobsAsTold
  <2>. QED  BY <2>3, <2>4 DEF Sweep!IInv
<1>. QED  BY <1>1, <1>2, <1>3, PTL DEF Spec

(* There is no torn object, not even after the power has come back, and     *)
(* temporary files are left only by processes that were cut down (_writer). *)
THEOREM ObjectsAreWhole == Spec => []NoTornObject
<1>1. ReadsInv /\ PowerInv => NoTornObject
  BY StoreTidySays, StoreInvariantsSay DEF ReadsInv, PowerInv, NoTornObject
<1>. QED  BY <1>1, StoreInductive, PTL DEF Spec

(* Puts, reads and deletes of the filesystem store are those of an object   *)
(* store (FileSystemArtifactStore.put, open_reader, delete).                *)
THEOREM StoreKeepsItsWord == Spec => StoreIsAtomic
<1>. DEFINE OneVersion == running = "reads" => Store(Reads)!ReadsOneVersion
            Kind == running = "reads" => Store(Reads)!ObjectStoreStep /\ Store(Reads)!ReadsOneVersion'
<1>1. Init => (running = "reads" => Store(Reads)!Abstract!Init)
  BY StoreStart, ObjectStoreStart
<1>2. ReadsInv => OneVersion
  BY StoreInvariantsSay DEF ReadsInv
<1>3. ReadsInv /\ OneVersion' /\ [Next]_all => [Kind]_all
  <2> SUFFICES ASSUME ReadsInv, OneVersion', [Next]_all, running = "reads"
               PROVE  Store(Reads)!ObjectStoreStep /\ Store(Reads)!ReadsOneVersion'
    OBVIOUS
  <2>1. running' = "reads"
    BY RunningStays
  <2>2. Store(Reads)!ObjectStoreStep
    BY <2>1, InstancesAssumption, StoreRuns, ObjectStoreNext DEF ReadsInv
  <2>. QED  BY <2>1, <2>2
<1>. QED  BY <1>1, <1>2, <1>3, StoreInductive, PTL DEF Spec, StoreIsAtomic

(* StepsStayHonest, for every value of the constants: the steps of the loop over the *)
(* back ends, of the readers of tokens, of the windowed decoding, of the caches of    *)
(* voices, of the counters of sign-ins and of a fetch do nothing they must not        *)
(* (_transcribe_with_fallback, whispercpp_segment_words, _transcribe_window,          *)
(* VoiceRegistry, reserve_attempt, download_media).                                   *)
THEOREM StepsAlwaysHonest == Spec => StepsStayHonest
<1> DEFINE Honest ==
      /\ running = "chains" => Chains!CancelIsNoLackOfBackends
      /\ running = "tokens" => Tokens!EndsOnlyGrow
      /\ running = "windows" => Windows!GapsAreFailedClips /\ Windows!CancelledNotAnswered
      /\ running = "piper" => Voices(Piper)!NeverStale
      /\ running = "kokoro" => Voices(Kokoro)!NeverStale
      /\ running = "logins" => Logins!ReservationsHeld
      /\ running = "fetching" => Fetching!OnlyTransientRetried
<1>1. ASSUME MediaInv, LoginsInv, FetchingInv, [Next]_all PROVE [Honest]_all
  <2>1. running' = running BY <1>1, RunningStays
  <2>2. CASE [MediaNext]_all
    <3>1. MediaHonest BY <1>1, <2>2, MediaStepsHonest
    <3>2. UNCHANGED all \/ ~(running = "logins" \/ running = "fetching")
      BY <2>2 DEF MediaNext, Step
    <3> QED BY <3>1, <3>2 DEF MediaHonest
  <2>3. CASE running = "logins"
    <3>1. Logins!ReservationsHeld
      BY <1>1, <2>1, <2>3, InstancesAssumption, LoginsRuns, LoginsStepsHonest DEF LoginsInv
    <3> QED BY <2>3, <3>1
  <2>4. CASE running = "fetching"
    <3>1. Fetching!OnlyTransientRetried
      BY <1>1, <2>1, <2>4, InstancesAssumption, FetchingRuns, FetchingStepsHonest DEF FetchingInv
    <3> QED BY <2>4, <3>1
  <2>5. CASE [Next]_all /\ ~[MediaNext]_all /\ running \notin {"logins", "fetching"}
    <3>1. Elsewhere BY <2>5 DEF Next, Step, Elsewhere
    <3> QED BY <2>5, <3>1 DEF Elsewhere
  <2> QED BY <1>1, <2>2, <2>3, <2>4, <2>5
<1>2. MediaInv /\ LoginsInv /\ FetchingInv /\ [Next]_all => [Honest]_all BY <1>1
<1>3. Spec => [][Honest]_all
  BY <1>2, MediaAlways, LoginsInductive, FetchingInductive, PTL DEF Spec
<1> QED BY <1>3 DEF StepsStayHonest

=============================================================================
