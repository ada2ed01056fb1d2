----------------------------- MODULE LoginThrottle -----------------------------
(***************************************************************************)
(* Admission of operator sign-ins (operators/login_throttle.py and         *)
(* login_page in operators/views.py): an attempt reserves a place in the   *)
(* budget of its address and in that of its user name before the password  *)
(* is checked, and settles when the check is over, however late.           *)
(***************************************************************************)
EXTENDS Integers, FiniteSets

CONSTANTS
  Attempts, Addresses, Users,
  MaxFailures, Lockout,   \* VOXHELM_LOGIN_MAX_FAILURES, VOXHELM_LOGIN_LOCKOUT_SECONDS
  End,                    \* bound on the clock
  Evictions               \* bound on entries the cache drops

(* What an instance may give the constants. *)
ThrottleAssumption ==
  /\ MaxFailures \in Nat \ {0} /\ Lockout \in Nat \ {0} /\ End \in Nat /\ Evictions \in Nat
  /\ Addresses \cap Users = {}

Keys == Addresses \cup Users

VARIABLES
  now,
  bucket,    \* the cache entry of each key; a missing one is an empty one
  attempt,   \* each request: where it is, whose it is, when and how it was settled
  evicted

vars == <<now, bucket, attempt, evicted>>

Empty == [failures |-> 0, expires |-> 0, pending |-> {}]
Fresh == [at |-> "new", keys |-> {}, time |-> 0, counted |-> {}]

TypeOK ==
  /\ now \in 0 .. End /\ evicted \in 0 .. Evictions
  /\ bucket \in [Keys -> [failures : Nat, expires : 0 .. End + Lockout, pending : SUBSET Attempts]]
  /\ attempt \in [Attempts -> [at : {"new", "checking", "refused", "failed", "signedIn"},
                               keys : SUBSET Keys, time : 0 .. End, counted : SUBSET Keys]]
  /\ \A k \in Keys : bucket[k].failures = 0 => bucket[k].expires = 0

Init ==
  /\ now = 0 /\ evicted = 0
  /\ bucket = [k \in Keys |-> Empty]
  /\ attempt = [a \in Attempts |-> Fresh]

-----------------------------------------------------------------------------
(* _load *)
Load(k) ==
  IF bucket[k].expires <= now THEN [bucket[k] EXCEPT !.failures = 0, !.expires = 0] ELSE bucket[k]

(* _save: an entry without failures and reservations is deleted. *)
Save(changed) == bucket' = [k \in Keys |-> IF k \in DOMAIN changed THEN changed[k] ELSE bucket[k]]

(* Variant with a fault, for comparison only: only completed failures count. *)
FullWhenFailed(b) == b.failures >= MaxFailures

Full(b) == b.failures + Cardinality(b.pending) >= MaxFailures

(* reserve_attempt *)
Reserve(a, address, user) ==
  LET keys == {address, user} IN
  /\ attempt[a].at = "new"
  /\ IF \E k \in keys : Full(Load(k))
     THEN /\ attempt' = [attempt EXCEPT ![a].at = "refused"]
          /\ UNCHANGED bucket
     ELSE /\ attempt' = [attempt EXCEPT ![a].at = "checking", ![a].keys = keys]
          /\ Save([k \in keys |-> [Load(k) EXCEPT !.pending = @ \cup {a}]])
  /\ UNCHANGED <<now, evicted>>

(* The window begins with its first failure. *)
Failed(b) ==
  [b EXCEPT !.failures = @ + 1,
            !.expires = IF b.failures = 0 THEN now + Lockout ELSE @]

Cleared(b) == [b EXCEPT !.failures = 0, !.expires = 0]

Settled(a, success, k) ==
  LET b == [Load(k) EXCEPT !.pending = @ \ {a}] IN
  IF ~success THEN Failed(b) ELSE IF k \in Users THEN Cleared(b) ELSE b

(* settle_attempt, in login_page's finally: an entry that no longer has the reservation is *)
(* left alone.                                                                               *)
Settle(a, success) ==
  /\ attempt[a].at = "checking"
  /\ LET mine == {k \in attempt[a].keys : a \in bucket[k].pending} IN
     /\ Save([k \in mine |-> Settled(a, success, k)])
     /\ attempt' = [attempt EXCEPT ![a].at = IF success THEN "signedIn" ELSE "failed", ![a].time = now,
                                   ![a].counted = IF success THEN {} ELSE mine]
  /\ UNCHANGED <<now, evicted>>

Tick == now < End /\ now' = now + 1 /\ UNCHANGED <<bucket, attempt, evicted>>

(* The cache is full and drops an entry. *)
Evict(k) ==
  /\ evicted < Evictions /\ bucket[k] # Empty
  /\ bucket' = [bucket EXCEPT ![k] = Empty] /\ evicted' = evicted + 1
  /\ UNCHANGED <<now, attempt>>

Next ==
  \/ \E a \in Attempts, address \in Addresses, user \in Users : Reserve(a, address, user)
  \/ \E a \in Attempts, success \in BOOLEAN : Settle(a, success)
  \/ Tick
  \/ \E k \in Keys : Evict(k)

Spec == Init /\ [][Next]_vars

-----------------------------------------------------------------------------
(* Properties *)

Checks(k) == {a \in Attempts : attempt[a].at = "checking" /\ k \in attempt[a].keys}

(* However many sign-ins arrive at once and however slow their password checks are, an  *)
(* address and a user name have no more checks and failures of one window together than *)
(* the budget: a check that outlives the window stays in it.                              *)
ChecksBounded ==
  evicted = 0 => \A k \in Keys :
    Cardinality(Checks(k)) + Load(k).failures <= MaxFailures

InWindow(k) ==
  {a \in Attempts : attempt[a].at = "failed" /\ k \in attempt[a].counted
                      /\ attempt[a].time >= bucket[k].expires - Lockout}

(* The failures of an address's open window are the sign-ins from it that failed since  *)
(* the window began, each counted once, those that settle late or concurrently included; *)
(* no success takes one away, and no attempt from before the entry was dropped adds one.  *)
FailuresOfTheWindow ==
  \A k \in Addresses :
    /\ bucket[k].failures <= Cardinality(InWindow(k))
    /\ (evicted = 0 /\ bucket[k].expires > now) => bucket[k].failures = Cardinality(InWindow(k))

(* A reservation is never given up by anything but its own settling (or the cache), so   *)
(* that nobody takes the place of a check that is still running.                           *)
ReservationsHeld ==
  \A a \in Attempts, k \in Keys :
    (a \in bucket[k].pending /\ a \notin bucket'[k].pending)
      => attempt'[a].at \in {"failed", "signedIn"} \/ evicted' > evicted

-----------------------------------------------------------------------------
(* What every step preserves *)

Started == {a \in Attempts : attempt[a].at # "new"}

(* Only checks hold reservations, and all of them do until the cache drops one. *)
ChecksReserve ==
  \A k \in Keys :
    /\ bucket[k].pending \subseteq Checks(k)
    /\ evicted = 0 => bucket[k].pending = Checks(k)

(* No window is longer than the lockout, and what failed just now is in an open one. *)
WindowsOpen ==
  /\ \A a \in Attempts : attempt[a].time <= now
  /\ \A k \in Keys : bucket[k].expires <= now + Lockout
  /\ evicted = 0 =>
       \A a \in Attempts, k \in Addresses :
         attempt[a].at = "failed" /\ k \in attempt[a].counted /\ attempt[a].time = now
           => bucket[k].expires > now

IInv ==
  /\ TypeOK /\ IsFiniteSet(Started) /\ ChecksReserve /\ WindowsOpen
  /\ ChecksBounded /\ FailuresOfTheWindow

=============================================================================
