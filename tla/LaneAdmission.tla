--------------------------- MODULE LaneAdmission ---------------------------
(***************************************************************************)
(* What the lane scheduler promises to its callers, without records,       *)
(* processes or polling: calls ask for a lane, some of those that ask run, *)
(* and the calls that run always fit the slots.                            *)
(***************************************************************************)
EXTENDS Naturals, FiniteSets

CONSTANTS Token, InteractiveSlots, NonInteractiveSlots

VARIABLES
  asking,   \* asking[l]:  calls that ask for lane l and do not run yet
  running   \* running[l]: calls of lane l that run an inference

vars == <<asking, running>>

Lane == {"interactive", "non-interactive"}

Running == running["interactive"] \cup running["non-interactive"]

Fits(l) ==
  /\ Cardinality(Running) < InteractiveSlots + NonInteractiveSlots
  /\ l = "non-interactive" => Cardinality(running[l]) < NonInteractiveSlots

Init ==
  /\ asking = [l \in Lane |-> {}]
  /\ running = [l \in Lane |-> {}]

Ask(t, l) ==
  /\ \A k \in Lane : t \notin asking[k] \cup running[k]
  /\ asking' = [asking EXCEPT ![l] = @ \cup {t}]
  /\ UNCHANGED running

Admit(t, l) ==
  /\ t \in asking[l]
  /\ Fits(l)
  /\ asking' = [asking EXCEPT ![l] = @ \ {t}]
  /\ running' = [running EXCEPT ![l] = @ \cup {t}]

(* Calls end for any reason, several at once when their process dies. *)
Quit(S) ==
  /\ asking' = [l \in Lane |-> asking[l] \ S]
  /\ running' = [l \in Lane |-> running[l] \ S]

Next ==
  \/ \E t \in Token, l \in Lane : Ask(t, l) \/ Admit(t, l)
  \/ \E S \in SUBSET Token : Quit(S)

Spec == Init /\ [][Next]_vars

=============================================================================
