----------------------------- MODULE SideBySide -----------------------------
(***************************************************************************)
(* Several components in one run of TLC.                                   *)
(*                                                                         *)
(* Components that share no state commute: what an interleaving of their   *)
(* steps shows of one of them, a behaviour of that component alone shows   *)
(* too.  So a run chooses one component (or one instance of it) when it    *)
(* starts and lets only that one step; its variables lie in the slots s1,  *)
(* s2, ... in the order its module declares them.  The states of the       *)
(* components add up, where interleaving them would multiply them.         *)
(***************************************************************************)
EXTENDS Naturals

CONSTANT Nothing   \* who no component knows: no job, no owner, no key

VARIABLES
  running,  \* the component that runs
  s1, s2, s3, s4, s5, s6, s7, s8, s9, s10, s11, s12, s13, s14, s15, s16, s17,
  s18, s19, s20, s21

slots == <<s1, s2, s3, s4, s5, s6, s7, s8, s9, s10, s11, s12, s13, s14, s15,
           s16, s17, s18, s19, s20, s21>>
all == <<running, slots>>

Spare == 0

(* The slots beyond the n of the component that runs. *)
Unused(n) ==
  /\ n < 1 => s1 = Spare
  /\ n < 2 => s2 = Spare
  /\ n < 3 => s3 = Spare
  /\ n < 4 => s4 = Spare
  /\ n < 5 => s5 = Spare
  /\ n < 6 => s6 = Spare
  /\ n < 7 => s7 = Spare
  /\ n < 8 => s8 = Spare
  /\ n < 9 => s9 = Spare
  /\ n < 10 => s10 = Spare
  /\ n < 11 => s11 = Spare
  /\ n < 12 => s12 = Spare
  /\ n < 13 => s13 = Spare
  /\ n < 14 => s14 = Spare
  /\ n < 15 => s15 = Spare
  /\ n < 16 => s16 = Spare
  /\ n < 17 => s17 = Spare
  /\ n < 18 => s18 = Spare
  /\ n < 19 => s19 = Spare
  /\ n < 20 => s20 = Spare
  /\ n < 21 => s21 = Spare

Kept(n) ==
  /\ n < 1 => UNCHANGED s1
  /\ n < 2 => UNCHANGED s2
  /\ n < 3 => UNCHANGED s3
  /\ n < 4 => UNCHANGED s4
  /\ n < 5 => UNCHANGED s5
  /\ n < 6 => UNCHANGED s6
  /\ n < 7 => UNCHANGED s7
  /\ n < 8 => UNCHANGED s8
  /\ n < 9 => UNCHANGED s9
  /\ n < 10 => UNCHANGED s10
  /\ n < 11 => UNCHANGED s11
  /\ n < 12 => UNCHANGED s12
  /\ n < 13 => UNCHANGED s13
  /\ n < 14 => UNCHANGED s14
  /\ n < 15 => UNCHANGED s15
  /\ n < 16 => UNCHANGED s16
  /\ n < 17 => UNCHANGED s17
  /\ n < 18 => UNCHANGED s18
  /\ n < 19 => UNCHANGED s19
  /\ n < 20 => UNCHANGED s20
  /\ n < 21 => UNCHANGED s21

(* The component of this name runs; it has n variables. *)
Launch(name, n, init) == running = name /\ init /\ Unused(n)
Step(name, n, action) == running = name /\ action /\ UNCHANGED running /\ Kept(n)

=============================================================================
