------------------------------ MODULE MCDeletion ------------------------------
(***************************************************************************)
(* The deletion of jobs and of what they stored.                           *)
(***************************************************************************)
EXTENDS SideBySide, FiniteSets, Sequences, TLC

-----------------------------------------------------------------------------

(* A profile job p with two attempts and an upload, and a local job q whose final *)
(* artifact shares its object with an intermediate one; a DELETE beside the sweep. *)
Shared == INSTANCE RetentionProofs WITH
  state <- s1, aged <- s2, leased <- s3, prefixes <- s4, rows <- s5, owner <- s6, old <- s7,
  pending <- s8, objects <- s9, at <- s10, todo <- s11,
  Job <- {"p", "q"}, Profile <- {"p"}, Nobody <- Nothing,
  Attempt <- {"a1", "a2"}, AttemptOf <- [a \in {"a1", "a2"} |-> "p"], NoAttempt <- Nothing,
  Object <- {"o1", "o2", "k1", "k2", "up"}, Outside <- {},
  Below <- "o1" :> "a1" @@ "o2" :> "a2" @@ "k1" :> Nothing @@ "k2" :> Nothing @@ "up" :> Nothing,
  Row <- {"r2", "f1", "i1", "i2", "u"},
  Names <- "r2" :> "o2" @@ "f1" :> "k1" @@ "i1" :> "k1" @@ "i2" :> "k2" @@ "u" :> "up",
  Sort <- "r2" :> "final" @@ "f1" :> "final" @@ "i1" :> "intermediate" @@ "i2" :> "intermediate"
            @@ "u" :> "upload",
  First <- "r2" :> "p" @@ "f1" :> "q" @@ "i1" :> "q" @@ "i2" :> "q" @@ "u" :> "p",
  Caller <- {"c"}, Target <- "c" :> "p", Faults <- {}

(* Two DELETE calls and the sweep while stores, transactions and callers fail. *)
Faulty == INSTANCE RetentionProofs WITH
  state <- s1, aged <- s2, leased <- s3, prefixes <- s4, rows <- s5, owner <- s6, old <- s7,
  pending <- s8, objects <- s9, at <- s10, todo <- s11,
  Job <- {"p"}, Profile <- {"p"}, Nobody <- Nothing,
  Attempt <- {"a"}, AttemptOf <- "a" :> "p", NoAttempt <- Nothing,
  Object <- {"o1", "o2", "up"}, Outside <- {},
  Below <- "o1" :> "a" @@ "o2" :> "a" @@ "up" :> Nothing,
  Row <- {"r", "u"}, Names <- "r" :> "o1" @@ "u" :> "up",
  Sort <- "r" :> "final" @@ "u" :> "upload", First <- "r" :> "p" @@ "u" :> "p",
  Caller <- {"c", "d"}, Target <- "c" :> "p" @@ "d" :> "p",
  Faults <- {"error", "half", "list", "kill"}

(* A profile job run locally: what its repeated execution replaces is queued. *)
Queue == INSTANCE RetentionProofs WITH
  state <- s1, aged <- s2, leased <- s3, prefixes <- s4, rows <- s5, owner <- s6, old <- s7,
  pending <- s8, objects <- s9, at <- s10, todo <- s11,
  Job <- {"p"}, Profile <- {"p"}, Nobody <- Nothing,
  Attempt <- {}, AttemptOf <- <<>>, NoAttempt <- Nothing,
  Object <- {"k1", "k2"}, Outside <- {}, Below <- [o \in {"k1", "k2"} |-> Nothing],
  Row <- {"f", "i", "j"}, Names <- "f" :> "k1" @@ "i" :> "k1" @@ "j" :> "k2",
  Sort <- "f" :> "final" @@ "i" :> "intermediate" @@ "j" :> "intermediate",
  First <- [r \in {"f", "i", "j"} |-> "p"],
  Caller <- {"c", "d"}, Target <- [c \in {"c", "d"} |-> "p"], Faults <- {"error", "half", "kill"}

(* An artifact or upload may be a link out of the layout. *)
Links == INSTANCE RetentionProofs WITH
  state <- s1, aged <- s2, leased <- s3, prefixes <- s4, rows <- s5, owner <- s6, old <- s7,
  pending <- s8, objects <- s9, at <- s10, todo <- s11,
  Job <- {"p", "q"}, Profile <- {"p", "q"}, Nobody <- Nothing,
  Attempt <- {"a"}, AttemptOf <- "a" :> "p", NoAttempt <- Nothing,
  Object <- {"o1", "o2", "x", "up"}, Outside <- {"x"},
  Below <- "o1" :> "a" @@ "o2" :> "a" @@ "x" :> Nothing @@ "up" :> Nothing,
  Row <- {"r1", "r2", "u"}, Names <- "r1" :> "o1" @@ "r2" :> "x" @@ "u" :> "up",
  Sort <- "r1" :> "final" @@ "r2" :> "intermediate" @@ "u" :> "upload",
  First <- "r1" :> "p" @@ "r2" :> "q" @@ "u" :> "p",
  Caller <- {"c"}, Target <- "c" :> "p", Faults <- {"half"}

-----------------------------------------------------------------------------
ASSUME DeletionAssumption ==
  /\ Shared!RetentionAssumption /\ Queue!RetentionAssumption
  /\ Faulty!RetentionAssumption /\ Links!RetentionAssumption

DeletionInit ==
  \/ Launch("shared", 11, Shared!Init)
  \/ Launch("queue", 11, Queue!Init)
  \/ Launch("faulty", 11, Faulty!Init)
  \/ Launch("links", 11, Links!Init)

DeletionNext ==
  \/ Step("shared", 11, Shared!Next)
  \/ Step("queue", 11, Queue!Next)
  \/ Step("faulty", 11, Faulty!Next)
  \/ Step("links", 11, Links!Next)

DeletionSpec == DeletionInit /\ [][DeletionNext]_all

-----------------------------------------------------------------------------
(* Properties *)

(* A job whose row is gone has left nothing behind that only its row could lead   *)
(* to, and what an attempt stored stays below a recorded prefix or behind a row   *)
(* until somebody deletes it (RemoteAttemptPrefix, delete_job).                   *)
NothingLeftBehind ==
  /\ running = "shared" => Shared!GoneOwnsNothing
  /\ running = "queue" => Queue!TypeOK /\ Queue!GoneOwnsNothing
  /\ running = "faulty" => Faulty!TypeOK /\ Faulty!GoneOwnsNothing /\ Faulty!AttemptObjectsFound

(* No deletion, however late it comes after its list was read, takes the object   *)
(* of a row that is still wanted, and none ever takes an object outside the       *)
(* layout (object_is_referenced, the recheck under the lock, the layout check).   *)
WantedObjectsKept ==
  [][/\ running = "shared" => Shared!WantedObjectsKept
     /\ running = "queue" => Queue!WantedObjectsKept
     /\ running = "links" => Links!OutsideKept']_all

=============================================================================
