------------------------------ MODULE ObjectStore ------------------------------
(***************************************************************************)
(* What every artifact store promises (the ArtifactStore protocol in       *)
(* jobs/artifacts.py): an object is put, read and deleted as a whole.  The *)
(* S3 store asks it of its service in one call each; the filesystem store  *)
(* has to bring it about (module ArtifactStore).                           *)
(***************************************************************************)
CONSTANTS Keys, Writers, Readers, None, Alias

VARIABLES
  object,   \* the object under each key: the writer whose data it is, an alias or none
  got       \* what each reader was given to read: None before it is

vars == <<object, got>>

Init == object = [k \in Keys |-> None] /\ got = [r \in Readers |-> None]

Put(k, w) == object' = [object EXCEPT ![k] = w] /\ UNCHANGED got

Get(k, r) ==
  /\ got[r] = None /\ object[k] \in Writers
  /\ got' = [got EXCEPT ![r] = object[k]] /\ UNCHANGED object

Delete(k) == object' = [object EXCEPT ![k] = None] /\ UNCHANGED got

(* Somebody else puts a link or a directory in the place of an object. *)
Obstruct(k) == object' = [object EXCEPT ![k] = Alias] /\ UNCHANGED got

Next ==
  \E k \in Keys :
    \/ \E w \in Writers : Put(k, w)
    \/ \E r \in Readers : Get(k, r)
    \/ Delete(k) \/ Obstruct(k)

Spec == Init /\ [][Next]_vars

=============================================================================
