----------------------------- MODULE ArtifactStore -----------------------------
(***************************************************************************)
(* The filesystem artifact store (jobs/artifacts.py): writers fill a       *)
(* temporary file beside the object and rename it into place, readers hold *)
(* the file they have opened, while others delete objects, processes are   *)
(* killed and the machine loses its power.                                 *)
(***************************************************************************)
EXTENDS FiniteSets, Naturals, Sequences

CONSTANTS
  Keys, Writers, Readers,   \* a writer puts its own data once, in a file of its own
  KeyOf,                    \* the key each writer puts and each reader reads
  None, Alias,
  Losses                    \* bound on power losses

(* What an instance may give the constants. *)
StoreAssumption ==
  /\ KeyOf \in [Writers \cup Readers -> Keys] /\ Losses \in Nat
  /\ None \notin Writers /\ Alias \notin Writers /\ None # Alias

VARIABLES
  entry,      \* the name of each object in its directory: a file, an alias or none
  temps,      \* the files that have a .artifact-*.tmp name
  halves,     \* the two halves of each file: whose data, None while there is none
  synced,     \* files fsync has returned for
  diskEntry, diskTemps,   \* the directory as it is on the disk
  pc,         \* where each writer is
  reader,     \* where each reader is
  fd,         \* the file it has open
  got,        \* the halves it has read
  losses

vars == <<entry, temps, halves, synced, diskEntry, diskTemps, pc, reader, fd, got, losses>>
disk == <<diskEntry, diskTemps>>
readers == <<reader, fd, got>>

Half == Writers \cup {None}

TypeOK ==
  /\ entry \in [Keys -> Writers \cup {None, Alias}] /\ diskEntry \in [Keys -> Writers \cup {None, Alias}]
  /\ temps \subseteq Writers /\ diskTemps \subseteq Writers /\ synced \subseteq Writers
  /\ halves \in [Writers -> Half \X Half]
  /\ pc \in [Writers -> {"idle", "opened", "half", "full", "synced", "failing", "done", "failed", "dead"}]
  /\ reader \in [Readers -> {"idle", "opened", "half", "done", "missed", "dead"}]
  /\ fd \in [Readers -> Half] /\ got \in [Readers -> Seq(Half)]
  /\ losses \in 0 .. Losses
  /\ \A w \in Writers : pc[w] \in {"opened", "half", "full", "synced", "failing"} => w \in temps

Init ==
  /\ entry = [k \in Keys |-> None] /\ diskEntry = entry
  /\ temps = {} /\ diskTemps = {} /\ synced = {}
  /\ halves = [w \in Writers |-> <<None, None>>]
  /\ pc = [w \in Writers |-> "idle"]
  /\ reader = [r \in Readers |-> "idle"]
  /\ fd = [r \in Readers |-> None] /\ got = [r \in Readers |-> <<>>]
  /\ losses = 0

-----------------------------------------------------------------------------
(* _writer *)

Goes(w, from, to) == pc[w] = from /\ pc' = [pc EXCEPT ![w] = to]

(* _check_leaf refuses an alias; O_CREAT | O_EXCL makes the temporary file. *)
Open(w) ==
  /\ IF entry[KeyOf[w]] = Alias
     THEN Goes(w, "idle", "failed") /\ UNCHANGED temps
     ELSE Goes(w, "idle", "opened") /\ temps' = temps \cup {w}
  /\ UNCHANGED <<entry, halves, synced, disk, readers, losses>>

WriteHalf(w) ==
  /\ Goes(w, "opened", "half") /\ halves' = [halves EXCEPT ![w][1] = w]
  /\ UNCHANGED <<entry, temps, synced, disk, readers, losses>>

WriteRest(w) ==
  /\ Goes(w, "half", "full") /\ halves' = [halves EXCEPT ![w][2] = w]
  /\ UNCHANGED <<entry, temps, synced, disk, readers, losses>>

(* Variant with a fault, for comparison only: the data may still be in memory. *)
FlushOnly(w) ==
  /\ Goes(w, "full", "synced") /\ UNCHANGED synced
  /\ UNCHANGED <<entry, temps, halves, disk, readers, losses>>

(* flush and fsync *)
Sync(w) ==
  /\ Goes(w, "full", "synced") /\ synced' = synced \cup {w}
  /\ UNCHANGED <<entry, temps, halves, disk, readers, losses>>

(* The second _check_leaf, and os.replace. *)
Replace(w) ==
  /\ IF entry[KeyOf[w]] = Alias
     THEN Goes(w, "synced", "failing") /\ UNCHANGED <<entry, temps>>
     ELSE /\ Goes(w, "synced", "done")
          /\ entry' = [entry EXCEPT ![KeyOf[w]] = w] /\ temps' = temps \ {w}
  /\ UNCHANGED <<halves, synced, disk, readers, losses>>

(* A write fails: no space, an unreadable source. *)
Fail(w) ==
  /\ pc[w] \in {"opened", "half", "full", "synced"} /\ pc' = [pc EXCEPT ![w] = "failing"]
  /\ UNCHANGED <<entry, temps, halves, synced, disk, readers, losses>>

(* The finally clause unlinks the temporary file. *)
TidyUp(w) ==
  /\ Goes(w, "failing", "failed") /\ temps' = temps \ {w}
  /\ UNCHANGED <<entry, halves, synced, disk, readers, losses>>

-----------------------------------------------------------------------------
(* Variant with a fault, for comparison only: links are followed. *)
OpenReaderFollowing(r) ==
  /\ reader[r] = "idle"
  /\ IF entry[KeyOf[r]] # None
     THEN reader' = [reader EXCEPT ![r] = "opened"] /\ fd' = [fd EXCEPT ![r] = entry[KeyOf[r]]]
     ELSE reader' = [reader EXCEPT ![r] = "missed"] /\ UNCHANGED fd
  /\ UNCHANGED <<entry, temps, halves, synced, disk, pc, got, losses>>

(* open_reader opens the file, which stays its file whatever happens to the name. *)
OpenReader(r) ==
  /\ reader[r] = "idle"
  /\ IF entry[KeyOf[r]] \in Writers
     THEN reader' = [reader EXCEPT ![r] = "opened"] /\ fd' = [fd EXCEPT ![r] = entry[KeyOf[r]]]
     ELSE reader' = [reader EXCEPT ![r] = "missed"] /\ UNCHANGED fd
  /\ UNCHANGED <<entry, temps, halves, synced, disk, pc, got, losses>>

ReadHalf(r) ==
  /\ reader[r] = "opened" /\ reader' = [reader EXCEPT ![r] = "half"]
  /\ got' = [got EXCEPT ![r] = <<halves[fd[r]][1]>>]
  /\ UNCHANGED <<entry, temps, halves, synced, disk, pc, fd, losses>>

ReadRest(r) ==
  /\ reader[r] = "half" /\ reader' = [reader EXCEPT ![r] = "done"]
  /\ got' = [got EXCEPT ![r] = Append(@, halves[fd[r]][2])]
  /\ UNCHANGED <<entry, temps, halves, synced, disk, pc, fd, losses>>

(* delete: a missing object is no error, an alias is refused. *)
Delete(k) ==
  /\ entry[k] \in Writers
  /\ entry' = [entry EXCEPT ![k] = None]
  /\ UNCHANGED <<temps, halves, synced, disk, pc, readers, losses>>

-----------------------------------------------------------------------------
(* The world around it *)

Obstruct(k) ==
  /\ entry[k] # Alias /\ entry' = [entry EXCEPT ![k] = Alias]
  /\ UNCHANGED <<temps, halves, synced, disk, pc, readers, losses>>

Kill(w) ==
  /\ pc[w] \notin {"done", "failed", "dead"} /\ pc' = [pc EXCEPT ![w] = "dead"]
  /\ UNCHANGED <<entry, temps, halves, synced, disk, readers, losses>>

(* The file system writes the directory back when it likes. *)
WriteBack ==
  /\ Losses > 0
  /\ diskEntry' = entry /\ diskTemps' = temps
  /\ UNCHANGED <<entry, temps, halves, synced, pc, readers, losses>>

(* Names go back to what the disk has, data that was not synced is gone. *)
PowerLoss ==
  /\ losses < Losses /\ losses' = losses + 1
  /\ entry' = diskEntry /\ temps' = diskTemps
  /\ halves' = [w \in Writers |-> IF w \in synced THEN halves[w] ELSE <<None, None>>]
  /\ pc' = [w \in Writers |-> IF pc[w] \in {"idle", "done", "failed"} THEN pc[w] ELSE "dead"]
  /\ reader' = [r \in Readers |-> IF reader[r] \in {"opened", "half"} THEN "dead" ELSE reader[r]]
  /\ UNCHANGED <<synced, disk, fd, got>>

Next ==
  \/ \E w \in Writers :
       \/ Open(w) \/ WriteHalf(w) \/ WriteRest(w) \/ Sync(w) \/ Replace(w)
       \/ Fail(w) \/ TidyUp(w) \/ Kill(w)
  \/ \E r \in Readers : OpenReader(r) \/ ReadHalf(r) \/ ReadRest(r)
  \/ \E k \in Keys : Delete(k) \/ Obstruct(k)
  \/ WriteBack \/ PowerLoss

Spec == Init /\ [][Next]_vars

-----------------------------------------------------------------------------
(* Properties *)

(* A reader has one put's data and all of it, whatever replaces or deletes the object *)
(* while it reads.                                                                      *)
ReadsOneVersion ==
  \A r \in Readers : reader[r] = "done" => got[r] \in {<<w, w>> : w \in {v \in Writers : KeyOf[v] = KeyOf[r]}}

(* There is no torn object under any key, not even after the power has come back: a    *)
(* name is given only to data that is on the disk.                                      *)
NoTornObject == \A k \in Keys : entry[k] \in Writers => halves[entry[k]] = <<entry[k], entry[k]>>

(* Temporary files are left only by processes that were killed (or lost power).         *)
NoTempLeft ==
  \A w \in temps : pc[w] \in {"opened", "half", "full", "synced", "failing", "dead"} \/ losses > 0

(* Without power losses, what users of the store see is an object store. *)
Abstract == INSTANCE ObjectStore WITH object <- entry, got <- fd
ObjectStoreStep == [Abstract!Next]_(Abstract!vars)

-----------------------------------------------------------------------------
(* What the properties rest on *)

Whole(w) == halves[w] = <<w, w>>

TypesOK ==
  /\ entry \in [Keys -> Writers \cup {None, Alias}]
  /\ diskEntry \in [Keys -> Writers \cup {None, Alias}]
  /\ synced \subseteq Writers
  /\ halves \in [Writers -> Half \X Half]
  /\ pc \in [Writers -> {"idle", "opened", "half", "full", "synced", "failing", "done", "failed", "dead"}]
  /\ reader \in [Readers -> {"idle", "opened", "half", "done", "missed", "dead"}]
  /\ fd \in [Readers -> Half]

(* What a writer has written when it is where it is. *)
Written ==
  \A w \in Writers :
    /\ pc[w] = "half" => halves[w][1] = w
    /\ pc[w] = "full" => Whole(w)
    /\ pc[w] \in {"synced", "done"} => w \in synced

(* Data on the disk is whole, and nobody writes to it any more. *)
OnDisk ==
  \A w \in synced : Whole(w) /\ pc[w] \notin {"idle", "opened", "half", "full"}

(* Names, in memory as on the disk, are given to data of their own key on the disk. *)
NamesOnDisk ==
  \A k \in Keys :
    /\ entry[k] \in Writers => entry[k] \in synced /\ KeyOf[entry[k]] = k
    /\ diskEntry[k] \in Writers => diskEntry[k] \in synced /\ KeyOf[diskEntry[k]] = k

(* A reader holds a file some name was given to, and has read whole halves of it. *)
ReadersOnDisk ==
  \A r \in Readers :
    /\ reader[r] = "idle" => fd[r] = None
    /\ reader[r] \in {"opened", "half", "done"} => fd[r] \in synced /\ KeyOf[fd[r]] = KeyOf[r]
    /\ reader[r] = "half" => got[r] = <<fd[r]>>
    /\ reader[r] = "done" => got[r] = <<fd[r], fd[r]>>

GotOK == got \in [Readers -> Seq(Half)]

StoreInv == TypesOK /\ GotOK /\ Written /\ OnDisk /\ NamesOnDisk /\ ReadersOnDisk

(* Temporary names are those of writers that still write or were cut down. *)
Tidy ==
  /\ temps \subseteq Writers /\ diskTemps \subseteq Writers /\ losses \in 0 .. Losses
  /\ \A w \in Writers : pc[w] \in {"opened", "half", "full", "synced", "failing"} => w \in temps
  /\ NoTempLeft

=============================================================================
