------------------------------ MODULE VoiceCache ------------------------------
(***************************************************************************)
(* Loading the files of a voice (synthesis/service.py load_piper_voice,    *)
(* synthesis/kokoro.py _session and _voicepack): process-wide caches, each *)
(* under a lock, whose entries are named by the identity (path, inode,     *)
(* size, times) of the files they were made from, while an administrator   *)
(* replaces or removes those files.  Which entry of a full cache was used  *)
(* least recently is left open.                                            *)
(***************************************************************************)
EXTENDS Naturals, Sequences, FiniteSets

CONSTANTS
  Requests,
  Files,        \* paths of voice files
  Loads,        \* what is loaded at once: [cache, parts, key]
  Plans,        \* the loads a request makes, one after the other, for some voice
  CacheLimit,   \* _PIPER_CACHE_LIMIT, _CACHE_LIMIT
  MaxVersion,   \* versions a file can have
  NoOne

(* What an instance may give the constants. *)
CacheAssumption ==
  /\ CacheLimit \in Nat \ {0} /\ MaxVersion \in Nat \ {0} /\ NoOne \notin Requests
  /\ \A load \in Loads : load.parts \in Seq(Files) /\ load.parts # <<>>
  /\ Plans \subseteq Seq(Loads) \ {<<>>}

Caches == {load.cache : load \in Loads}

(* Each backend has one lock; Kokoro's covers both of its caches. *)
Lock(cache) == IF cache = "piper" THEN "piper" ELSE "kokoro"
Locks == {Lock(cache) : cache \in Caches}

VARIABLES
  file,       \* the newest version of every file
  here,       \* the files that exist
  cache,      \* the entries of every cache
  owner,      \* who holds each lock
  at,         \* where each request is
  todo,       \* the loads it has left
  identity,   \* the versions it has looked up, part by part
  made,       \* the versions it has read, part by part
  got,        \* what its last load gave it
  present     \* the versions each of its files had since it holds the lock (history)

requests == <<at, todo, identity, made, got, present>>
vars == <<file, here, cache, owner, requests>>

Versions == 1 .. MaxVersion

TypeOK ==
  /\ file \in [Files -> Versions] /\ here \subseteq Files
  /\ \A c \in Caches : \A e \in cache[c] :
       /\ e \in [load : Loads, id : Seq(Versions), content : Seq(Versions)]
       /\ e.load.cache = c
  /\ DOMAIN cache = Caches
  /\ owner \in [Locks -> Requests \cup {NoOne}]
  /\ at \in [Requests -> {"idle", "identify", "look", "read", "publish", "speak", "failed"}]
  /\ todo \in [Requests -> Seq(Loads)]
  /\ identity \in [Requests -> Seq(Versions)] /\ made \in [Requests -> Seq(Versions)]
  /\ got \in [Requests -> Seq(Versions)]
  /\ present \in [Requests -> [Files -> SUBSET Versions]]

Init ==
  /\ file = [f \in Files |-> 1] /\ here \in {Files, {}} /\ cache = [c \in Caches |-> {}] /\ owner = [l \in Locks |-> NoOne]
  /\ at = [r \in Requests |-> "idle"] /\ todo \in [Requests -> Plans]
  /\ identity = [r \in Requests |-> <<>>] /\ made = [r \in Requests |-> <<>>]
  /\ got = [r \in Requests |-> <<>>] /\ present = [r \in Requests |-> [f \in Files |-> {}]]

-----------------------------------------------------------------------------
Load(r) == Head(todo[r])
Parts(r) == Load(r).parts
LockOf(r) == Lock(Load(r).cache)
SamePaths(load, other) == load.cache = other.cache /\ load.parts = other.parts

Leave(r, place) == at' = [at EXCEPT ![r] = place] /\ owner' = [owner EXCEPT ![LockOf(r)] = NoOne]

Acquire(r) ==
  /\ at[r] = "idle" /\ todo[r] # <<>> /\ owner[LockOf(r)] = NoOne
  /\ owner' = [owner EXCEPT ![LockOf(r)] = r] /\ at' = [at EXCEPT ![r] = "identify"]
  /\ identity' = [identity EXCEPT ![r] = <<>>] /\ made' = [made EXCEPT ![r] = <<>>]
  /\ present' = [present EXCEPT ![r] = [f \in Files |-> {file[f]}]]
  /\ UNCHANGED <<file, here, cache, todo, got>>

(* piper_artifact_identity of one file; strict, so a missing one is an error. *)
Identify(r) ==
  LET part == Parts(r)[Len(identity[r]) + 1] IN
  /\ at[r] = "identify"
  /\ IF part \notin here THEN Leave(r, "failed") /\ UNCHANGED identity
     ELSE /\ identity' = [identity EXCEPT ![r] = Append(@, file[part])]
          /\ at' = [at EXCEPT ![r] = IF Len(identity'[r]) = Len(Parts(r)) THEN "look" ELSE "identify"]
          /\ UNCHANGED owner
  /\ UNCHANGED <<file, here, cache, todo, made, got, present>>

EntryOf(r, e) == e.load = Load(r) /\ e.id = identity[r]

Finish(r, content) ==
  /\ got' = [got EXCEPT ![r] = content] /\ todo' = [todo EXCEPT ![r] = Tail(@)]
  /\ Leave(r, IF Tail(todo[r]) = <<>> THEN "speak" ELSE "idle")

(* A cached voice is used; otherwise the files are read. *)
Look(r) ==
  LET hits == {e \in cache[Load(r).cache] : EntryOf(r, e)} IN
  /\ at[r] = "look"
  /\ \/ hits = {} /\ at' = [at EXCEPT ![r] = "read"] /\ UNCHANGED <<owner, todo, got>>
     \/ \E e \in hits : Finish(r, e.content)
  /\ UNCHANGED <<file, here, cache, identity, made, present>>

(* One file is opened and read, from the path the identity names. *)
Read(r) ==
  LET part == Parts(r)[Len(made[r]) + 1] IN
  /\ at[r] = "read" /\ part \in here
  /\ made' = [made EXCEPT ![r] = Append(@, file[part])]
  /\ at' = [at EXCEPT ![r] = IF Len(made'[r]) = Len(Parts(r)) THEN "publish" ELSE "read"]
  /\ UNCHANGED <<file, here, cache, owner, todo, identity, got, present>>

(* The file is gone or cannot be used, or the pack has no such key. *)
ReadFails(r) ==
  /\ at[r] = "read" /\ Leave(r, "failed")
  /\ UNCHANGED <<file, here, cache, todo, identity, made, got, present>>

Kept(r, e) == ~(SamePaths(e.load, Load(r)) /\ e.id # identity[r])

(* What a cache with these entries may hold: of too many one goes that is not the new one. *)
Fitting(entries, new) ==
  IF Cardinality(entries) <= CacheLimit THEN {entries} ELSE {entries \ {e} : e \in entries \ {new}}

(* Superseded versions go, the new entry is added, one goes when there is no room. *)
Publish(r) ==
  LET c == Load(r).cache
      new == [load |-> Load(r), id |-> identity[r], content |-> made[r]] IN
  /\ at[r] = "publish"
  /\ \E entries \in Fitting({e \in cache[c] : Kept(r, e)} \cup {new}, new) :
       cache' = [cache EXCEPT ![c] = entries]
  /\ Finish(r, made[r])
  /\ UNCHANGED <<file, here, identity, made, present>>

(* The administrator installs a version of a file that is new, or removes it; no two *)
(* versions have the same inode, size and times, so none comes back.                  *)
Install(f) ==
  /\ file[f] < MaxVersion
  /\ file' = [file EXCEPT ![f] = @ + 1] /\ here' = here \cup {f}
  /\ present' = [r \in Requests |-> [present[r] EXCEPT ![f] = @ \cup {file'[f]}]]
  /\ UNCHANGED <<cache, owner, at, todo, identity, made, got>>

Uninstall(f) ==
  /\ f \in here /\ here' = here \ {f}
  /\ UNCHANGED <<file, cache, owner, requests>>

Steps(r) == Acquire(r) \/ Identify(r) \/ Look(r) \/ Read(r) \/ ReadFails(r) \/ Publish(r)

Next ==
  \/ \E r \in Requests : Steps(r)
  \/ \E f \in Files : Install(f) \/ Uninstall(f)

Spec == Init /\ [][Next]_vars

-----------------------------------------------------------------------------
Busy(r) == at[r] \in {"identify", "look", "read", "publish"}

(* Who looks or loads holds the lock of that cache, and nobody else does. *)
LocksHeld ==
  /\ \A r \in Requests : Busy(r) => todo[r] # <<>> /\ owner[LockOf(r)] = r
  /\ \A l \in Locks : owner[l] # NoOne => Busy(owner[l]) /\ LockOf(owner[l]) = l

(* A voice taken from the cache or loaded is made of versions its files had while the *)
(* request looked: nobody speaks with a voice that was replaced before it asked.       *)
NeverStale ==
  \A r \in Requests : todo'[r] # todo[r] =>
    \A i \in DOMAIN Parts(r) : got'[r][i] \in present[r][Parts(r)[i]]

(* No cache holds more voices than its limit. *)
WithinLimit == \A c \in Caches : IsFiniteSet(cache[c]) /\ Cardinality(cache[c]) <= CacheLimit

(* Of the voices of the same files only one version is kept, so replaced ones are freed. *)
OneVersion ==
  \A c \in Caches : \A e, f \in cache[c] :
    SamePaths(e.load, f.load) => e.id = f.id /\ (e.load = f.load => e = f)

-----------------------------------------------------------------------------
(* What every step preserves *)

(* The identity is complete before the cache is searched, and a miss before files are read; *)
(* an entry is new when it is published.                                                     *)
PartByPart(r) ==
  /\ Len(identity[r]) <= Len(Parts(r)) /\ Len(made[r]) <= Len(Parts(r))
  /\ at[r] = "identify" <=> Len(identity[r]) < Len(Parts(r))
  /\ at[r] \in {"identify", "look"} => made[r] = <<>>
  /\ at[r] = "read" => Len(made[r]) < Len(Parts(r))
  /\ at[r] = "publish" => Len(made[r]) = Len(Parts(r))
  /\ at[r] \in {"read", "publish"} => \A e \in cache[Load(r).cache] : ~EntryOf(r, e)

(* Every version since a part was looked up was there while the request held its lock, and *)
(* what it reads is no older.                                                               *)
SeenWhileLooking(r) ==
  /\ \A f \in Files : file[f] \in present[r][f]
  /\ \A i \in 1 .. Len(identity[r]) :
       identity[r][i] <= file[Parts(r)[i]] /\ identity[r][i] .. file[Parts(r)[i]] \subseteq present[r][Parts(r)[i]]
  /\ \A i \in 1 .. Len(made[r]) : identity[r][i] <= made[r][i] /\ made[r][i] <= file[Parts(r)[i]]

(* An entry holds nothing older than its identity, and nothing that was never there. *)
EntriesNoOlder ==
  \A c \in Caches : \A e \in cache[c] :
    /\ Len(e.id) = Len(e.load.parts) /\ Len(e.content) = Len(e.load.parts)
    /\ \A i \in 1 .. Len(e.id) : e.id[i] <= e.content[i] /\ e.content[i] <= file[e.load.parts[i]]

IInv ==
  /\ TypeOK /\ LocksHeld /\ EntriesNoOlder /\ WithinLimit /\ OneVersion
  /\ \A r \in Requests : Busy(r) => PartByPart(r) /\ SeenWhileLooking(r)

=============================================================================
