----------------------------- MODULE MCServices -----------------------------
(***************************************************************************)
(* What works on media, see MCMedia; what is kept of words; what guards    *)
(* sign-in and fetching; the filesystem store; and the maintenance command *)
(* that sweeps.                                                            *)
(***************************************************************************)
EXTENDS MCMedia

CONSTANTS
  Attempts, ClientAddresses, Users, MaxFailures, Lockout,   \* of sign-ins
  LastSecond, Evictions,
  Urls, AllowedUrls, PrivateUrls, MaxRedirects,             \* of fetching
  MaxBytes, BodyLengths, FetchBudget, Tries,
  Alias, Reads, Power,                                      \* of the store
  SweptRows, SweptTable, SweptJobs, SweptOwner,             \* of the sweep
  RefusedRows, SweepBatch, SweepKills

-----------------------------------------------------------------------------
(* What constants stand for that a configuration file cannot say *)

(* Two writers and a reader of one key, a writer and a reader of another. *)
TwoKeys ==
  [keys |-> {"k", "l"}, writers |-> {"v", "w", "x"}, readers |-> {"r", "s"},
   keyOf |-> "v" :> "k" @@ "w" :> "k" @@ "x" :> "l" @@ "r" :> "k" @@ "s" :> "l", losses |-> 0]

(* One key; the power fails twice. *)
TwoLosses ==
  [keys |-> {"k"}, writers |-> {"v", "w"}, readers |-> {"r"},
   keyOf |-> [user \in {"v", "w", "r"} |-> "k"], losses |-> 2]

(* A row in every table; the first two are of job 1. *)
RowInEveryTable == <<"artifacts", "pending", "prefixes", "staged">>
TwoOfEachJob == <<1, 1, 2, 2>>

-----------------------------------------------------------------------------
(* Words *)

(* Three tokens in two windows, a retry of one; flagged from one English word and half. *)
Drift == INSTANCE DriftCheck WITH
  tokens <- s1, words <- s2, stage <- s3, waiting <- s4, heard <- s5, records <- s6,
  replaced <- s7, result <- s8, W <- 2, Starts <- {0, 1, 2}, RetryStarts <- {1, 2, 3},
  MinEnglish <- 1, MinShare <- 50, MaxTokens <- 3, MaxRetry <- 1

(* Every text of up to four sentences of up to seven tokens, three tokens a call. *)
Chunks == INSTANCE TokenChunks WITH
  lengths <- s1, next <- s2, chunks <- s3, current <- s4,
  Budget <- 3, Lengths <- 0 .. 7, MaxSentences <- 4

-----------------------------------------------------------------------------
(* Guards *)

Logins == INSTANCE LoginThrottle WITH
  now <- s1, bucket <- s2, attempt <- s3, evicted <- s4,
  Addresses <- ClientAddresses, End <- LastSecond

Fetching == INSTANCE MediaFetch WITH
  at <- s1, source <- s2, url <- s3, hops <- s4, found <- s5, peer <- s6, expected <- s7,
  total <- s8, temps <- s9, spent <- s10, try <- s11, failure <- s12,
  Lengths <- BodyLengths, Unknown <- Nothing, Budget <- FetchBudget, Attempts <- Tries

-----------------------------------------------------------------------------
(* The filesystem store, without and with losses of power. *)
Store(use) == INSTANCE ArtifactStore WITH
  entry <- s1, temps <- s2, halves <- s3, synced <- s4, diskEntry <- s5, diskTemps <- s6,
  pc <- s7, reader <- s8, fd <- s9, got <- s10, losses <- s11,
  Keys <- use.keys, Writers <- use.writers, Readers <- use.readers, KeyOf <- use.keyOf,
  None <- Nothing, Losses <- use.losses

-----------------------------------------------------------------------------
(* The sweep, while every store works; dry runs before runs. *)
Sweep == INSTANCE RetentionSweep WITH
  due <- s1, jobs <- s2, broken <- s3, saved <- s4, next <- s5, phase <- s6, batch <- s7,
  deleted <- s8, predicted <- s9, told <- s10, removed <- s11, kills <- s12,
  Row <- SweptRows, Phase <- SweptTable, Job <- SweptJobs, OwnerOf <- SweptOwner,
  Refused <- RefusedRows, Stuck <- {}, BatchSize <- SweepBatch, MaxKills <- SweepKills

-----------------------------------------------------------------------------
ASSUME InstancesAssumption ==
  /\ Drift!DriftAssumption /\ Chunks!ChunkAssumption
  /\ Logins!ThrottleAssumption /\ Fetching!FetchAssumption
  /\ Store(Reads)!StoreAssumption /\ Reads.losses = 0 /\ Store(Power)!StoreAssumption
  /\ Sweep!SweepAssumption

Init ==
  \/ MediaInit
  \/ Launch("drift", 8, Drift!Init)
  \/ Launch("chunks", 4, Chunks!Init)
  \/ Launch("logins", 4, Logins!Init)
  \/ Launch("fetching", 12, Fetching!Init)
  \/ Launch("reads", 11, Store(Reads)!Init)
  \/ Launch("power", 11, Store(Power)!Init)
  \/ Launch("sweep", 12, Sweep!Init)

Next ==
  \/ MediaNext
  \/ Step("drift", 8, Drift!Next)
  \/ Step("chunks", 4, Chunks!Next)
  \/ Step("logins", 4, Logins!Next)
  \/ Step("fetching", 12, Fetching!Next)
  \/ Step("reads", 11, Store(Reads)!Next)
  \/ Step("power", 11, Store(Power)!Next)
  \/ Step("sweep", 12, Sweep!Next)

Spec == Init /\ [][Next]_all

-----------------------------------------------------------------------------
(* Properties *)

(* Words lie in order in their segment and say all its tokens say, whatever times *)
(* a back end writes; retries replace whole windows, and the records count the    *)
(* words the result has; a text is spoken to its last token, in calls of bounded  *)
(* length (whispercpp_segment_words, parakeet_payload_words, run_drift_check,     *)
(* splice_words, build_token_chunks).                                             *)
WordsAreKept ==
  /\ running = "tokens" =>
       Tokens!TypeOK /\ Tokens!WordsInOrder /\ Tokens!NothingLost /\ Tokens!SameCut
  /\ running = "drift" =>
       /\ Drift!TypeOK /\ Drift!EveryTokenInOneWord /\ Drift!RecordsCountWords
       /\ Drift!NoMixedWindow /\ Drift!ResultInOrder
  /\ running = "chunks" =>
       /\ Chunks!TypeOK /\ Chunks!NothingLost /\ Chunks!SentencesSpaced
       /\ Chunks!ShortSentencesWhole /\ Chunks!NoNeedlessCall

(* However many sign-ins arrive at once and however slow their checks are, a key  *)
(* spends no more than its budget; and whatever redirects and name servers        *)
(* answer, a fetch is connected to checked peers only, uses whole bodies only and *)
(* leaves nothing when it fails (reserve_attempt, _guarded_create_connection).    *)
GuardsHold ==
  /\ running = "logins" => Logins!TypeOK /\ Logins!ChecksBounded /\ Logins!FailuresOfTheWindow
  /\ running = "fetching" =>
       /\ Fetching!TypeOK /\ Fetching!PeersAreChecked /\ Fetching!NothingCutOff
       /\ Fetching!FailureLeavesNothing

(* Puts, reads and deletes of the filesystem store are those of an object store:  *)
(* whatever replaces or deletes an object, a reader has one version and all of it *)
(* (FileSystemArtifactStore.put, open).                                           *)
StoreIsAtomic ==
  /\ running = "reads" => Store(Reads)!Abstract!Init
  /\ [][running = "reads" => Store(Reads)!ObjectStoreStep /\ Store(Reads)!ReadsOneVersion']_all

(* There is no torn object under any key, not even after the power has come back, *)
(* and temporary files are left only by processes that were cut down.             *)
NoTornObject ==
  /\ running = "power" => Store(Power)!NoTornObject
  /\ running = "reads" => Store(Reads)!TypeOK /\ Store(Reads)!NoTempLeft

(* If nothing happens in between and no store fails, a run deletes just what the  *)
(* dry run before it listed (--dry-run, "List what would be deleted without       *)
(* deleting anything").                                                           *)
DryRunPredicts == running = "sweep" => Sweep!DryRunPredicts

(* What no step does: report a cancellation as a lack of back ends, answer a call *)
(* that was cancelled, call a window untranscribable when the model was replaced, *)
(* move a word's end back, speak with a voice that was replaced before it was     *)
(* asked for, give up a reservation of a running check, or repeat a fetch that    *)
(* another try cannot fix.                                                        *)
StepsStayHonest ==
  [][/\ running = "chains" => Chains!CancelIsNoLackOfBackends
     /\ running = "tokens" => Tokens!EndsOnlyGrow
     /\ running = "windows" => Windows!GapsAreFailedClips /\ Windows!CancelledNotAnswered
     /\ running = "piper" => Voices(Piper)!NeverStale
     /\ running = "kokoro" => Voices(Kokoro)!NeverStale
     /\ running = "logins" => Logins!ReservationsHeld
     /\ running = "fetching" => Fetching!OnlyTransientRetried]_all

=============================================================================
