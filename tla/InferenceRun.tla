----------------------------- MODULE InferenceRun -----------------------------
(***************************************************************************)
(* One process that transcribes (transcriptions/service.py): every call    *)
(* waits for admission to its lane, tries the back ends of its chain one   *)
(* after the other and runs each as a child process, under the lock of     *)
(* this process, or through the WhisperKit server.  A caller may cancel;   *)
(* children may fail, hang, or ignore SIGTERM.                             *)
(***************************************************************************)
EXTENDS Naturals, FiniteSets, Sequences

CONSTANTS
  Call,          \* calls of transcribe_audio, one thread each
  Asked,         \* what the calls may ask for: "auto", a configured model, or another name
  Words,         \* calls that ask for word timings
  Supported,     \* calls whose language Parakeet supports, or that name none
  Cancellable,   \* calls with a cancel_event
  SttBackend, Fallback, KnownSpeakerBackend,   \* settings
  Slots          \* how many calls the lanes admit at a time

Backends == {"mlx", "whispercpp", "whisperkit", "parakeet"}
Requests == {"auto", "whisperkit", "mlx-model", "whispercpp-model", "other"}

(* What an instance may give the constants. *)
InferenceAssumption ==
  /\ Asked \subseteq [Call -> Requests]
  /\ Words \subseteq Call /\ Supported \subseteq Call /\ Cancellable \subseteq Call
  /\ SttBackend \in Backends \ {"parakeet"} /\ Fallback \in Backends \cup {"none"}
  /\ KnownSpeakerBackend \in {"none", "parakeet"}
  /\ Slots \in Nat \ {0}

VARIABLES
  at,         \* where a call is
  turn,       \* the position in its chain
  cancelled,  \* calls whose cancel_event is set
  child,      \* the child process of a call
  overdue,    \* calls whose child has run past its time limit
  lock,       \* holders of _MLX_LOCK
  refused,    \* back ends that were unavailable to a call
  broke,      \* calls a back end has failed for
  request     \* the model each call asks for

vars == <<at, turn, cancelled, child, overdue, lock, refused, broke, request>>

Ends == {"done", "failed", "cancelled", "unavailable"}
Inside == {"next", "prepare", "child", "stopping", "lock", "compute", "request"}

TypeOK ==
  /\ at \in [Call -> {"idle", "queue"} \cup Inside \cup Ends]
  /\ turn \in [Call -> 1 .. 5]
  /\ request \in [Call -> Requests]
  /\ cancelled \subseteq Cancellable
  /\ child \in [Call -> {"none", "works", "hangs", "stubborn"}]
  /\ \A c \in Call : at[c] \in {"child", "stopping"} <=> child[c] # "none"
  /\ overdue \subseteq Call /\ lock \subseteq Call /\ broke \subseteq Call
  /\ refused \in [Call -> SUBSET Backends]

Init ==
  /\ at = [c \in Call |-> "idle"]
  /\ turn = [c \in Call |-> 1]
  /\ cancelled = {} /\ overdue = {} /\ lock = {} /\ broke = {}
  /\ child = [c \in Call |-> "none"]
  /\ refused = [c \in Call |-> {}]
  /\ request \in Asked

-----------------------------------------------------------------------------
(* Which back ends a call tries *)

(* resolve_backend_name_for_model *)
Primary(model) ==
  CASE model = "whisperkit" -> "whisperkit"
    [] model = "mlx-model" -> "mlx"
    [] model = "whispercpp-model" -> "whispercpp"
    [] OTHER -> SttBackend

(* get_backend_services_for_model *)
ModelChain(model) ==
  <<Primary(model)>>
    \o (IF model = "auto" /\ Fallback \notin {"none", Primary(model)} THEN <<Fallback>> ELSE <<>>)

Added(chain, name) ==
  IF name = "none" \/ (\E i \in DOMAIN chain : chain[i] = name) THEN chain ELSE Append(chain, name)

(* known_speaker_backend_chain *)
WordChain(c) ==
  LET first == Added(<<>>, IF c \in Supported THEN "parakeet" ELSE "none")
  IN  Added(Added(Added(first, "whispercpp"), SttBackend), Fallback)

(* get_backend_services_for_params *)
Chain(c) ==
  IF c \in Words /\ KnownSpeakerBackend = "parakeet" /\ request[c] = "auto"
  THEN WordChain(c) ELSE ModelChain(request[c])

Backend(c) == Chain(c)[turn[c]]

-----------------------------------------------------------------------------
Goto(c, label) == at' = [at EXCEPT ![c] = label]

Admitted == {c \in Call : at[c] \in Inside}

Begin(c) ==
  /\ at[c] = "idle"
  /\ Goto(c, "queue")
  /\ UNCHANGED <<turn, request, cancelled, child, overdue, lock, refused, broke>>

(* admit_local_inference; the lanes are those of module LaneScheduler. *)
Admit(c) ==
  /\ at[c] = "queue"
  /\ IF c \in cancelled THEN Goto(c, "cancelled")
     ELSE Cardinality(Admitted) < Slots /\ Goto(c, "next")
  /\ UNCHANGED <<turn, request, cancelled, child, overdue, lock, refused, broke>>

Cancel(c) ==
  /\ c \in Cancellable \ cancelled /\ at[c] \notin {"idle"} \cup Ends
  /\ cancelled' = cancelled \cup {c}
  /\ UNCHANGED <<at, turn, request, child, overdue, lock, refused, broke>>

(* Variant with a fault, for comparison only: after the last back end nobody looks for a cancel. *)
TryNextBlindly(c) ==
  /\ at[c] = "next"
  /\ CASE turn[c] > Len(Chain(c)) -> Goto(c, "unavailable")
       [] c \in cancelled -> Goto(c, "cancelled")
       [] OTHER -> Goto(c, "prepare")
  /\ UNCHANGED <<turn, request, cancelled, child, overdue, lock, refused, broke>>

(* The loop over the chain; a cancel is noticed before each back end and after the last. *)
TryNext(c) ==
  /\ at[c] = "next"
  /\ Goto(c, IF c \in cancelled THEN "cancelled"
             ELSE IF turn[c] > Len(Chain(c)) THEN "unavailable" ELSE "prepare")
  /\ UNCHANGED <<turn, request, cancelled, child, overdue, lock, refused, broke>>

(* BackendUnavailableError: on to the next of the chain. *)
Skip(c) ==
  /\ Goto(c, "next")
  /\ turn' = [turn EXCEPT ![c] = @ + 1]
  /\ refused' = [refused EXCEPT ![c] = @ \cup {Backend(c)}]
  /\ UNCHANGED broke

(* Any other error ends the call. *)
Fail(c) ==
  /\ Goto(c, "failed")
  /\ broke' = broke \cup {c}
  /\ UNCHANGED <<turn, refused>>

Succeed(c) == Goto(c, "done") /\ UNCHANGED <<turn, refused, broke>>

Unavailable(c) == Skip(c) /\ UNCHANGED <<request, cancelled, child, overdue, lock>>

(* mlx-whisper is not installed. *)
MlxMissing(c) == at[c] = "prepare" /\ Backend(c) = "mlx" /\ Unavailable(c)

(* No binary, or no such model. *)
WhisperCppMissing(c) == at[c] = "prepare" /\ Backend(c) = "whispercpp" /\ Unavailable(c)

(* Not configured, incomplete, or a language it does not know. *)
ParakeetMissing(c) == at[c] = "prepare" /\ Backend(c) = "parakeet" /\ Unavailable(c)

(* Disabled, or out of reach while it was asked. *)
WhisperKitMissing(c) ==
  at[c] \in {"prepare", "request"} /\ Backend(c) = "whisperkit" /\ Unavailable(c)

(* Decoding to 16 kHz fails or exceeds its deadline. *)
DecodeFails(c) ==
  /\ at[c] = "prepare" /\ Backend(c) \in {"whispercpp", "parakeet"}
  /\ Fail(c)
  /\ UNCHANGED <<request, cancelled, child, overdue, lock>>

-----------------------------------------------------------------------------
(* run_cancellable_process *)

StartChild(c) ==
  /\ IF c \in cancelled
     THEN Goto(c, "cancelled") /\ UNCHANGED child
     ELSE Goto(c, "child") /\ \E kind \in {"works", "hangs", "stubborn"} : child' = [child EXCEPT ![c] = kind]
  /\ UNCHANGED <<turn, request, cancelled, overdue, lock, refused, broke>>

WhisperCpp(c) == at[c] = "prepare" /\ Backend(c) = "whispercpp" /\ StartChild(c)

Parakeet(c) == at[c] = "prepare" /\ Backend(c) = "parakeet" /\ c \in Supported /\ StartChild(c)

(* The child exits by itself: with a transcript, or without one, or with an error. *)
ChildExits(c) ==
  /\ at[c] = "child" /\ child[c] = "works"
  /\ child' = [child EXCEPT ![c] = "none"]
  /\ overdue' = overdue \ {c}
  /\ Succeed(c) \/ Fail(c)
  /\ UNCHANGED <<request, cancelled, lock>>

RunOver(c) ==
  /\ at[c] = "child" /\ Backend(c) = "parakeet" /\ c \notin overdue
  /\ overdue' = overdue \cup {c}
  /\ UNCHANGED <<at, turn, request, cancelled, child, lock, refused, broke>>

(* The poll finds a cancel, or else the deadline passed: SIGTERM. *)
StopChild(c) ==
  /\ at[c] = "child" /\ (c \in cancelled \/ c \in overdue)
  /\ Goto(c, "stopping")
  /\ UNCHANGED <<turn, request, cancelled, child, overdue, lock, refused, broke>>

(* Variant with a fault, for comparison only: who was asked to stop is not waited for. *)
ChildLeftAlone(c) ==
  /\ at[c] = "stopping"
  /\ child' = [child EXCEPT ![c] = IF @ = "stubborn" THEN @ ELSE "none"]
  /\ overdue' = overdue \ {c}
  /\ IF c \in cancelled THEN Goto(c, "cancelled") /\ UNCHANGED <<turn, refused, broke>> ELSE Fail(c)
  /\ UNCHANGED <<request, cancelled, lock>>

(* It has exited, or was killed after the grace period; it is reaped in both cases.  *)
(* Which exception follows was decided by the poll: the cancel comes first.           *)
ChildStopped(c) ==
  /\ at[c] = "stopping"
  /\ child' = [child EXCEPT ![c] = "none"]
  /\ overdue' = overdue \ {c}
  /\ \/ c \in cancelled /\ Goto(c, "cancelled") /\ UNCHANGED <<turn, refused, broke>>
     \/ c \in overdue /\ Fail(c)
  /\ UNCHANGED <<request, cancelled, lock>>

(* Whatever else is raised while the child runs kills it. *)
CallBreaks(c) ==
  /\ at[c] \in {"child", "stopping"}
  /\ child' = [child EXCEPT ![c] = "none"]
  /\ overdue' = overdue \ {c}
  /\ Fail(c)
  /\ UNCHANGED <<request, cancelled, lock>>

-----------------------------------------------------------------------------
(* MlxWhisperBackend, WhisperKitBackend *)

Approach(c) ==
  /\ at[c] = "prepare" /\ Backend(c) \in {"mlx", "whisperkit"}
  /\ Goto(c, IF Backend(c) = "mlx" THEN "lock" ELSE "request")
  /\ UNCHANGED <<turn, request, cancelled, child, overdue, lock, refused, broke>>

(* with _MLX_LOCK: the wait cannot be cancelled, but a cancel is noticed after it. *)
TakeLock(c) ==
  /\ at[c] = "lock" /\ lock = {}
  /\ IF c \in cancelled THEN Goto(c, "cancelled") /\ UNCHANGED lock
     ELSE Goto(c, "compute") /\ lock' = lock \cup {c}
  /\ UNCHANGED <<turn, request, cancelled, child, overdue, refused, broke>>

Computed(c) ==
  /\ at[c] = "compute"
  /\ lock' = lock \ {c}
  /\ Succeed(c) \/ Fail(c)
  /\ UNCHANGED <<request, cancelled, child, overdue>>

(* The server answers, with a transcript or an error; being out of reach is Unavailable. *)
Answered(c) ==
  /\ at[c] = "request"
  /\ Succeed(c) \/ Fail(c)
  /\ UNCHANGED <<request, cancelled, child, overdue, lock>>

Progress(c) ==
  \/ Admit(c) \/ TryNext(c) \/ WhisperCpp(c) \/ Parakeet(c) \/ Approach(c)
  \/ ChildExits(c) \/ StopChild(c) \/ ChildStopped(c)
  \/ TakeLock(c) \/ Computed(c) \/ Answered(c)

Next ==
  \E c \in Call :
    \/ Begin(c) \/ Cancel(c) \/ Progress(c) \/ DecodeFails(c)
    \/ MlxMissing(c) \/ WhisperCppMissing(c) \/ ParakeetMissing(c) \/ WhisperKitMissing(c)
    \/ RunOver(c) \/ CallBreaks(c)

Spec == Init /\ [][Next]_vars

-----------------------------------------------------------------------------
(* Properties *)

(* "The child must never outlive this call, whatever went wrong": cancel, time   *)
(* limit, a stubborn child or an error while it runs.                            *)
NoChildLeft == \A c \in Call : at[c] \in Ends \cup {"next"} => child[c] = "none"

(* Another back end is only tried when the one before it is unavailable: a       *)
(* failure stays visible instead of silently switching back ends, and a request  *)
(* for one model is never served by another.                                     *)
NoSilentSwitch ==
  \A c \in Call : at[c] = "done" =>
    /\ c \notin broke
    /\ \A i \in 1 .. turn[c] - 1 : Chain(c)[i] \in refused[c]
    /\ request[c] \in {"whisperkit", "mlx-model", "whispercpp-model"} => turn[c] = 1

(* The model state in this process is used by one thread at a time (_MLX_LOCK),  *)
(* although the lanes admit several calls, and nobody keeps the lock.            *)
OneComputesAtATime ==
  /\ lock = {c \in Call : at[c] = "compute"}
  /\ \A c, d \in lock : c = d

(* A cancellation that arrived while the last back end ran surfaces as such,     *)
(* never as a lack of back ends.                                                 *)
CancelIsNoLackOfBackends ==
  \A c \in cancelled : at'[c] = "unavailable" => at[c] = "unavailable"

(* What has to end (MCEnds): a cancelled call, even if its child hangs or ignores *)
(* SIGTERM, and one whose child has a time limit.                                 *)
MustEnd(c) == c \in cancelled \/ (at[c] = "child" /\ Backend(c) = "parakeet")

-----------------------------------------------------------------------------
(* What every step preserves *)

(* A call that tries a back end, or was served by one, is at a place in its chain. *)
WithinChain ==
  \A c \in Call :
    /\ turn[c] <= Len(Chain(c)) + 1
    /\ at[c] \in (Inside \ {"next"}) \cup {"done"} => turn[c] <= Len(Chain(c))

(* What came before that place was unavailable. *)
RefusedBefore == \A c \in Call : \A i \in 1 .. turn[c] - 1 : Chain(c)[i] \in refused[c]

BrokenFailed == \A c \in broke : at[c] = "failed"

IInv ==
  TypeOK /\ WithinChain /\ RefusedBefore /\ BrokenFailed /\ NoChildLeft /\ NoSilentSwitch
    /\ OneComputesAtATime

=============================================================================
