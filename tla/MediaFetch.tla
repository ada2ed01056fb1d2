------------------------------ MODULE MediaFetch ------------------------------
(***************************************************************************)
(* Fetching the media of a batch job (jobs/media.py): a URL is looked up,  *)
(* connected to and read within an elapsed budget, through redirects, and  *)
(* tried again after a failure another try may fix; the audio of a video   *)
(* is then taken out by ffmpeg.  An upload is copied instead.              *)
(***************************************************************************)
EXTENDS Naturals, FiniteSets

CONSTANTS
  Urls,           \* what a request or a redirect may name
  AllowedUrls,    \* those validate_allowed_media_url accepts
  PrivateUrls,    \* those whose host may resolve to a private address
  MaxRedirects,   \* MAX_URL_REDIRECTS
  MaxBytes,       \* the download limit, in chunks
  Lengths,        \* what a response announces as Content-Length; Unknown when nothing
  Unknown,
  Budget,         \* elapsed budget of one try, in ticks
  Attempts        \* VOXHELM_BATCH_URL_FETCH_ATTEMPTS

(* What an instance may give the constants. *)
FetchAssumption ==
  /\ AllowedUrls \subseteq Urls /\ PrivateUrls \subseteq Urls
  /\ MaxRedirects \in Nat /\ MaxBytes \in Nat /\ Budget \in Nat \ {0} /\ Attempts \in Nat \ {0}
  /\ Lengths \subseteq Nat \cup {Unknown} /\ Unknown \notin Nat

(* Classes of addresses: global, otherwise not global, and never to be connected to. *)
Addresses == {"public", "private", "blocked"}

VARIABLES
  at,         \* where the fetch is
  source,     \* the URL asked for
  url, hops,  \* the URL of this hop and how many redirects led to it
  found,      \* the addresses the name was resolved to and validated for
  peer,       \* the address of the open connection, None when there is none
  expected,   \* its Content-Length
  total,      \* chunks written
  temps,      \* temporary files: the media and the audio taken out of it
  spent,      \* ticks of the try's budget
  try,
  failure     \* how the last try failed: "none", "transient" or "final"

None == "none"

vars == <<at, source, url, hops, found, peer, expected, total, temps, spent, try, failure>>
request == <<source, url, hops>>
body == <<expected, total>>

TypeOK ==
  /\ at \in {"start", "resolve", "connect", "respond", "body", "sleep", "fetched", "extract", "copy", "ready", "failed"}
  /\ source \in Urls /\ url \in Urls /\ hops \in 0 .. MaxRedirects
  /\ found \subseteq Addresses /\ peer \in Addresses \cup {None}
  /\ expected \in Lengths \cup {Unknown} /\ total \in 0 .. MaxBytes
  /\ temps \subseteq {"media", "audio"}
  /\ spent \in 0 .. Budget /\ try \in 1 .. Attempts
  /\ failure \in {"none", "transient", "final"}
  /\ peer # None <=> at \in {"respond", "body"}

Init ==
  /\ at \in {"start", "copy"} /\ source \in Urls /\ url = source /\ hops = 0
  /\ found = {} /\ peer = None /\ expected = Unknown /\ total = 0
  /\ temps = IF at = "copy" THEN {"media"} ELSE {}
  /\ spent = 0 /\ try = 1 /\ failure = "none"

-----------------------------------------------------------------------------
Networking == {"resolve", "connect", "respond", "body"}
InBudget == spent < Budget

Goto(place) == at' = place /\ UNCHANGED <<try, failure>>

(* The except clauses and the finally clause of a try: the file and the sockets go; the *)
(* loop of download_allowed_media tries again or gives up.                               *)
EndTry(how) ==
  /\ failure' = how /\ peer' = None /\ temps' = {}
  /\ at' = IF how = "transient" /\ try < Attempts THEN "sleep" ELSE "failed"
  /\ UNCHANGED <<request, found, body, spent, try>>

Retry ==
  /\ at = "sleep"
  /\ at' = "start" /\ try' = try + 1
  /\ hops' = 0 /\ found' = {} /\ expected' = Unknown /\ total' = 0 /\ spent' = 0
  /\ url' = source
  /\ UNCHANGED <<source, peer, temps, failure>>

Start ==
  /\ at = "start"
  /\ IF url \in AllowedUrls
     THEN Goto("resolve") /\ UNCHANGED <<request, found, peer, body, temps, spent>>
     ELSE EndTry("final")

(* validate_resolved_address *)
Acceptable(address) == address = "public" \/ (address = "private" /\ url \in PrivateUrls)

(* _resolve_with_deadline: every address the name has now must be acceptable. *)
Resolved(addresses) ==
  /\ at = "resolve" /\ InBudget
  /\ IF addresses # {} /\ \A a \in addresses : Acceptable(a)
     THEN Goto("connect") /\ found' = addresses /\ UNCHANGED <<request, peer, body, temps, spent>>
     ELSE EndTry("final")

(* _guarded_create_connection connects to exactly what it has validated. *)
Connected(address) ==
  /\ at = "connect" /\ InBudget /\ address \in found
  /\ peer' = address /\ Goto("respond")
  /\ UNCHANGED <<request, found, body, temps, spent>>

(* _AllowlistRedirectHandler *)
Redirected(target) ==
  /\ at = "respond" /\ InBudget
  /\ IF hops = MaxRedirects \/ target \notin AllowedUrls THEN EndTry("final")
     ELSE /\ url' = target /\ hops' = hops + 1 /\ peer' = None /\ found' = {}
          /\ Goto("resolve") /\ UNCHANGED <<source, body, temps, spent>>

(* A refused connection or lookup, a reset, a 5xx; a bad certificate or a 4xx is final. *)
NetworkFails(how) == at \in Networking /\ InBudget /\ EndTry(how)

(* A response with a body of a type the job can use, or of another. *)
Answered(supported, length) ==
  /\ at = "respond" /\ InBudget
  /\ IF ~supported THEN EndTry("final")
     ELSE /\ expected' = length /\ temps' = {"media"} /\ Goto("body")
          /\ UNCHANGED <<request, found, peer, total, spent>>

Chunk ==
  /\ at = "body" /\ InBudget
  /\ IF total = MaxBytes THEN EndTry("final")
     ELSE total' = total + 1 /\ Goto("body") /\ UNCHANGED <<request, found, peer, expected, temps, spent>>

(* read1 reports a connection that was closed early as the end of the body. *)
BodyEnds ==
  /\ at = "body" /\ InBudget
  /\ IF expected # Unknown /\ total < expected THEN EndTry("transient")
     ELSE peer' = None /\ Goto("fetched") /\ UNCHANGED <<request, found, body, temps, spent>>

(* The timer shuts the sockets down and remaining() raises; a resolver may go on unheard. *)
OutOfTime == at \in Networking /\ ~InBudget /\ EndTry("transient")

Tick == at \in Networking /\ InBudget /\ spent' = spent + 1 /\ UNCHANGED <<at, request, found, peer, body, temps, try, failure>>

-----------------------------------------------------------------------------
(* write_uploaded_media_to_tempfile: the copy may break. *)
Copied(whole) ==
  /\ at = "copy"
  /\ IF whole THEN Goto("fetched") /\ UNCHANGED temps
     ELSE at' = "failed" /\ failure' = "final" /\ temps' = {} /\ UNCHANGED try
  /\ UNCHANGED <<request, found, peer, body, spent>>

UseMedia(video) ==
  /\ at = "fetched"
  /\ IF video THEN Goto("extract") /\ temps' = temps \cup {"audio"} ELSE Goto("ready") /\ UNCHANGED temps
  /\ UNCHANGED <<request, found, peer, body, spent>>

(* extract_audio_from_video ends; a failure and the time limit take the output with them. *)
(* The caller owns the media and removes it.                                               *)
Extracted(well) ==
  /\ at = "extract"
  /\ IF well THEN Goto("ready") /\ UNCHANGED temps
     ELSE at' = "failed" /\ failure' = "final" /\ temps' = {} /\ UNCHANGED try
  /\ UNCHANGED <<request, found, peer, body, spent>>

Own ==
  \/ Start \/ OutOfTime \/ Retry
  \/ \E whole \in BOOLEAN : Copied(whole)
  \/ \E video \in BOOLEAN : UseMedia(video)
  \/ \E well \in BOOLEAN : Extracted(well)

Others ==
  \/ \E addresses \in SUBSET Addresses : Resolved(addresses)
  \/ \E address \in Addresses : Connected(address)
  \/ \E target \in Urls : Redirected(target)
  \/ \E how \in {"transient", "final"} : NetworkFails(how)
  \/ \E supported \in BOOLEAN, length \in Lengths : Answered(supported, length)
  \/ Chunk \/ BodyEnds

Next == Own \/ Others \/ Tick

Spec == Init /\ [][Next]_vars

-----------------------------------------------------------------------------
(* Properties *)

(* Whatever redirects and name servers answer, and however they change their minds, a   *)
(* connection is open only to an address acceptable for the host of an allowed URL.       *)
PeersAreChecked ==
  peer # None => /\ url \in AllowedUrls /\ peer # "blocked"
                 /\ peer = "private" => url \in PrivateUrls

(* Media that is used is all of what was announced, and no more than the limit. *)
NothingCutOff ==
  at \in {"fetched", "extract", "ready"} /\ expected # Unknown => total >= expected

(* A fetch that fails leaves no file, and between two tries there is none, nor a socket. *)
FailureLeavesNothing == at \in {"failed", "sleep", "start"} => temps = {} /\ peer = None

(* Another try is made only of what another try may fix, and never one too many. *)
OnlyTransientRetried == try' > try => failure = "transient" /\ try < Attempts

-----------------------------------------------------------------------------
(* What every step preserves *)

(* The addresses that a connection is going to, and the one it is open to, were checked *)
(* for the host of an allowed URL.                                                        *)
Checked ==
  /\ at \in Networking => url \in AllowedUrls
  /\ at \in {"connect", "respond", "body"} => \A a \in found : Acceptable(a)
  /\ peer # None => peer \in found

(* Before a try, and while it has no body, there are no files. *)
FilesOfPlace ==
  /\ at \in {"start", "resolve", "connect", "respond", "sleep", "failed"} => temps = {}
  /\ at = "sleep" => failure = "transient" /\ try < Attempts
  /\ at = "copy" => expected = Unknown

IInv ==
  /\ TypeOK /\ Checked /\ FilesOfPlace
  /\ PeersAreChecked /\ NothingCutOff /\ FailureLeavesNothing

=============================================================================
