------------------------------- MODULE Wyoming -------------------------------
(***************************************************************************)
(* One connection of the Wyoming sidecar (transcriptions/wyoming.py): the  *)
(* bounded reader, the event handler with its audio buffer, and the calls  *)
(* into transcription and synthesis, which run in a thread while the       *)
(* connection reads nothing.  Byte counts stand for the bytes.             *)
(***************************************************************************)
EXTENDS Integers, Sequences

CONSTANTS
  Malformed,       \* what a client may write for a length that is none
  Lengths,         \* the lengths a client may declare
  MaxData, MaxPayload, MaxAudio, MaxChars,   \* the limits of the configuration
  Widening,        \* how much conversion to 16 kHz, 16 bit, mono may enlarge a chunk
  MaxSpeech,       \* bound on the frames of synthesized audio
  FramesPerChunk,
  MaxEvents        \* bound on the events of a connection

(* What an instance may give the constants. *)
WyomingAssumption ==
  /\ Lengths \subseteq Nat /\ Malformed \notin Lengths
  /\ {MaxData, MaxPayload, MaxAudio, FramesPerChunk} \subseteq Nat \ {0}
  /\ {MaxChars, MaxSpeech, MaxEvents} \subseteq Nat
  /\ Widening \subseteq Nat

Kinds == {"describe", "synthesize", "transcribe", "audio-start", "audio-chunk", "audio-stop", "unknown"}

(* An event as the client writes it; what = "line" is a header that is no header.  An *)
(* event that is not accepted is of no kind in particular, only speech has data that  *)
(* matters, and only a chunk has a payload.                                            *)
Written ==
  [what : {"line", "event"}, kind : {"unknown"}, data : Lengths \cup {Malformed},
   payload : Lengths \cup {Malformed}, body : {"whole", "cut", "not_json"}]
  \cup [what : {"event"}, kind : Kinds, data : {0}, payload : {0}, body : {"whole"}]
  \cup [what : {"event"}, kind : {"synthesize"}, data : Lengths, payload : {0}, body : {"whole"}]
  \cup [what : {"event"}, kind : {"audio-chunk"}, data : {0}, payload : Lengths, body : {"whole"}]

VARIABLES
  phase,      \* "reading", "transcribing", "synthesizing", "speaking" or "closed"
  client,     \* whether the client is still there
  cancelled,  \* the server was stopped during a call
  held,       \* bytes of the event that is being handled
  buffer,     \* the converted audio since the last reset: how far each chunk reaches
  language,   \* what the last Transcribe asked for, a number
  using,      \* audio and language of the call that runs
  frames,     \* frames of speech that are still to be sent
  temps,      \* temporary files: "stt", "tts"
  sent,       \* what the client was sent
  count, heard \* number of events; chunks and language as the client sees them

vars == <<phase, client, cancelled, held, buffer, language, using, frames, temps, sent, count, heard>>

(* The bytes of a buffer: where its last chunk ends. *)
Size(audio) == IF audio = <<>> THEN 0 ELSE audio[Len(audio)]

Idle == [audio |-> <<>>, language |-> 0]

TypeOK ==
  /\ phase \in {"reading", "transcribing", "synthesizing", "speaking", "closed"}
  /\ temps \subseteq {"stt", "tts"}
  /\ (phase = "transcribing") <=> ("stt" \in temps /\ ~cancelled)
  /\ (phase = "speaking") => "tts" \in temps
  /\ frames \in 0 .. MaxSpeech /\ count \in 0 .. MaxEvents

Init ==
  /\ phase = "reading" /\ client = TRUE /\ cancelled = FALSE
  /\ held = 0 /\ buffer = <<>> /\ language = 0 /\ using = Idle
  /\ frames = 0 /\ temps = {} /\ sent = <<>> /\ count = 0 /\ heard = Idle

-----------------------------------------------------------------------------
(* read_bounded_event *)

(* _declared_length *)
Declared(value, limit) == value # Malformed /\ value <= limit

(* What comes of an event, and how much of its body was read for it. *)
ReadEvent(e) ==
  IF e.what = "line" \/ ~Declared(e.data, MaxData) \/ ~Declared(e.payload, MaxPayload)
  THEN [result |-> "rejected", bytes |-> 0]
  ELSE IF e.body = "cut" THEN [result |-> "closed", bytes |-> e.data + e.payload]
  ELSE IF e.body = "not_json" /\ e.data > 0 THEN [result |-> "rejected", bytes |-> e.data]
  ELSE [result |-> "event", bytes |-> e.data + e.payload]

(* Sending to a client that has left raises, and run() closes the connection. *)
Reply(events, then) ==
  IF client THEN sent' = sent \o events /\ phase' = then
  ELSE sent' = sent /\ phase' = "closed"

Error == <<"error">>

Receive(e) ==
  /\ phase = "reading" /\ client /\ count < MaxEvents
  /\ count' = count + 1
  /\ held' = ReadEvent(e).bytes

Refuse(e) ==
  /\ Receive(e) /\ ReadEvent(e).result = "rejected"
  /\ Reply(Error, "closed")
  /\ UNCHANGED <<client, cancelled, buffer, language, using, frames, temps, heard>>

Cut(e) ==
  /\ Receive(e) /\ ReadEvent(e).result = "closed"
  /\ phase' = "closed" /\ client' = FALSE
  /\ UNCHANGED <<cancelled, buffer, language, using, frames, temps, sent, heard>>

Accept(e, kind) == Receive(e) /\ ReadEvent(e).result = "event" /\ e.kind = kind

(* The client goes away between two events. *)
Disconnect ==
  /\ client /\ phase # "closed"
  /\ client' = FALSE
  /\ phase' = IF phase = "reading" THEN "closed" ELSE phase
  /\ UNCHANGED <<cancelled, held, buffer, language, using, frames, temps, sent, count, heard>>

-----------------------------------------------------------------------------
(* handle_event *)

DescribeOrUnknown(e) ==
  /\ \/ Accept(e, "describe") /\ Reply(<<"info">>, "reading")
     \/ Accept(e, "unknown") /\ UNCHANGED <<sent, phase>>
  /\ UNCHANGED <<client, cancelled, buffer, language, using, frames, temps, heard>>

(* from_event raises for want of a field: run() closes the connection without an answer. *)
Unusable(e) ==
  /\ \E kind \in {"audio-start", "audio-chunk", "synthesize"} : Accept(e, kind)
  /\ phase' = "closed"
  /\ UNCHANGED <<client, cancelled, buffer, language, using, frames, temps, sent, heard>>

(* Variant with a fault, for comparison only: audio of an earlier request stays in the buffer. *)
TranscribeKeepsAudio(e, l) ==
  /\ Accept(e, "transcribe")
  /\ language' = l
  /\ heard' = [audio |-> <<>>, language |-> l]
  /\ UNCHANGED <<phase, client, cancelled, buffer, using, frames, temps, sent>>

(* A new request: model and language of its own or the default, an empty buffer. *)
Transcribe(e, l) ==
  /\ Accept(e, "transcribe")
  /\ language' = l
  /\ buffer' = <<>>
  /\ heard' = [audio |-> <<>>, language |-> l]
  /\ UNCHANGED <<phase, client, cancelled, using, frames, temps, sent>>

AudioStart(e) ==
  /\ Accept(e, "audio-start")
  /\ buffer' = <<>>
  /\ heard' = [heard EXCEPT !.audio = <<>>]
  /\ UNCHANGED <<phase, client, cancelled, language, using, frames, temps, sent>>

AudioChunk(e, w) ==
  LET size == e.payload * w IN
  /\ Accept(e, "audio-chunk")
  /\ IF Size(buffer) + size > MaxAudio
     THEN buffer' = <<>> /\ heard' = heard /\ Reply(Error, "closed")
     ELSE /\ buffer' = Append(buffer, Size(buffer) + size)
          /\ heard' = [heard EXCEPT !.audio = Append(@, Size(@) + size)]
          /\ UNCHANGED <<sent, phase>>
  /\ UNCHANGED <<client, cancelled, language, using, frames, temps>>

AudioStop(e) ==
  /\ Accept(e, "audio-stop")
  /\ IF Size(buffer) = 0
     THEN Reply(Error, "closed") /\ UNCHANGED <<using, temps>>
     ELSE /\ phase' = "transcribing"
          /\ using' = [audio |-> buffer, language |-> language]
          /\ temps' = temps \cup {"stt"}
          /\ UNCHANGED sent
  /\ UNCHANGED <<client, cancelled, buffer, language, frames, heard>>

(* The call returns or raises; the thread has removed its file; the connection ends. *)
TranscriptionEnds(ok) ==
  /\ phase = "transcribing"
  /\ temps' = temps \ {"stt"}
  /\ Reply(IF ok THEN <<"transcript">> ELSE Error, "closed")
  /\ UNCHANGED <<client, cancelled, held, buffer, language, using, frames, count, heard>>

Synthesize(e) ==
  /\ Accept(e, "synthesize")
  /\ IF e.data > MaxChars THEN Reply(Error, "closed")
     ELSE phase' = "synthesizing" /\ UNCHANGED sent
  /\ UNCHANGED <<client, cancelled, buffer, language, using, frames, temps, heard>>

(* synthesize_text cleans up after itself when it raises; a client may try again. *)
SynthesisFails ==
  /\ phase = "synthesizing"
  /\ Reply(Error, "reading")
  /\ UNCHANGED <<client, cancelled, held, buffer, language, using, frames, temps, count, heard>>

(* The file is there; if the client is not, sending fails and the file is removed. *)
SpeechReady(n) ==
  /\ phase = "synthesizing"
  /\ Reply(<<"start">>, "speaking")
  /\ IF client THEN frames' = n /\ temps' = temps \cup {"tts"} ELSE UNCHANGED <<frames, temps>>
  /\ UNCHANGED <<client, cancelled, held, buffer, language, using, count, heard>>

(* _write_synthesized_audio: chunk by chunk; the file goes however it ends. *)
Speak ==
  /\ phase = "speaking"
  /\ IF frames > 0 /\ client
     THEN /\ frames' = IF frames > FramesPerChunk THEN frames - FramesPerChunk ELSE 0
          /\ Reply(<<"chunk">>, "speaking")
          /\ UNCHANGED temps
     ELSE frames' = 0 /\ Reply(<<"stop">>, "reading") /\ temps' = temps \ {"tts"}
  /\ UNCHANGED <<client, cancelled, held, buffer, language, using, count, heard>>

(* The file cannot be read any further: an error follows what was already sent. *)
SpeechBreaks ==
  /\ phase = "speaking"
  /\ frames' = 0
  /\ temps' = temps \ {"tts"}
  /\ Reply(Error, "reading")
  /\ UNCHANGED <<client, cancelled, held, buffer, language, using, count, heard>>

(* The server stops: the handler is cancelled, the thread of its call runs on.  A    *)
(* transcription removes its file; nobody waits for the file of a synthesis.         *)
Cancel ==
  /\ phase # "closed"
  /\ cancelled' = TRUE /\ phase' = "closed" /\ client' = FALSE
  /\ temps' = CASE phase = "synthesizing" -> temps \cup {"tts"}
                [] phase = "speaking" -> temps \ {"tts"}
                [] OTHER -> temps
  /\ frames' = 0
  /\ UNCHANGED <<held, buffer, language, using, sent, count, heard>>

ThreadEnds ==
  /\ cancelled /\ "stt" \in temps
  /\ temps' = temps \ {"stt"}
  /\ UNCHANGED <<phase, client, cancelled, held, buffer, language, using, frames, sent, count, heard>>

Handle(e) ==
  \/ Refuse(e) \/ Cut(e) \/ Unusable(e)
  \/ DescribeOrUnknown(e) \/ AudioStart(e) \/ AudioStop(e) \/ Synthesize(e)
  \/ \E l \in {0, 1} : Transcribe(e, l)
  \/ \E w \in Widening : AudioChunk(e, w)

Serve ==
  \/ \E ok \in BOOLEAN : TranscriptionEnds(ok)
  \/ SynthesisFails \/ (\E n \in 0 .. MaxSpeech : SpeechReady(n)) \/ Speak \/ SpeechBreaks
  \/ ThreadEnds

Next == (\E e \in Written : Handle(e)) \/ Serve \/ Disconnect \/ Cancel

Spec == Init /\ [][Next]_vars

-----------------------------------------------------------------------------
(* Properties *)

(* Whatever lengths a client declares, the body of an event is only read within  *)
(* the limits, and the buffer never holds more than the configured audio         *)
(* (read_bounded_event, wyoming.py:383-385).                                     *)
MemoryBounded ==
  /\ held <= MaxData + MaxPayload
  /\ Size(buffer) <= MaxAudio

(* A transcription uses all the audio and the language since the last Transcribe *)
(* or AudioStart, and nothing of an earlier request on the connection.           *)
UsesWhatWasHeard == phase = "transcribing" => using = heard

(* A transcript is the last thing a client is sent, and after it and after an    *)
(* audio request that failed the connection is closed; speech is not mixed with  *)
(* other answers: a start is followed by chunks and one stop or one error.       *)
AnswersInOrder ==
  /\ \A i \in 1 .. Len(sent) : sent[i] = "transcript" => i = Len(sent) /\ phase = "closed"
  /\ \A i \in 1 .. Len(sent) - 1 :
       sent[i] \in {"start", "chunk"} <=> sent[i + 1] \in {"chunk", "stop"}
                                          \/ (sent[i] \in {"start", "chunk"} /\ sent[i + 1] = "error")

(* No temporary file outlives its connection, unless the server was stopped      *)
(* while a synthesis ran.                                                        *)
NoFileLeft == phase = "closed" /\ ~cancelled => temps = {}

-----------------------------------------------------------------------------
(* What every step preserves *)

Speaking == {"start", "chunk"}

(* Whether speech is being sent: its last event is neither a stop nor an error. *)
MidSpeech == sent # <<>> /\ sent[Len(sent)] \in Speaking

SidecarTypes ==
  /\ TypeOK /\ held \in Nat /\ language \in {0, 1}
  /\ buffer \in Seq(Nat) /\ sent \in Seq({"info", "error", "transcript", "start", "chunk", "stop"})

(* Until the connection closes, what the client said is what is held for it. *)
HeardIsHeld == phase # "closed" => heard = [audio |-> buffer, language |-> language]

(* The files of every phase; a handler that was cancelled has no phase any more. *)
FilesOfPhase ==
  /\ phase \in {"reading", "synthesizing"} => temps = {}
  /\ phase = "transcribing" => temps = {"stt"}
  /\ phase = "speaking" => temps = {"tts"}
  /\ cancelled => phase = "closed"

(* Speech is interrupted only by the end of the connection. *)
SpeechOfPhase ==
  /\ phase = "speaking" => MidSpeech
  /\ MidSpeech => phase \in {"speaking", "closed"}

IInv ==
  /\ SidecarTypes /\ MemoryBounded /\ HeardIsHeld /\ UsesWhatWasHeard
  /\ FilesOfPhase /\ NoFileLeft /\ SpeechOfPhase /\ AnswersInOrder

=============================================================================
