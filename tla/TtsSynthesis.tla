---------------------------- MODULE TtsSynthesis ----------------------------
(***************************************************************************)
(* One call of text_to_speak, with either of the voices that createTTS        *)
(* (tts/base.cpp) may make: Edge (tts/edge.cpp) or BytedanceV3                *)
(* (tts/bytedancev3.cpp).  A connection is made and asked for a text; the      *)
(* Opus packets that come back are decoded into pcm, a buffer of one 60 ms     *)
(* frame, which is encoded again whenever it is full.                         *)
(*                                                                         *)
(* Audio is counted in units of 10 ms, numbered in the order in which the      *)
(* service speaks them.  A packet is its duration and its kind: "plain", "edge"  *)
(* (its lacing values are 255 and 0), "double" (of two Opus frames), "long" (more *)
(* than the code hands to the decoder in one piece) or "torn" (on an Ogg page     *)
(* that begins in one message and ends in the next).                          *)
(***************************************************************************)
EXTENDS Integers, Sequences, SequencesExt

CONSTANTS Durations,   \* of a packet, in units
          MaxPackets   \* packets the service sends at most

ASSUME TtsAssumption == Durations \subseteq 1..6 /\ MaxPackets \in Nat

VARIABLES
    selected_module,  \* "EdgeTTS" or "BytedanceTTSV3"
    pc,               \* the co_await that text_to_speak is at, or how it ended
    retry,            \* connections tried
    is_opus,          \* Edge: binary messages are packets
    pcm, samples_decoded,
    audio,            \* the frames made so far
    spoken,           \* history: the packets the service has sent
    units,            \* history: how many units those were
    speech,           \* history: the units of those that can be decoded
    failed            \* the service has given up, but the connection stands

vars == <<selected_module, pc, retry, is_opus, pcm, samples_decoded, audio, spoken, units,
          speech, failed>>

frame_size == 6
Silence == 0
Noise == -1
Tries == IF selected_module = "EdgeTTS" THEN 3 ELSE 1
Kinds == {"plain", "edge", "double", "long", "torn"}
Packet == [duration : Durations, kind : Kinds]

\* What is awaited in turn before packets are read.
Stages == IF selected_module = "EdgeTTS"
          THEN <<"connect", "handshake", "command", "ssml", "reading">>
          ELSE <<"connect", "handshake", "start_connection", "connection_started",
                 "start_session", "session_started", "task_request", "finish_session",
                 "reading">>
Connecting == {"connect", "handshake"}
Asking == ToSet(Stages) \ (Connecting \union {"reading"})
\* Ways to end; the decoder having written beyond pcm, anything may follow.
Over == {"returned", "thrown", "overrun"}

Init ==
    /\ selected_module \in {"EdgeTTS", "BytedanceTTSV3"}
    /\ pc = "connect" /\ retry = 1 /\ is_opus = FALSE
    /\ pcm = [i \in 1..frame_size |-> Silence] /\ samples_decoded = 0 /\ audio = <<>>
    /\ spoken = <<>> /\ units = 0 /\ speech = <<>> /\ failed = FALSE

Said == <<spoken, units, speech>>
Decoding == <<is_opus, pcm, samples_decoded, audio, Said, failed>>

-----------------------------------------------------------------------------
(* Connecting and asking *)

\* A stage is done: the next one begins.
StageDone ==
    /\ pc \in Connecting \union Asking
    /\ \E i \in DOMAIN Stages : Stages[i] = pc /\ pc' = Stages[i + 1]
    /\ UNCHANGED <<selected_module, retry, Decoding>>

\* Mutant: every failure is the first.
TriesForever ==
    /\ pc \in Connecting
    /\ IF retry < Tries THEN pc' = "connect" ELSE pc' = "returned"
    /\ UNCHANGED <<selected_module, retry, Decoding>>

\* connect() fails: Edge tries three times, then there is no audio.
ConnectFails ==
    /\ pc \in Connecting
    /\ IF retry < Tries THEN pc' = "connect" /\ retry' = retry + 1
                        ELSE pc' = "returned" /\ UNCHANGED retry
    /\ UNCHANGED <<selected_module, Decoding>>

\* BytedanceV3 is answered something else than that the connection or the
\* session has begun: no audio.
StartRefused ==
    /\ pc \in {"connection_started", "session_started"}
    /\ pc' = "returned"
    /\ UNCHANGED <<selected_module, retry, Decoding>>

\* Everything is asked, but no Opus encoder or decoder can be made: no audio.
NoCoders ==
    /\ pc = Stages[Len(Stages) - 1]
    /\ pc' = "returned"
    /\ UNCHANGED <<selected_module, retry, Decoding>>

\* A write or a read fails: an exception, and all audio is lost.
Throws ==
    /\ pc \in Asking \union {"reading", "finish_connection", "connection_finished"}
    /\ pc' = "thrown"
    /\ UNCHANGED <<selected_module, retry, Decoding>>

-----------------------------------------------------------------------------
(* Decoding *)

\* The units of a packet that comes now.
UnitsOf(p) == [i \in 1..p.duration |-> units + i]
Noises(n) == [i \in 1..n |-> Noise]

\* extractOpusFrames on the page of a packet: one frame for each lacing value that
\* is not zero, 255 being taken for a length like any other.  Header pages are left
\* out by their sequence numbers, and nothing is made of a page that is not whole.
extractOpusFrames(p) ==
    IF p.kind = "torn" THEN <<>> ELSE IF p.kind = "long" THEN <<255, 80>>
    ELSE IF p.kind = "edge" THEN <<255>> ELSE <<80>>

\* What Edge hands to the decoder: the first 120 bytes, no message being torn.
FirstBytes(p) == <<120>>

Pieces(p) == IF selected_module = "EdgeTTS" THEN FirstBytes(p) ELSE extractOpusFrames(p)

\* What opus_decode may make of piece k of a packet, if there is such a piece.  The
\* room offered is that of one Opus frame, so that a packet with two of them is
\* refused (<<>>).  What is only a part of one is refused or turned into noise, and
\* after the first piece what stands for the duration is any byte.
DecodedPiece(p, k) ==
    IF p.kind = "double" \/ k \notin DOMAIN Pieces(p) THEN {<<>>}
    ELSE IF p.kind = "long"
         THEN {<<>>} \union {Noises(d) : d \in IF k = 1 THEN {p.duration} ELSE Durations}
    ELSE {UnitsOf(p)}

\* Mutants: a full frame waits for the next packet; a frame is not taken off.
IsOverfull(n) == n > frame_size
StillCounted(n) == n

\* pcm holds a frame when n units have been decoded into it, and what is still
\* counted once that frame is encoded.
IsFull(n) == n >= frame_size

InExcess(n) == n - frame_size

\* Decoded units go into pcm after those in it, beyond its end if need be; a full
\* frame is encoded.
Filled(s, new) ==
    LET n == s.n + Len(new)
        buffer == SubSeq(s.pcm, 1, s.n) \o new \o SubSeq(s.pcm, n + 1, frame_size)
        frame == SubSeq(buffer, 1, frame_size)
    IN  [pcm |-> frame,
         n |-> IF IsFull(n) THEN InExcess(n) ELSE n,
         audio |-> IF IsFull(n) THEN Append(s.audio, frame) ELSE s.audio,
         overrun |-> s.overrun \/ n > frame_size]

\* All that is decoded from one packet; there are never more than two pieces.
Decodes(p) ==
    \E first \in DecodedPiece(p, 1), second \in DecodedPiece(p, 2) :
      LET before == [pcm |-> pcm, n |-> samples_decoded, audio |-> audio, overrun |-> FALSE]
          s == Filled(Filled(before, first), second)
      IN  /\ pcm' = s.pcm /\ samples_decoded' = s.n /\ audio' = s.audio
          /\ pc' = IF s.overrun THEN "overrun" ELSE pc

-----------------------------------------------------------------------------
(* Reading *)

Reading == pc = "reading" /\ ~failed

\* Edge: a marker says whether what follows is audio.
ReadsMarker ==
    /\ Reading /\ selected_module = "EdgeTTS"
    /\ is_opus' = ~is_opus
    /\ UNCHANGED <<selected_module, pc, retry, pcm, samples_decoded, audio, Said, failed>>

\* Packets of which nothing can be decoded.
Refused(p) == p.kind \in {"double", "torn"}

\* A message with a packet.
ReadsPacket ==
    /\ Reading /\ Len(spoken) < MaxPackets
    /\ selected_module = "EdgeTTS" => is_opus
    /\ \E p \in Packet :
         /\ selected_module = "EdgeTTS" => p.kind # "torn"
         /\ spoken' = Append(spoken, p)
         /\ units' = units + p.duration
         /\ speech' = IF Refused(p) THEN speech ELSE speech \o UnitsOf(p)
         /\ Decodes(p)
    /\ UNCHANGED <<selected_module, retry, is_opus, failed>>

\* BytedanceV3: SessionFailed is read and ignored.
SessionFailed ==
    /\ Reading /\ selected_module = "BytedanceTTSV3"
    /\ failed' = TRUE
    /\ UNCHANGED <<selected_module, pc, retry, is_opus, pcm, samples_decoded, audio, Said>>

\* Mutant: what does not fill a frame is dropped.
NoTail == audio

\* The last frame is filled up with silence.
WithTail ==
    IF samples_decoded = 0 THEN audio
    ELSE Append(audio, [i \in 1..frame_size |->
                          IF i <= samples_decoded THEN pcm[i] ELSE Silence])

\* turn.end; SessionFinished, or a message that says there is an error.
SpeechEnds ==
    /\ Reading
    /\ audio' = WithTail
    /\ pc' = IF selected_module = "EdgeTTS" THEN "returned" ELSE "finish_connection"
    /\ UNCHANGED <<selected_module, retry, is_opus, pcm, samples_decoded, Said, failed>>

\* finish_connection: a write, and an answer whatever it says.
Finishes ==
    /\ \/ pc = "finish_connection" /\ pc' = "connection_finished"
       \/ pc = "connection_finished" /\ pc' = "returned"
    /\ UNCHANGED <<selected_module, retry, Decoding>>

Ended == pc \in Over /\ UNCHANGED vars

\* Steps that the service and the network owe.
Answers == \/ StageDone \/ ConnectFails \/ StartRefused \/ NoCoders
           \/ SpeechEnds \/ Finishes \/ Throws

Next == Answers \/ ReadsMarker \/ ReadsPacket \/ SessionFailed \/ Ended

\* Every connection attempt ends (request::connect and the websocket's handshake
\* have limits), every write does, and the service finishes what it began or closes.
Spec == Init /\ [][Next]_vars /\ WF_vars(Answers)
-----------------------------------------------------------------------------
(* Properties *)

\* Type invariant of text_to_speak; the buffer never holds a whole frame between
\* two packets.
TypeOK ==
    /\ selected_module \in {"EdgeTTS", "BytedanceTTSV3"}
    /\ pc \in ToSet(Stages) \union Over \union {"finish_connection", "connection_finished"}
    /\ retry \in 1..Tries
    /\ is_opus \in BOOLEAN /\ failed \in BOOLEAN
    /\ pcm \in [1..frame_size -> Int]
    /\ samples_decoded \in 0..frame_size - 1
    /\ spoken \in Seq(Packet) /\ units \in Nat /\ speech \in Seq(1..units)
    /\ audio \in Seq([1..frame_size -> Int])

\* None is cut to pieces, and all that can be decoded have one length that divides
\* a frame.
Regular ==
    \E d \in Durations :
      /\ frame_size % d = 0
      /\ \A i \in DOMAIN spoken :
           spoken[i].kind # "long" /\ (spoken[i].duration = d \/ Refused(spoken[i]))

\* As long as the service keeps to packets of one length that divides a frame,
\* the decoder stays within pcm, whichever packets it refuses.
RegularPacketsFit == Regular => pc # "overrun"

\* The frames returned hold what was spoken, in order and without a gap, the
\* last filled up with silence; a packet that is refused leaves only itself out.
AudioIsTheSpeech ==
    pc = "returned" /\ Regular =>
      LET n == Len(speech)
      IN  /\ Len(audio) = (n + frame_size - 1) \div frame_size
          /\ \A i \in DOMAIN audio, j \in 1..frame_size :
               LET k == (i - 1) * frame_size + j
               IN  audio[i][j] = IF k <= n THEN speech[k] ELSE Silence

\* text_to_speak ends, with audio, without it or by an exception: it does not try
\* to connect for ever.
SynthesisEnds == <>(pc \in Over)
=============================================================================
