# A TLA+ model of xiaozhi-cpp-server

xiaozhi-cpp-server is a voice assistant's server: a device streams opus audio
over a WebSocket, the server detects speech, recognises it, sends it to a
language model, synthesises the answer sentence by sentence and streams it back
with subtitles.  This directory models the parts that carry the program's own
logic: a `Connection` with its coroutines, threads, timer and queues, the
recognisers, voices and language models behind its interfaces, and the server
that runs the connections.  It checks and proves what makes them correct.

Paths below are relative to the repository; `connection.cpp` is
`src/connection.cpp`.

## 1. The system

| Component | State | Operations | Talks to |
|---|---|---|---|
| `Server` (`server.cpp`) | io_context, `threads` threads | `listen`, `authenticate`, `run_session`, `run` | creates one `Connection` per session |
| `Connection` (`connection.cpp`) | `is_released_`, the websocket, two queues, one timer | `handle` on the strand; `asr_loop` on the pool; `tts_loop` on the strand; `handle_asr_text` spawned per utterance | all of the below |
| Listening half | `asr_audio_`, `silence_timer_`, the recogniser | `handle_binary`, the timer's handler, `asr_loop` | `Vad`, `asr::Base` |
| Dialogue | `dialogue_` (no lock) | `handle_asr_text`, `push_llm_response` | `llm::Base`, `llm_response_` |
| Speaking half | `llm_response_`, the sticky opcode of the websocket, `tts_loop`'s local stop time and subtitle queue | `tts_loop`, `handle_text` (abort), `send_welcome` | `tts::Base`, the client |
| `ThreadSafeQueue` | a `std::queue` and a mutex | `push`, `try_pop`, `clear` | |
| `Vad`/`SileroVad` | a decoder per connection, one recurrent state for all | `is_vad`, `predict` | |
| ASR `Paraformer`, `BytedanceV2` | frames since the last flush; a cloud connection | `detect_opus` | FunASR, a cloud service |
| LLM `Openai`, `Dify`, `CozeV3` | a partial line; a conversation id | `response` | `request::stream_post` |
| TTS `Edge`, `BytedanceV3` | a cloud connection, a pcm buffer | `text_to_speak` | cloud services |
| `request`, `tools`, `Setting`, `Logger` | a read buffer; none | HTTP client, segmentation, clock | |

How the parts of a connection interact:

    client --opus--> handle_binary --frames--> asr_audio_ --> asr_loop --spawn--> handle_asr_text
                          |                        ^                                   |
                          +--arms--> silence_timer_ (EndOfSpeech)                    sentences
    client --abort-> handle_text --"<abort>"--> llm_response_ <------------------------+
                                                    |
    client <--start, audio, subtitles, stop---- tts_loop

**What is hard here.**  `handle` and `tts_loop` share a strand, but every
`co_await` gives it up.  `asr_loop`, the handlers of `handle_asr_text` and the
completion handler of the silence timer run on any thread of the pool.  An
expired timer wait cannot be cancelled any more.  An abort is two lock sections.
The opcode of the websocket is a sticky flag shared by all its writers.  Several
answers may be in progress on one unlocked `dialogue_`.  Each coroutine ends for
good on the first exception, and only the last owner of the shared pointer
destroys the connection.  All connections share one voice detector with one
recurrent state and no lock.  The providers keep caches from call to call that
many exits have to reset, and parse streams that the network may cut anywhere.
`PROJECT.json` lists these hazards line by line, with
the properties that would catch each of them going wrong.

**What makes it correct**, per part:

- listening: speech always gets its end mark; texts hold the frames in the order
  of arrival, none twice, none from before and after another text; no frame
  stays in the queue or the recogniser for ever; a release ends the loop;
- dialogue: no entry is lost or doubled, every answer stands behind its question and
  every provider reads its handler's question, but for `push_back`s that overlap
  another access; every utterance is handled;
- speaking: starts and stops alternate; an abort silences all that was pushed
  before it and is answered; a session ends, and not later than its audio;
  subtitles come once, in order, after their audio, and none is forgotten;
- the whole: the parts keep these promises together, and a released connection
  is destroyed;
- recognisers: a text holds frames since the last end mark only, in order, without
  a gap; chunks neither skip nor repeat what was said; nothing of an utterance is
  left for the next; a lost connection costs the frames it held and no more;
- language models: the whole answer is heard, once and in order, however it is
  cut into chunks and reads; what is cut off is a beginning of it;
- sentences: cut between characters, nothing lost but white space, nothing twice;
- voices: the frames hold all that was spoken, padded at the end; a call ends;
- server: silent clients hold nobody up; the shared detector counts every frame.

## 2. The modules

| Module | Models | Role |
|---|---|---|
| `ThreadSafeQueue` | `common/threadsafe_queue.hpp` | operators on a queue, one per method, each one atomic step |
| `Transcript` | | abstract specification: what the listening half promises |
| `SpeechInput` | `handle_binary`, `silence_timer_`, `asr_loop`, the recogniser's interface | component |
| `Dialogue` | `handle_asr_text`, `push_llm_response`, `dialogue_` | component |
| `SpeechOutput` | `tts_loop`, the abort, `send_welcome`, the client's player | component |
| `Connection` | `start`, `handle`, the destructor; composes the three components | composition |
| `Recogniser` | | abstract specification: what `asr_loop` expects of a recogniser |
| `BytedanceAsr` | `asr/bytedancev2.cpp` | component; implements `Recogniser` |
| `ParaformerAsr` | `asr/paraformer.cpp`, `paraformer/paraformer-online.cpp` | component |
| `Recognisers` | `asr/base.cpp`: the recogniser that `createASR` makes | composition |
| `LlmStream` | `llm/openai.cpp`, `dify.cpp`, `cozev3.cpp`, `base.cpp` over `common/request.cpp` | component |
| `Segmentation` | the cutting in `handle_asr_text`, `find_last_segment`, `push_llm_response` | component |
| `TtsSynthesis` | `tts/edge.cpp`, `tts/bytedancev3.cpp`, `tts/base.cpp` | component |
| `Server` | `server.cpp`, `silero_vad/` | component |
| `MC*` | | instances for TLC |
| `*Proofs` | | theorems |

**SpeechInput.**  A voiced frame is its number.  `HandleVoicedFrame` and
`ArmSilenceTimer` are the two halves of `handle_binary`: the push under the
queue's mutex, then the timer.  Other threads may run between them; the strand
may not.  `armed` is a pending wait, `fired` the waits that have expired and
whose handlers are queued on the pool (`SilenceHandler`): a newer frame cancels
`armed`, never `fired`.  `asr_loop` has one action per branch.  The recogniser is
the sequence of frames it holds; the constant `Faults` says what it may do wrong:
lose a frame (undecodable opus, no connection), lose the utterance so far (a
broken connection of `BytedanceV2`), find no text, or throw.

**Dialogue.**  A handler is the number of its utterance, its position a member of
`HandlerPc`.  Neither `push_back` nor a provider's reading of the array is atomic.
`BeginsToAppend` remembers the array, `Appends` writes behind what was remembered, so
that overlapping calls lose an entry; `BeginsToAsk` and `Asks` are the beginning and
the end of Openai's copy (`openai.cpp:33`) or of the search for the last question
(`dify.cpp:31`, `cozev3.cpp:38`).  `raced` records that a `push_back` has overlapped another
`push_back` or a reading.  That is undefined behaviour in C++: from then on an access
may find the array as it was or as it is, a reading may find neither or throw
(`ReadThrows`), and either may end the process (`Crashes`, after which nothing is
`Alive`).  The search does as much without a race when the last entry is no question
(`SearchRunsOff`), since it steps its reverse iterator the wrong way.

**SpeechOutput.**  One action before and one after every `co_await` of
`tts_loop`.  Time is counted in frames of 60 ms and relative to now, which makes
the state space finite: `left` is `tts_stop_end_timestamp - now`, the `due` of a
queued subtitle how long it has still to wait.  The client is its session
(`in_session`), the frames it has still to play (`buffered`) and the last
subtitle it was shown.  `wire` is the last message with its opcode.

**Connection.**  Every action is an action of a component that leaves the others
alone or a joint one: `Aborts` is `AbortClears`/`AbortPushes` on `handle`'s part,
`PushesSentence` is the dialogue's and the queue's step at once.  What only the
whole has is added: the wait for the welcome, the exception that ends `handle`
before it sets the flag, and the history variables `interrupted` and
`cancelled`.  A crash of the process in the dialogue stops all of it.  `InView` and `OutView` map `handle_pc` to what each half knows of
it.

**BytedanceAsr.**  `pc` is the `co_await` that `detect_opus` is at; each has an
action for its completion and one for its failure, which runs `clear()` and
whatever the caller goes on to do with the pointers it has reset.  A packet of
the Ogg stream is the number of its frame, or a header or end packet; libogg
decides when a page is full, which is a choice (`PagesOut`).  The refinement of
`Recogniser` counts a call as made when it returns, so a frame whose write is
still under way is not yet held.  `Recogniser` is to `SpeechInput` what its
actions `Fed`, `Recognised` and `Flushed` allow a recogniser to do.  A text is of
the frames between the two headers of the stream and its end (`Body`).

**ParaformerAsr.**  A call has no `co_await` and is one step, made of the
functions of `ParaformerOnline` in their order.  Audio is counted in units of
5 ms, the greatest common length in the code (frame 25 ms, shift 10 ms, buffer
600 ms), and a feature row is the list of the frames spliced into it: the
property compares it with the row an utterance in one piece would have.  CIF's
weights are twentieths with the threshold 20, so sums are exact; the code adds
floats, and rounding is not modelled.  A row's weight depends on its position
only.  The fresh `feats_cache_` is of rows of zeros, which have positions before the
utterance: five of them stand in the middle of the first chunk, where `CifSearch` does
not clear their weights, and are weighed like any other.  A decoder that throws
leaves its arguments in `decoder_onnx`; the next `Run` of the utterance reads names
beyond their array, which throws or crashes, by choice (`Decoded`).

**LlmStream.**  The response is a sequence of tokens that may be cut between any
two: HTTP header, size lines, line ends, the halves of `data:` and of a JSON
line.  `stoul` is modelled by what it makes of each token (`data:` begins with
the hexadecimal digits `da`).  `Reads` is a read, `parse_chunk` on what has
arrived and the provider's callback.  `torn` and `split` record that a read ended
inside a chunk and that a callback got a piece its provider cannot use; the code
does not cope with either, and `AnswerIsWhole` speaks of answers without them.  One
such piece is a delta of CozeV3 together with the `completed` event, which is then heard
as if it were a delta and repeats the whole answer: `NothingIsRepeated` says that
nothing else makes it heard.

**Segmentation.**  Bytes, in classes the code tells apart.  Positions wrap as
`size_t` does, with a small modulus.

**TtsSynthesis.**  One call of `text_to_speak`.  `pcm` holds the units of 10 ms
that the decoder wrote, each with the number in which it was spoken; what a
refused packet leaves there is noise.  The history variable `speech` is what should
be heard: the units of all packets but the refused ones.  A packet whose decoded length does not
divide the frame makes the decoder write beyond the buffer (`overrun`), after
which the model stops.

**Server.**  A client is the state of its session.  `predict()` holds its thread
and copies the two halves of the recurrent state one after the other; a half is
the sequence of the frames folded into it, so that a lost or repeated frame
shows.

The voice, the recogniser and the language model meet the connection at
interfaces the connection's modules already allow for: `SpeechInput` lets a
recogniser lose and throw, `Dialogue` takes any sequence of sentences, and
`SpeechOutput` any number of frames, none, or an exception.

Each definition's source lines are in `PROJECT.json` under "map".

## 3. What is checked

| Run | Instance | Shows |
|---|---|---|
| `listening` | 3 frames, all faults | `TypeOK`, `SpeechWillEnd`, `ImplementsTranscript`, `EveryFrameSettles`, `ReleaseEndsAsrLoop` |
| `speaking` | 3 sentences of up to 1 frame, 2 aborts, exceptions everywhere | `TypeOK`, `AbortSilencesWhatWasPushed`, `StopIsNeverLate`, `FramesFitTheSession`, `SubtitlesFollowTheSpeech`, `AbortIsAnswered`, `SessionEnds`, `EverySentenceIsShown` |
| `dialogue` | 2 handlers, 3 sentences | `TypeOK`, `OnlyRacesLoseEntries`, `EveryUtteranceIsHandled` |
| `connection` | 1 frame, 1 sentence, 1 abort, a recogniser and a synthesis that throw | the refinements `ImplementsSpeechInput`, `ImplementsSpeechOutput`, `ImplementsDialogue`, and `ReleaseDestroys` |
| `recognisers` | BytedanceV2: 5 frames, 2 end marks, pages of 2 packets or more; Paraformer: packets of 40 or 60 ms, 1.38 s of audio, 2 end marks anywhere, 1 session that throws | `StateTypeOK`, `OggStreamIsWellFormed`, `FrameLossIsSurvived`, `CentreRowsAreTheUtterance`, `TokensFollowTheIntegral`, `ImplementsRecogniser`, `NothingIsLeft` |
| `synthesis` | both voices, 4 packets of 20 or 40 ms and five kinds | `TypeOK`, `RegularPacketsFit`, `AudioIsTheSpeech`, `SynthesisEnds` |
| `answers` | 3 providers, 7 answers, 1 cut between chunks, 2 partial reads | `TypeOK`, `AnswerIsWhole`, `NothingIsRepeated`, `AnswerEnds` |
| `cutting` | every text of up to 15 bytes made of 6 pieces | `SentencesAreTheAnswer`, `NoCharacterIsCut` |
| `server` | 2 clients, 1 or 2 threads, 2 frames each | `TypeOK`, `OnlyOverlapsSpoilTheDetector`, `NobodyWaitsForTheSilent` |
| `speaking_opcode` | 2 sentences, 1 abort | finding 1 |
| `abort` | 1 frame, 2 sentences, 1 abort | finding 2 |
| `quiet` | 1 frame, no abort | finding 3 |

**Why the bounds are enough.**  Three frames make an expired wait whose handler
is late, a newer frame that is cut off by it, and a third that follows the second
mark.  Three sentences are one spoken, one with a waiting subtitle and one
queued; two aborts are one taken while the other clears the queue again.
`MaxLag` only says how far behind now the stop time is told apart, and every
comparison in the code is with now.  Two handlers are all that a data race needs.
The composed run is small because the components are checked on larger
instances; it shows that they compose.  The safety properties of the connection,
of the Ogg stream, of the sentences, of the answers and of the server are
proved for all bounds (section 5).

Five frames are enough for two pages that are lost on different connections.
1.38 s are two full chunks of Paraformer and a rest; packets of 60 ms divide the
600 ms buffer and those of 40 ms divide it too, but reach the end mark with
other remainders, so that each of the three ways to make the last chunks is
taken.  The weights add up to no whole number of tokens, so that every chunk
leaves a rest of the integral to the next.  Four packets fill a frame of 60 ms and
begin another; 20 ms divide a frame and 40 ms do not.  One cut and two partial
reads put a boundary inside any token sequence and another inside the chunk after
it.  A mark, a short sentence of fewer than seven bytes and a long one fit into
15 bytes.  Two clients are all that an overlap needs.

**Fairness.**  Weak fairness of each coroutine and handler: the pool runs what is
ready, and timers expire (`asr_loop` and `tts_loop` poll, so nothing needs strong
fairness).  It includes three assumptions about others.  Writes complete or
fail: Beast's idle limit closes a dead peer.  The recogniser and the synthesis
answer or throw: their reads have no limit of their own in the code, so a silent
cloud service would hold a loop for ever.  The language model's answer ends,
which `stream_post`'s limit of 30 s per read ensures but for a server that trickles
data.  In the composed run the client falls silent in the end (`HandleEnds`),
which is what `close_connection_no_voice_time` is for.  Nothing is assumed of an
abort, a hello or speech: the client need not send any.  `HandleThrows` is never
forced.

The providers have their own: `text_to_speak`, the steps of `response()` and the
sessions of the server go on.  For the language model the code ensures it, with
a limit of 30 s on every step of `request`, after which the step fails; for the
voices it is an assumption, that the service ends its answer or closes the
connection.  In `Server` only what the io_context runs is fair (`Serves`, and a
prediction that has begun): no client need send anything.

**What the properties leave open.**  `FramesFitTheSession` allows the stop that answers
an abort with no session open, which the code sends.  The writes of `send_welcome` and
of `tts_loop` are one after the other in the model, so two of them in flight would
not be seen.  `OggStreamIsWellFormed` does not fix with which frame a connection
opens; `FrameLossIsSurvived` speaks of the losses that the code survives, and
`RegularPacketsFit` and `AudioIsTheSpeech` of packets that divide a frame: the null
dereferences and overruns behind their hypotheses are reported as hazards.
`AnswerIsWhole` and `NothingIsRepeated` excuse what `torn` and `split` mark.

**Mutants.**  Each property of a passing run has a mutant of the model, a
plausible slip in the mapped code, under which TLC finds it violated.

## 4. Findings

1. `ControlMessagesAreText` fails (`connection.cpp:70-72`): the stop that answers
   an abort is written without `ws_.text(true)`, so after audio it is a binary
   message, which the client in `scripts/tests` takes for audio.  The trace has two
   sentences: the audio and the subtitle of the first are sent, the abort comes while
   the second is synthesised, its audio is sent and its subtitle is not yet due when
   the abort is taken.  A subtitle sent after the last audio would make the stop text
   again (`connection.cpp:98`).
2. `AbortEndsTheAnswer` fails (`connection.cpp:139-149`, `175-177`): an abort
   clears the queue but not the answer that is being streamed; its later
   sentences open a new session.  `README.md:19` promises real-time interruption.
   What does hold is proved as `AbortsSilence`: nothing pushed *before* the mark
   is heard after it.
3. `QuietConnectionCloses` fails (`connection.cpp:171`, `218`): a text message that
   is not a JSON object, or a welcome that cannot be written, ends `handle`
   without setting `is_released_`; nobody reads the socket any more, and the two
   loops poll for ever.

Two more disagreements are no findings because no run states them.  The comment
at `connection.cpp:121` says that trailing white space and asterisks and hashes
are taken away; the pattern's alternative `(\s+$)[\*\#]` wants a character behind
the end and never matches (`InkFrom` is modelled accordingly).  And
`CozeV3::create_session` is called by nobody, so that the conversation id sent is
empty.

What `BytedanceAsr` and `LlmStream` show beyond their properties is listed under
the hazards: a failed write in the call that connects or in the one that ends
the utterance dereferences a null pointer, and a read that ends inside a chunk
loses or garbles what follows.

## 5. What is proved

For every value of the constants, from the named assumptions on them
(`MaxFramesAssumption`, `BoundsAssumption`, `SegmentationAssumption`,
`BytedanceAssumption`, `ServerAssumption`, `DialogueAssumption`,
`ConnectionAssumption`, `TtsAssumption`, `ParaformerAssumption`, `LlmStreamAssumption`), with tlapm:

| Theorem | States |
|---|---|
| `SpeechInputProofs!TypeCorrect` | `Spec => []TypeOK` |
| `SpeechInputProofs!SpeechAlwaysEnds` | `Spec => []SpeechWillEnd` |
| `SpeechInputProofs!Implementation` | `Spec => Transcript!Spec`, mapping heard frames and utterances |
| `SpeechOutputProofs!TypeCorrect` | `Spec => []TypeOK` |
| `SpeechOutputProofs!NoStopIsLate` | `Spec => []StopIsNeverLate` |
| `SpeechOutputProofs!SessionsAreWellFormed` | `Spec => FramesFitTheSession` |
| `SpeechOutputProofs!AbortsSilence` | `Spec => []AbortSilencesWhatWasPushed` |
| `SpeechOutputProofs!SubtitlesInOrder` | `Spec => SubtitlesFollowTheSpeech` |
| `ConnectionProofs!ListeningIsSpeechInput` | `Spec => ImplementsSpeechInput` |
| `ConnectionProofs!SpeakingIsSpeechOutput` | `Spec => ImplementsSpeechOutput` |
| `ConnectionProofs!DialogueIsDialogue` | `Spec => ImplementsDialogue` |
| `ConnectionProofs!ConnectionListens` | what is proved of `SpeechInput`, for the composed `Spec` |
| `ConnectionProofs!ConnectionSpeaks` | what is proved of `SpeechOutput`, for the composed `Spec` |
| `ConnectionProofs!ConnectionConverses` | what is proved of `Dialogue`, for the composed `Spec` |
| `SpeechInputProofs!TextsAreFew` | `Spec => []FewTexts` |
| `DialogueProofs!TypeCorrect` | `Spec => []TypeOK` |
| `DialogueProofs!OnlyRacesLose` | `Spec => []OnlyRacesLoseEntries` |
| `SegmentationProofs!SentencesMakeTheAnswer` | `Spec => []SentencesAreTheAnswer` |
| `SegmentationProofs!CharactersStayWhole` | `Spec => []NoCharacterIsCut` |
| `RecognisersProofs!StreamsAreWellFormed` | `Spec => []OggStreamIsWellFormed` |
| `RecognisersProofs!FrameLossesAreSurvived` | `Spec => []FrameLossIsSurvived` |
| `RecognisersProofs!TypeCorrect` | `Spec => []TypeOK` |
| `RecognisersProofs!Implementation` | `Spec => ImplementsRecogniser`, mapping held frames and texts |
| `RecognisersProofs!StateTypeCorrect` | `CreatedSpec => []StateTypeOK`, of both recognisers |
| `RecognisersProofs!TokensAreTheUtterances` | `CreatedSpec => []TokensFollowTheIntegral` |
| `RecognisersProofs!RowsAreTheUtterances` | `CreatedSpec => []CentreRowsAreTheUtterance`, assuming `Regular` |
| `RecognisersProofs!UtterancesAreForgotten` | `CreatedSpec => NothingIsLeft` |
| `TtsSynthesisProofs!TypeCorrect` | `Spec => []TypeOK` |
| `TtsSynthesisProofs!PacketsFit` | `Spec => []RegularPacketsFit` |
| `TtsSynthesisProofs!SpeechReturned` | `Spec => []AudioIsTheSpeech` |
| `ConnectionProofs!ServerTypeCorrect` | `ServerSpec => []TypeOK`, of `Server` |
| `ConnectionProofs!OnlyOverlapsSpoil` | `ServerSpec => []OnlyOverlapsSpoilTheDetector` |
| `LlmStreamProofs!StreamTyped` | `Spec => []TypeOK` |
| `LlmStreamProofs!NothingRepeated` | `Spec => []NothingIsRepeated` |
| `LlmStreamProofs!AnswerHeardWhole` | `Spec => []AnswerIsWhole` |

The arguments, in short:

- *Speech ends.*  Inductive with "the timer is armed for a real frame": the open
  end of speech is always younger than the last wait started, and a wait leaves
  only by pushing a mark.
- *Transcript.*  `OrderInv` lines up all places a frame can be in: delivered,
  held by the recogniser, in `asr_loop`'s hand, queued.  Each place's frames
  increase and come before the next place's.  A flush delivers what the
  recogniser holds, which is therefore younger than all that was delivered.
- *Types of the speaking half* need what `tts_loop` holds at each point
  (`TypeInv`): a sentence from its pop to its last frame, a subtitle while it is
  written.
- *Stops.*  A frame counts for the client when its write starts and for
  `tts_loop` when it has completed, so during the write the margin is strict.
- *Sessions.*  `SessionInv`: the client's session and `tts_loop`'s belief agree
  except during the write of a start or stop.
- *Aborts.*  `SilenceInv` follows a sentence from the queue through `tts_loop`'s
  hand and the subtitles to the wire.  The part that makes it inductive is
  `MarksInOrder`: what is queued behind a mark was pushed after the last abort,
  although `clear` and `push` are two steps and sentences come in between.
- *Subtitles.*  `SubtitleInv` orders all that has still to be shown: the sentences in the
  queue are younger than the one `tts_loop` has in hand, which is younger than the
  subtitles that wait, and these increase and are younger than the last one
  shown, but for the first of them while it is being written.
- *Composition.*  Step by step; the one case that is not a stutter or the
  component's own step is a message that is finished after the release, which
  the halves see as `HandleEnds`.

  The dialogue has a handler for every text because each text ends in a frame of
  its own (`TextsInv`).  The theorems about the halves are then instantiated with
  the views of `handle_pc` (`Listening`, `Speaking`) and hold in the whole; those of
  the dialogue with its queue of texts (`Conversing`).
- *Dialogue.*  Unless a `push_back` has overlapped another access, `EntriesInv` holds: a
  handler between the two steps of a `push_back` is alone with the array, and what it
  remembers is the dialogue; the entries are exactly those of the handlers that have
  got so far, each once, an answer behind its question; and what a provider has read
  holds its handler's question.
- *Sentences.*  `Covers` lines the sentences up with the part of the message that was
  handed over; `Closed` says where they end.  `pos` is 0 or behind a mark, the
  difference `p - pos + 1` is 0 when no mark has come since, never less, and a
  text whose characters are whole stays so when a whole piece is appended.
- *The Ogg stream.*  The invariant speaks of everything on its way: what the
  service has got, what is being written and what is on no page yet, in this
  order, is the header, the comment header, the frames from the first since the
  connection was opened up to the present one, and the end if it was asked for.
  A step moves packets along this sequence or appends to it; `clear()` empties it.
  `SequencesInv` has the types, `StreamInv` what the sequence is at each `pc`.
  A crash needs a null pointer in `detect_opus`, which `StreamInv` excludes while
  an ordinary frame is sent.
- *BytedanceV2 is a recogniser.*  `HeldInv` says what the frames of earlier calls are at
  each `co_await`: nothing while a connection is made, all frames of the stream but
  the last while that is sent, all of them afterwards.  `CallInv` adds what makes
  the answer whole: an end mark forces the page out, so that nothing of the
  utterance is still inside the Ogg stream when the service is read from.
- *Paraformer between calls* (`Stays`).  `Going` holds the caches together and says that a
  model either is new (`IsAnew`) or has kept three units and a frame at least (`HasAudio`), so
  that no later call takes the narrow path: a call that goes on brings 120 units or
  more, and one at the end brings 12 or is answered from what was looked ahead at.
  All cached rows are therefore wide, and the encoder takes them.
- *The tokens.*  `Integrated` is the invariant of the integral: 20 for each token and the
  rest of the last search are what the rows weigh so far.  One row keeps it
  (`FireKeeps`), hence a search does, hence a chunk (`Searching`, `Forwarding`);
  when a session throws nothing is claimed.  The induction over the rows of a chunk
  is on a number bounded by the chunk's length, from the well-founded order of
  finite sets (`UpTo`), because the library's induction rule is out of reach.
- *The rows.*  `Places` counts in calls: of the units of an utterance `120 * k + decoded_length_`
  have come, and after `k` calls the model is `Exact`.  `Audio` says which units
  `input_cache_` and `lfr_splice_cache_` are, `Waiting` which ten rows `feats_cache_` holds:
  zeros before the first row, then those numbered `10 * k - 10` to `10 * k - 1`; `Uttered`
  that the rows weighed are five of zeros and the first `10 * k - 5` of the utterance.  Rows near the present end of the audio
  might still change, because `LfrRows` repeats the last frame: `RowsLast` shows that no row
  which was made while the utterance goes on is one of those.  At the end mark what
  is left makes one chunk or two (`OneOrTwoChunks`), and `EndsExactly` goes through
  the cases: all rows are weighed, or all but the last: when less than 60 ms follow the last
  call, which is answered from the rows that wait, and when the whole utterance is too
  short for a wide row.  The hypothesis `Regular` (a packet's length goes into 600 ms) is
  about constants: 5, 10, 20, 40 and 60 ms do; the run's packets have 40 and 60.
  With packets of other lengths a call may take more than 600 ms, and the theorem
  says nothing of them.
- *Nothing is left.*  Each way through a last call ends in `ResetCache` and
  `InitCache`, but for a call that has no row: then the model was new, or it
  would have had the frames for one.  The theorem is about processes that survive the
  names read beyond their array.
- *The voices.*  `Carries` lines what was spoken up with the frames made so far and then
  with `pcm`.  It survives a packet as long as that fits, and packets of one
  duration that divides a frame do fit because the number of units in `pcm` is a
  multiple of that duration.  A refused packet is decoded to nothing, and `speech`
  leaves it out as well.
- *The detector.*  Unless two predictions have overlapped, `DetectorInv` holds: at most
  one is under way, its result is the fold over all frames in the order of their
  predictions, and with none under way the state is that fold.  With one thread a
  prediction holds the only one until it ends.
- *The order of the answer.*  What makes `Inv` inductive is `HeardBefore`: what is heard
  increases, and every event whose data is not consumed yet comes after all that
  was heard.  `ResponseOrder` says that the numbers of the events increase along
  the response wherever its chunks end, [DONE] coming last; `RoundPicks` that
  every round of `parse_chunk` appends a piece of the view which lies behind all
  it has taken before, in whatever way `stoul` misreads a size; `Calling` carries a
  property of the callback from token to token.  Hence all that a call makes of
  the data of an event was behind everything heard before, even when chunks and lines
  were lost in between: a line whose pieces do not fit together is no JSON.  That the
  event with Coze's repetition is not heard, unless `torn` or `split`, follows from
  `AnswerIsWhole`.
- *The whole answer.*  `Inv` with `Whole`, which says as long as neither `torn` nor
  `split` is set: the response is the body in `m` chunks that end at `E[1]`, ...,
  `E[m]`; the first `j` have been taken, and what they contain has been told
  (`Told`); what is consumed ends behind chunk `j` or just before the end of its
  last line (`Placed`); and `j = m` when the response is over.  There are two halves
  to a step.  `ParsedWhole`: from such a place, and if the read does not end inside a
  chunk, every round of `parse_chunk` finds the size line of the next chunk
  (`LineFound`) and takes exactly that chunk, so that it returns whole chunks, ends
  in such a place again or after the last one, and does not throw.  `CalledWhole`: a callback
  that is given the next tokens of the body, and no piece its provider cannot
  use, goes from `Told` at the first of them to `Told` behind the last and does not throw.
  Within the piece it is followed from token to token (`OpenaiMid`, `DifyMid`,
  `CozeMid`): which line it is in, how much of it came with an earlier piece and is kept in
  `last_line`, and what has been heard of the lines before.

**Only model-checked.**  All liveness properties (TLAPS 1.4.5 does not reason
about fairness and ENABLED).  Every invariant of a passing run is proved.

## 6. What is not modelled

- `Setting` is read once and immutable; `Logger` is pure output.
- The numerics of Silero, FunASR and opus: which frames are voice, which rows
  fire and what the tokens say is free or data.  FunASR's model loader, greedy
  search and vocabulary.
- TLS, DNS and the wire formats of the cloud services.  A header or payload that
  cannot be parsed is an exception of the step that reads it.
- The conversation ids of Dify and CozeV3, and which question their search finds: it
  is in `Dialogue` for what it does to the handler.
- What the undefined behaviour that is modelled may do beyond the choices named:
  after a race on `dialogue_` or a name read beyond its array, an access fails, sees
  an older or a newer array, or ends the process.
- `request::request`, `get` and `post`: nothing that runs uses them.
- Clients that mix packet lengths, and a clock that jumps.

What could be added: the read limit of `handle` (`close_connection_no_voice_time`)
at the rate of frames.
