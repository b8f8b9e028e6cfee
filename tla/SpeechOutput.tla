---------------------------- MODULE SpeechOutput ----------------------------
(***************************************************************************)
(* The speaking half of a Connection (connection.cpp): the llm_response_     *)
(* queue with its two producers (the handlers of handle_asr_text, on any     *)
(* thread, and the abort message in handle_text, on the strand) and the      *)
(* tts_loop() coroutine that turns its elements into the frames the client   *)
(* sees: tts start, opus audio, sentence_start (the subtitle), tts stop.     *)
(*                                                                         *)
(* A co_await gives up the strand, so time, producers and handle() may move  *)
(* at every one of them; between two calls on the mutex of llm_response_     *)
(* and between two readings of the clock other threads and time may move as  *)
(* well.                                                                   *)
(*                                                                         *)
(* Time is counted in units of one audio frame (60 ms) and relative to now:  *)
(* left is tts_stop_end_timestamp - now, the due of a queued sentence is how *)
(* long it has still to wait.  A sentence is its number in the order of      *)
(* push_llm_response.                                                      *)
(***************************************************************************)
EXTENDS Integers, ThreadSafeQueue

CONSTANTS MaxSentences,  \* sentences the language model answers at most
          MaxAborts,     \* abort messages the client sends at most
          MaxAudio,      \* audio frames per sentence, at most
          MaxLag,        \* how far behind now the stop timestamp is told apart
          Throwing       \* where a write or the speech synthesis may throw

ASSUME BoundsAssumption ==
    /\ MaxSentences \in Nat /\ MaxAborts \in Nat /\ MaxAudio \in Nat
    /\ MaxLag \in Nat /\ MaxLag > MaxAudio

ASSUME ThrowingAssumption ==
    Throwing \subseteq {"starting", "synth", "audio_sent", "announcing",
                        "stopping", "aborting"}

VARIABLES
    is_released_,
    handle_pc,      \* "reading", "clearing" (between clear() and push()), "over"
    llm_response_,  \* ThreadSafeQueue of sentences and Abort marks
    pushed,         \* sentences pushed so far
    tts_pc,         \* where tts_loop is
    text,           \* the sentence tts_loop took last
    audio,          \* frames of it that are yet to be written
    tts_sentence_queue,   \* sentences whose subtitle is yet to be sent
    playing,        \* tts_stop_end_timestamp # 0
    left,           \* tts_stop_end_timestamp - now, when playing
    ws_text_,       \* the opcode of the next message: ws_.text(true) or ws_.binary(true)
    wire,           \* the last message written: its kind, opcode and sentence
    in_session,     \* client: tts start seen, tts stop not yet
    buffered,       \* client: audio frames received and not played yet
    announced,      \* client: the last subtitle it was shown
    aborts,         \* abort messages handled
    aborted,        \* history: pushed at the last push of an Abort
    silenced        \* history: aborted when tts_loop last took an Abort

ttsVars == <<tts_pc, text, audio, tts_sentence_queue, playing, left>>
clientVars == <<wire, in_session, buffered, announced>>
handleVars == <<handle_pc, aborts, aborted>>
vars == <<is_released_, llm_response_, pushed, ws_text_, silenced,
          ttsVars, clientVars, handleVars>>

Sentence == 1..MaxSentences
Abort == 0        \* the string "<abort>"
Nothing == 0

TtsPc == {"poll", "sleep", "starting", "synth", "audio", "audio_sent",
          "sentences", "announcing", "stop_check", "stopping", "aborting",
          "over", "dead"}

Init ==
    /\ is_released_ = FALSE
    /\ handle_pc = "reading"
    /\ llm_response_ = EmptyQueue
    /\ pushed = 0
    /\ tts_pc = "poll"
    /\ text = Nothing
    /\ audio = 0
    /\ tts_sentence_queue = <<>>
    /\ playing = FALSE
    /\ left = 0
    /\ ws_text_ = TRUE
    /\ wire = [kind |-> "none", text |-> TRUE, of |-> Nothing]
    /\ in_session = FALSE
    /\ buffered = 0
    /\ announced = 0
    /\ aborts = 0
    /\ aborted = 0
    /\ silenced = 0

-----------------------------------------------------------------------------
(* The producers, the end of the connection, and time *)

\* push_llm_response in some handle_asr_text.
PushSentence ==
    /\ pushed < MaxSentences
    /\ pushed' = pushed + 1
    /\ llm_response_' = Push(llm_response_, pushed + 1)
    /\ UNCHANGED <<is_released_, ws_text_, silenced, ttsVars, clientVars, handleVars>>

\* handle_text of an abort message: the queue is emptied ...
AbortClears ==
    /\ handle_pc = "reading"
    /\ aborts < MaxAborts
    /\ aborts' = aborts + 1
    /\ llm_response_' = Cleared(llm_response_)
    /\ handle_pc' = "clearing"
    /\ UNCHANGED <<is_released_, pushed, ws_text_, silenced, aborted, ttsVars, clientVars>>

\* Mutant: the push comes before the clear.
PushedAndCleared(q) == Cleared(Push(q, Abort))

\* The queue after the abort's push.
WithAbort(q) == Push(q, Abort)

\* ... and then the mark is pushed: a handler may have pushed in between.
AbortPushes ==
    /\ handle_pc = "clearing"
    /\ llm_response_' = WithAbort(llm_response_)
    /\ aborted' = pushed
    /\ handle_pc' = IF is_released_ THEN "over" ELSE "reading"
    /\ UNCHANGED <<is_released_, pushed, ws_text_, silenced, aborts, ttsVars, clientVars>>

\* handle() ends: the peer is gone, nothing was received in time.
HandleEnds ==
    /\ handle_pc = "reading"
    /\ handle_pc' = "over"
    /\ is_released_' = TRUE
    /\ UNCHANGED <<llm_response_, pushed, ws_text_, silenced, aborts, aborted,
                   ttsVars, clientVars>>

\* A handle_asr_text recognises an exit command.
ExitCommand ==
    /\ is_released_' = TRUE
    /\ UNCHANGED <<llm_response_, pushed, ws_text_, silenced, ttsVars,
                   clientVars, handleVars>>

\* ws_.async_write of a message; asText is what ws_.text/binary left.
Writes(kind, asText, of) == wire' = [kind |-> kind, text |-> asText, of |-> of]

\* handle_text answers a hello, in whatever state tts_loop is, and goes on at pc.
SendsWelcome(pc) ==
    /\ handle_pc = "reading"
    /\ handle_pc' = pc
    /\ ws_text_' = TRUE
    /\ Writes("hello", TRUE, Nothing)
    /\ UNCHANGED <<is_released_, llm_response_, pushed, silenced, ttsVars,
                   in_session, buffered, announced, aborts, aborted>>

Earlier(t, floor) == IF t > floor THEN t - 1 ELSE t

\* Time passes, and the client plays.
Tick ==
    /\ left' = IF playing THEN Earlier(left, -MaxLag) ELSE left
    /\ tts_sentence_queue' = [i \in 1..Len(tts_sentence_queue) |->
         [tts_sentence_queue[i] EXCEPT !.due = Earlier(@, 0)]]
    /\ buffered' = Earlier(buffered, 0)
    /\ UNCHANGED <<is_released_, llm_response_, pushed, ws_text_, silenced, tts_pc,
                   text, audio, playing, wire, in_session, announced, handleVars>>

-----------------------------------------------------------------------------
(* tts_loop() *)

\* The loop condition fails, or llm_response_ is empty.
TtsPolls ==
    /\ tts_pc = "poll"
    /\ \/ is_released_ /\ tts_pc' = "over"
       \/ ~is_released_ /\ IsEmpty(llm_response_) /\ tts_pc' = "sleep"
    /\ UNCHANGED <<is_released_, llm_response_, pushed, ws_text_, silenced, text,
                   audio, tts_sentence_queue, playing, left, clientVars, handleVars>>

TtsWakes ==
    /\ tts_pc = "sleep"
    /\ tts_pc' = "sentences"
    /\ UNCHANGED <<is_released_, llm_response_, pushed, ws_text_, silenced, text,
                   audio, tts_sentence_queue, playing, left, clientVars, handleVars>>

\* Mutant: the subtitles are kept.
KeepsSubtitles(queue) == queue

\* What an abort leaves of the subtitles.
AfterAbort(queue) == <<>>

\* "<abort>" is taken: the subtitles are dropped and a stop is written, with
\* whatever opcode the last write used.
TtsTakesAbort ==
    /\ tts_pc = "poll" /\ ~is_released_
    /\ ~IsEmpty(llm_response_) /\ Front(llm_response_) = Abort
    /\ llm_response_' = Rest(llm_response_)
    /\ tts_sentence_queue' = AfterAbort(tts_sentence_queue)
    /\ Writes("stop", ws_text_, Nothing)
    /\ in_session' = FALSE
    /\ silenced' = aborted
    /\ tts_pc' = "aborting"
    /\ UNCHANGED <<is_released_, pushed, ws_text_, text, audio, playing, left,
                   buffered, announced, handleVars>>

\* Mutant: the stop timestamp is not reset.
TtsAbortedAndPlaying ==
    /\ tts_pc = "aborting"
    /\ tts_pc' = "poll"
    /\ UNCHANGED <<is_released_, llm_response_, pushed, ws_text_, silenced, text,
                   audio, tts_sentence_queue, playing, left, clientVars, handleVars>>

TtsAborted ==
    /\ tts_pc = "aborting"
    /\ playing' = FALSE /\ left' = 0
    /\ tts_pc' = "poll"
    /\ UNCHANGED <<is_released_, llm_response_, pushed, ws_text_, silenced, text,
                   audio, tts_sentence_queue, clientVars, handleVars>>

\* A sentence is taken; unless one is playing, a start is written first.
TtsTakesSentence ==
    /\ tts_pc = "poll" /\ ~is_released_
    /\ ~IsEmpty(llm_response_) /\ Front(llm_response_) # Abort
    /\ text' = Front(llm_response_)
    /\ llm_response_' = Rest(llm_response_)
    /\ IF playing
       THEN tts_pc' = "synth" /\ UNCHANGED <<ws_text_, wire, in_session>>
       ELSE /\ tts_pc' = "starting"
            /\ ws_text_' = TRUE
            /\ Writes("start", TRUE, Nothing)
            /\ in_session' = TRUE
    /\ UNCHANGED <<is_released_, pushed, silenced, audio, tts_sentence_queue,
                   playing, left, buffered, announced, handleVars>>

TtsStarted ==
    /\ tts_pc = "starting"
    /\ playing' = TRUE /\ left' = 0
    /\ tts_pc' = "synth"
    /\ UNCHANGED <<is_released_, llm_response_, pushed, ws_text_, silenced, text,
                   audio, tts_sentence_queue, clientVars, handleVars>>

\* Mutant: the clock is not compared, only subtracted.
DueIn(stopIn) == stopIn

\* When the subtitle of a sentence is due whose audio starts at the stop time.
DueAt(stopIn) == IF stopIn > 0 THEN stopIn ELSE 0

\* text_to_speak returns, with no frame when it could not speak the sentence.
TtsSynthesised ==
    /\ tts_pc = "synth"
    /\ audio' \in 0..MaxAudio
    /\ tts_sentence_queue' =
         Append(tts_sentence_queue, [text |-> text, due |-> DueAt(left)])
    /\ tts_pc' = "audio"
    /\ UNCHANGED <<is_released_, llm_response_, pushed, ws_text_, silenced, text,
                   playing, left, clientVars, handleVars>>

\* The next frame of the sentence is written, or none is left.
TtsSpeaks ==
    /\ tts_pc = "audio"
    /\ IF audio = 0
       THEN tts_pc' = "sentences" /\ UNCHANGED <<ws_text_, wire, buffered>>
       ELSE /\ tts_pc' = "audio_sent"
            /\ ws_text_' = FALSE
            /\ Writes("audio", FALSE, text)
            /\ buffered' = buffered + 1
    /\ UNCHANGED <<is_released_, llm_response_, pushed, silenced, text, audio,
                   tts_sentence_queue, playing, left, in_session, announced, handleVars>>

\* Mutant: a frame is taken for 120 ms.
ProlongedTwice(t) == t + 2

\* 60 ms for each frame.
Prolonged(t) == t + 1

TtsSpoke ==
    /\ tts_pc = "audio_sent"
    /\ left' = Prolonged(left)
    /\ audio' = audio - 1
    /\ tts_pc' = "audio"
    /\ UNCHANGED <<is_released_, llm_response_, pushed, ws_text_, silenced, text,
                   tts_sentence_queue, playing, clientVars, handleVars>>

\* The subtitle of the first queued sentence is written when it is due.
TtsAnnounces ==
    /\ tts_pc = "sentences"
    /\ IF tts_sentence_queue # <<>> /\ Head(tts_sentence_queue).due = 0
       THEN /\ tts_pc' = "announcing"
            /\ ws_text_' = TRUE
            /\ Writes("sentence_start", TRUE, Head(tts_sentence_queue).text)
            /\ announced' = Head(tts_sentence_queue).text
       ELSE tts_pc' = "stop_check" /\ UNCHANGED <<ws_text_, wire, announced>>
    /\ UNCHANGED <<is_released_, llm_response_, pushed, silenced, text, audio,
                   tts_sentence_queue, playing, left, in_session, buffered, handleVars>>

\* Mutants: the first is kept; all are dropped.
NotPopped(queue) == queue
AllPopped(queue) == <<>>

\* What is left of the subtitles once the first is written.
AfterAnnouncement(queue) == Tail(queue)

TtsAnnounced ==
    /\ tts_pc = "announcing"
    /\ tts_sentence_queue' = AfterAnnouncement(tts_sentence_queue)
    /\ tts_pc' = "sentences"
    /\ UNCHANGED <<is_released_, llm_response_, pushed, ws_text_, silenced, text,
                   audio, playing, left, clientVars, handleVars>>

\* Mutant: the clock is expected to meet the stop time.
IsPlayedOutNow == playing /\ left = 0

\* The clock is read again: past the stop time, a stop is written.
IsPlayedOut == playing /\ left < 0

TtsChecksStop ==
    /\ tts_pc = "stop_check"
    /\ IF IsPlayedOut
       THEN /\ tts_pc' = "stopping"
            /\ ws_text_' = TRUE
            /\ Writes("stop", TRUE, Nothing)
            /\ in_session' = FALSE
       ELSE tts_pc' = "poll" /\ UNCHANGED <<ws_text_, wire, in_session>>
    /\ UNCHANGED <<is_released_, llm_response_, pushed, silenced, text, audio,
                   tts_sentence_queue, playing, left, buffered, announced, handleVars>>

TtsStopped ==
    /\ tts_pc = "stopping"
    /\ playing' = FALSE /\ left' = 0
    /\ tts_pc' = "poll"
    /\ UNCHANGED <<is_released_, llm_response_, pushed, ws_text_, silenced, text,
                   audio, tts_sentence_queue, clientVars, handleVars>>

\* A write fails or the synthesis loses its service: the exception ends tts_loop.
TtsThrows ==
    /\ tts_pc \in Throwing
    /\ tts_pc' = "dead"
    /\ UNCHANGED <<is_released_, llm_response_, pushed, ws_text_, silenced, text,
                   audio, tts_sentence_queue, playing, left, clientVars, handleVars>>

TtsLoop == \/ TtsPolls \/ TtsWakes \/ TtsTakesAbort \/ TtsAborted
           \/ TtsTakesSentence \/ TtsStarted \/ TtsSynthesised \/ TtsSpeaks
           \/ TtsSpoke \/ TtsAnnounces \/ TtsAnnounced \/ TtsChecksStop
           \/ TtsStopped \/ TtsThrows

Next ==
    \/ PushSentence \/ AbortClears \/ AbortPushes \/ HandleEnds \/ ExitCommand
    \/ SendsWelcome("reading") \/ Tick
    \/ TtsLoop

Spec == Init /\ [][Next]_vars

\* Timers expire and the pool runs what is ready; writes complete or throw; the
\* speech synthesis answers or throws, which is an assumption about an external
\* service: tts_loop waits for it without a time limit.
Fairness == WF_vars(Tick) /\ WF_vars(TtsLoop) /\ WF_vars(AbortPushes)

FairSpec == Spec /\ Fairness

-----------------------------------------------------------------------------
(* Properties *)

\* Type invariant; a queued subtitle never waits a negative time.
TypeOK ==
    /\ is_released_ \in BOOLEAN
    /\ handle_pc \in {"reading", "clearing", "over"}
    /\ llm_response_ \in Seq(Sentence \union {Abort})
    /\ pushed \in 0..MaxSentences
    /\ tts_pc \in TtsPc
    /\ text \in Sentence \union {Nothing}
    /\ audio \in 0..MaxAudio
    /\ tts_sentence_queue \in Seq([text : Sentence, due : Nat])
    /\ playing \in BOOLEAN
    /\ left \in Int /\ left >= -MaxLag
    /\ ws_text_ \in BOOLEAN
    /\ wire \in [kind : {"none", "hello", "start", "audio", "sentence_start", "stop"},
                 text : BOOLEAN, of : Sentence \union {Nothing}]
    /\ in_session \in BOOLEAN
    /\ buffered \in Nat
    /\ announced \in 0..MaxSentences
    /\ aborts \in 0..MaxAborts
    /\ aborted \in 0..MaxSentences
    /\ silenced \in 0..MaxSentences

\* The step at hand begins the write after which tts_loop is at pc.
Begins(pc) == tts_pc # pc /\ tts_pc' = pc

\* Whatever comes between them, abort messages and failing syntheses included,
\* starts and stops alternate: a start is sent only to a client that is not in a
\* session, audio and the stop that ends the speech only to one that is.
FramesFitTheSession ==
    [][/\ Begins("starting") => ~in_session
       /\ Begins("audio_sent") => in_session
       /\ Begins("stopping") => in_session]_vars

\* After the stop that answers an abort nothing is spoken or shown that was
\* pushed before the abort mark, although the synthesis of a sentence, several
\* subtitles and sentences pushed between clear() and push() were on their way.
AbortSilencesWhatWasPushed == wire.of # Nothing => wire.of > silenced

\* The play time that tts_loop accounts for is never more than the audio that the
\* client has still to play, so no session is kept open once all is played.
\* (It may be less: the time a synthesis takes is not made up for.)
StopIsNeverLate == playing => left <= buffered

\* Subtitles are shown once, in the order of the answer, and not before all the
\* audio of the sentence is written.
SubtitlesFollowTheSpeech ==
    [][Begins("announcing") => /\ announced < announced'
                              /\ announced' <= text
                              /\ audio = 0]_vars

HasEnded == tts_pc \in {"over", "dead"}

\* Every abort is answered by a stop, even when it comes while sentences are
\* being pushed or a second abort clears the queue.
AbortIsAnswered == handle_pc = "clearing" ~> (tts_pc = "aborting" \/ HasEnded)

\* Every session that is started is stopped.
SessionEnds == in_session ~> (~in_session \/ HasEnded)

\* Every sentence pushed gets its subtitle, unless an abort came after it.
EverySentenceIsShown ==
    \A s \in Sentence :
        pushed >= s ~> (announced >= s \/ aborted >= s \/ HasEnded)

\* What the client of scripts/tests takes for granted: control messages are text
\* and audio is binary.
ControlMessagesAreText == wire.kind # "audio" => wire.text
=============================================================================
