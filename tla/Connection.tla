----------------------------- MODULE Connection -----------------------------
(***************************************************************************)
(* A whole Connection (connection.cpp): the components SpeechInput, Dialogue  *)
(* and SpeechOutput, joined by the coroutine handle(), which reads every       *)
(* message of the client, and by the flag is_released_, which ends them.       *)
(*                                                                         *)
(*   handle --asr_audio_--> asr_loop --spawn--> handle_asr_text               *)
(*     |                                             |                      *)
(*     +------- "<abort>" ---> llm_response_ <--sentences--+                   *)
(*                                 |                                        *)
(*                              tts_loop --> the client                      *)
(*                                                                         *)
(* Every action is an action of one component that leaves the others alone,    *)
(* or a joint action of those it concerns.                                   *)
(***************************************************************************)
EXTENDS Integers, ThreadSafeQueue

CONSTANTS MaxFrames, Faults,                                  \* SpeechInput
          MaxSentences, MaxAborts, MaxAudio, MaxLag, Throwing \* SpeechOutput

\* What the components assume of them.
ASSUME ConnectionAssumption ==
    /\ MaxFrames \in Nat
    /\ Faults \subseteq {"frame_lost", "stream_lost", "no_text", "throws"}
    /\ MaxSentences \in Nat /\ MaxAborts \in Nat /\ MaxAudio \in Nat
    /\ MaxLag \in Nat /\ MaxLag > MaxAudio
    /\ Throwing \subseteq {"starting", "synth", "audio_sent", "announcing",
                           "stopping", "aborting"}

VARIABLES
    is_released_, handle_pc,
    heard, asr_audio_, armed, fired, asr_pc, buf, stream, utterances,
    handler, dialogue_, seen, asked, answers, raced,
    llm_response_, pushed, tts_pc, text, audio, tts_sentence_queue, playing,
    left, ws_text_, wire, in_session, buffered, announced, aborts, aborted,
    silenced,
    interrupted,  \* history: the answers in progress when the last abort arrived
    cancelled     \* history: interrupted, once tts_loop answers that abort

\* The components, on the variables they share.
In == INSTANCE SpeechInput
Talk == INSTANCE Dialogue WITH MaxHandlers <- MaxFrames, spawned <- Len(utterances)
Out == INSTANCE SpeechOutput

inVars == <<heard, asr_audio_, armed, fired, asr_pc, buf, stream, utterances>>
talkVars == <<handler, dialogue_, seen, asked, answers, raced>>
outVars == <<llm_response_, pushed, tts_pc, text, audio, tts_sentence_queue,
             playing, left, ws_text_, wire, in_session, buffered, announced,
             aborts, aborted, silenced>>
historyVars == <<interrupted, cancelled>>
vars == <<is_released_, handle_pc, inVars, talkVars, outVars, historyVars>>

Init == In!Init /\ Talk!Init /\ Out!Init /\ interrupted = {} /\ cancelled = {}

-----------------------------------------------------------------------------
(* handle(): one message at a time *)

\* A voiced frame: handle_binary, in two steps.
Listens ==
    /\ In!HandleVoicedFrame \/ In!ArmSilenceTimer
    /\ UNCHANGED <<talkVars, outVars, historyVars>>

\* The answers that are being given.
InProgress == {h \in Talk!Handler : handler[h] \in
                       {"asking", "reading_dialogue", "answering"}}

\* Mutant: an abort also cancels the silence wait.
AbortsAndCancels ==
    /\ Out!AbortClears \/ Out!AbortPushes
    /\ interrupted' = IF handle_pc' = "clearing" THEN InProgress ELSE interrupted
    /\ armed' = 0
    /\ UNCHANGED <<heard, asr_audio_, fired, asr_pc, buf, stream, utterances>>
    /\ UNCHANGED <<talkVars, cancelled>>

\* An abort: handle_text, in two steps.
Aborts ==
    /\ Out!AbortClears \/ Out!AbortPushes
    /\ interrupted' = IF handle_pc' = "clearing" THEN InProgress ELSE interrupted
    /\ UNCHANGED <<inVars, talkVars, cancelled>>

\* Mutant: the welcome is written with the opcode of the last message.
WelcomesInAnyOpcode ==
    /\ handle_pc = "reading"
    /\ handle_pc' = "welcoming"
    /\ Out!Writes("hello", ws_text_, Out!Nothing)
    /\ UNCHANGED <<is_released_, llm_response_, pushed, tts_pc, text, audio,
                   tts_sentence_queue, playing, left, ws_text_, in_session,
                   buffered, announced, aborts, aborted, silenced>>
    /\ UNCHANGED <<inVars, talkVars, historyVars>>

\* A hello: the welcome is written, and handle waits for the write.
Welcomes ==
    /\ Out!SendsWelcome("welcoming")
    /\ UNCHANGED <<inVars, talkVars, historyVars>>

\* The write is done.
Welcomed ==
    /\ handle_pc = "welcoming"
    /\ handle_pc' = IF is_released_ THEN "over" ELSE "reading"
    /\ UNCHANGED <<is_released_, inVars, talkVars, outVars, historyVars>>

\* A text that is not a JSON object makes boost::json::parse throw, and so does
\* a welcome that cannot be written: the exception ends handle() before it sets
\* is_released_.
HandleThrows ==
    /\ handle_pc \in {"reading", "welcoming"}
    /\ handle_pc' = "threw"
    /\ UNCHANGED <<is_released_, inVars, talkVars, outVars, historyVars>>

\* Mutant: once released, the read has no time limit.
HandleEndsUnlessReleased ==
    /\ ~is_released_
    /\ In!HandleEnds
    /\ UNCHANGED <<talkVars, outVars, historyVars>>

\* The client closes, fails, or is silent for close_connection_no_voice_time.
HandleEnds ==
    /\ In!HandleEnds
    /\ UNCHANGED <<talkVars, outVars, historyVars>>

Handle == Listens \/ Aborts \/ Welcomes \/ Welcomed \/ HandleThrows \/ HandleEnds

-----------------------------------------------------------------------------
(* The other coroutines and the timer *)

SilenceTimer ==
    /\ In!SilenceExpires \/ In!SilenceHandler
    /\ UNCHANGED <<handle_pc, talkVars, outVars, historyVars>>

AsrLoop ==
    /\ In!AsrLoop
    /\ UNCHANGED <<handle_pc, talkVars, outVars, historyVars>>

\* Mutant: the rest of the answer is pushed when the handler is done.
PushesLate(h) ==
    /\ Out!PushSentence
    /\ UNCHANGED <<inVars, historyVars>>
    /\ Talk!Goes(h, "done", "done")
    /\ answers' = Append(answers, h)
    /\ UNCHANGED <<dialogue_, seen, asked, raced>>

\* A step of handle_asr_text that pushes a sentence, and one that does not.
PushesSentence(h) ==
    /\ Out!PushSentence
    /\ UNCHANGED <<inVars, historyVars>>
    /\ Talk!Speaks(h)

Converses(h) ==
    /\ UNCHANGED <<handle_pc, inVars, outVars, historyVars>>
    /\ Talk!Converses(h)

TtsLoop ==
    /\ Out!TtsLoop
    /\ cancelled' = IF Out!Begins("aborting") THEN interrupted ELSE cancelled
    /\ UNCHANGED <<inVars, talkVars, interrupted>>

Tick ==
    /\ Out!Tick
    /\ UNCHANGED <<inVars, talkVars, historyVars>>

\* As long as no access to dialogue_ has brought the process down.
Next ==
    /\ Talk!Alive
    /\ \/ Handle \/ SilenceTimer \/ AsrLoop
       \/ \E h \in Talk!Handler : PushesSentence(h) \/ Converses(h)
       \/ TtsLoop \/ Tick

Spec == Init /\ [][Next]_vars

\* What the components assume, and of handle(): a step once begun is finished,
\* and a client that stays connected falls silent in the end.
Fairness ==
    /\ WF_vars(Talk!Alive /\ Listens /\ handle_pc = "arming")
    /\ WF_vars(Talk!Alive /\ Aborts /\ handle_pc = "clearing")
    /\ WF_vars(Talk!Alive /\ Welcomed)
    /\ WF_vars(Talk!Alive /\ HandleEnds)
    /\ WF_vars(Talk!Alive /\ In!SilenceExpires /\ SilenceTimer)
    /\ WF_vars(Talk!Alive /\ In!SilenceHandler /\ SilenceTimer)
    /\ WF_vars(Talk!Alive /\ AsrLoop)
    /\ WF_vars(Talk!Alive /\ TtsLoop)
    /\ WF_vars(Talk!Alive /\ Tick)
    /\ \A h \in Talk!Handler : WF_vars(Converses(h))

FairSpec == Spec /\ Fairness

-----------------------------------------------------------------------------
(* Properties *)

\* What SpeechInput and SpeechOutput see of handle().
InView == INSTANCE SpeechInput WITH
    handle_pc <- IF handle_pc \in {"arming", "over"} THEN handle_pc ELSE "reading"
OutView == INSTANCE SpeechOutput WITH
    handle_pc <- IF handle_pc \in {"clearing", "over"} THEN handle_pc ELSE "reading"

\* The components keep their promises in the whole: what handle() does for one
\* is among what the other expects of its surroundings.
ImplementsSpeechInput == InView!Spec
ImplementsSpeechOutput == OutView!Spec
ImplementsDialogue == Talk!Spec

\* The Connection object is gone: no coroutine, handler or wait refers to it.
Destroyed ==
    /\ handle_pc \in {"over", "threw"}
    /\ asr_pc \in {"over", "dead"} /\ tts_pc \in {"over", "dead"}
    /\ armed = 0 /\ fired = {}
    /\ \A h \in Talk!Handler : h <= Len(utterances) => Talk!Handled(h)

\* Once a connection is released all its parts end, and it is destroyed, from
\* whatever each of them was doing, unless the process ends first.
ReleaseDestroys == is_released_ ~> Destroyed \/ ~Talk!Alive

\* Documented (config.example.yaml): a connection without speech is closed.
QuietConnectionCloses == <>is_released_

\* Documented (README.md): an answer can be interrupted.  After the stop for an
\* abort nothing more is said of an answer that was being given.
AbortEndsTheAnswer == wire.of # Out!Nothing => answers[wire.of] \notin cancelled
=============================================================================
