---------------------------- MODULE SpeechInput ----------------------------
(***************************************************************************)
(* The listening half of a Connection (connection.cpp): the handle()        *)
(* coroutine as far as binary messages go, the silence timer, the asr_audio_ *)
(* queue between them and the asr_loop() coroutine, and asr_loop() itself.   *)
(*                                                                         *)
(* handle() runs on the connection's strand; asr_loop() and the completion  *)
(* handler of silence_timer_ run on the bare executor, that is, on any       *)
(* thread of the pool.  Their steps interleave freely; only the mutex of     *)
(* asr_audio_ orders them.                                                  *)
(*                                                                         *)
(* asr_loop reads is_released_ and pops in one step here.  The flag is only   *)
(* ever set; when it is set between the two, the loop acts as if it had been   *)
(* set right after the pop.                                                 *)
(*                                                                         *)
(* A voiced opus frame is its number in order of arrival.  The recogniser    *)
(* behind asr::Base is abstracted to the frames it holds for the running     *)
(* utterance; a text is the sequence of frames it was recognised from.       *)
(***************************************************************************)
EXTENDS Naturals, ThreadSafeQueue

CONSTANTS MaxFrames,  \* how many voiced frames the client sends at most
          Faults      \* what the configured recogniser may do wrong

ASSUME MaxFramesAssumption == MaxFrames \in Nat
ASSUME FaultsAssumption ==
    Faults \subseteq {"frame_lost", "stream_lost", "no_text", "throws"}

VARIABLES
    is_released_,
    handle_pc,    \* "reading", "arming" (between two lines of handle_binary), "over"
    heard,        \* voiced frames that handle_binary has queued
    asr_audio_,   \* ThreadSafeQueue of frames and EndOfSpeech marks
    armed,        \* the frame whose silence_timer_ wait is pending, or None
    fired,        \* frames whose wait has expired and whose handler has yet to run
    asr_pc,       \* where asr_loop is: "poll", "sleep", "detect", "over", "dead"
    buf,          \* the element asr_loop has taken, while "detect"
    stream,       \* the frames the recogniser holds since its last flush
    utterances    \* the texts asr_loop has spawned handle_asr_text for

vars == <<is_released_, handle_pc, heard, asr_audio_, armed, fired,
          asr_pc, buf, stream, utterances>>

Frame == 1..MaxFrames
EndOfSpeech == 0     \* std::nullopt
None == 0

Init ==
    /\ is_released_ = FALSE
    /\ handle_pc = "reading"
    /\ heard = 0
    /\ asr_audio_ = EmptyQueue
    /\ armed = None
    /\ fired = {}
    /\ asr_pc = "poll"
    /\ buf = None
    /\ stream = <<>>
    /\ utterances = <<>>

-----------------------------------------------------------------------------
(* The strand: handle() and handle_binary() *)

\* A voiced frame arrives and is queued.  The strand is kept until the timer
\* is armed, but other threads may run in between.
HandleVoicedFrame ==
    /\ handle_pc = "reading"
    /\ heard < MaxFrames
    /\ heard' = heard + 1
    /\ asr_audio_' = Push(asr_audio_, heard + 1)
    /\ handle_pc' = "arming"
    /\ UNCHANGED <<is_released_, armed, fired, asr_pc, buf, stream, utterances>>

\* Mutant: the wait is cancelled and not restarted.
NotRearmed(f) == None

\* cancel(), expires_after() and async_wait(): a wait that is still pending is
\* replaced, one that has already expired (fired) is out of reach.
Rearmed(f) == f

\* Where handle() goes from the end of its loop body.
LoopHead == IF is_released_ THEN "over" ELSE "reading"

ArmSilenceTimer ==
    /\ handle_pc = "arming"
    /\ armed' = Rearmed(heard)
    /\ handle_pc' = LoopHead
    /\ UNCHANGED <<is_released_, heard, asr_audio_, fired, asr_pc, buf,
                   stream, utterances>>

\* The read fails, times out or finds the peer gone, or it brings a message
\* after which the loop condition is false.
HandleEnds ==
    /\ handle_pc = "reading"
    /\ handle_pc' = "over"
    /\ is_released_' = TRUE
    /\ UNCHANGED <<heard, asr_audio_, armed, fired, asr_pc, buf, stream, utterances>>

-----------------------------------------------------------------------------
(* silence_timer_ *)

\* The wait expires: its handler is queued with success and cancel() can no
\* longer reach it.
SilenceExpires ==
    /\ armed # None
    /\ fired' = fired \union {armed}
    /\ armed' = None
    /\ UNCHANGED <<is_released_, handle_pc, heard, asr_audio_, asr_pc, buf,
                   stream, utterances>>

\* A pool thread runs such a handler.
SilenceHandler ==
    /\ \E f \in fired : fired' = fired \ {f}
    /\ asr_audio_' = Push(asr_audio_, EndOfSpeech)
    /\ UNCHANGED <<is_released_, handle_pc, heard, armed, asr_pc, buf, stream,
                   utterances>>

-----------------------------------------------------------------------------
(* asr_loop() *)

\* Mutant: a released connection makes the loop skip its work, not end.
AsrSkipsWork ==
    /\ asr_pc = "poll"
    /\ is_released_
    /\ asr_pc' = "sleep"
    /\ UNCHANGED <<is_released_, handle_pc, heard, asr_audio_, armed, fired,
                   buf, stream, utterances>>

AsrOver ==
    /\ asr_pc = "poll"
    /\ is_released_
    /\ asr_pc' = "over"
    /\ UNCHANGED <<is_released_, handle_pc, heard, asr_audio_, armed, fired,
                   buf, stream, utterances>>

\* Mutant: break instead of continue when nothing is queued.
AsrGivesUp ==
    /\ asr_pc = "poll"
    /\ ~is_released_
    /\ IsEmpty(asr_audio_)
    /\ asr_pc' = "over"
    /\ UNCHANGED <<is_released_, handle_pc, heard, asr_audio_, armed, fired,
                   buf, stream, utterances>>

AsrFindsNothing ==
    /\ asr_pc = "poll"
    /\ ~is_released_
    /\ IsEmpty(asr_audio_)
    /\ asr_pc' = "sleep"
    /\ UNCHANGED <<is_released_, handle_pc, heard, asr_audio_, armed, fired,
                   buf, stream, utterances>>

AsrWakes ==
    /\ asr_pc = "sleep"
    /\ asr_pc' = "poll"
    /\ UNCHANGED <<is_released_, handle_pc, heard, asr_audio_, armed, fired,
                   buf, stream, utterances>>

AsrTakes ==
    /\ asr_pc = "poll"
    /\ ~is_released_
    /\ ~IsEmpty(asr_audio_)
    /\ buf' = Front(asr_audio_)
    /\ asr_audio_' = Rest(asr_audio_)
    /\ asr_pc' = "detect"
    /\ UNCHANGED <<is_released_, handle_pc, heard, armed, fired, stream, utterances>>

\* What the recogniser may hold once it was given frame f: the frame is added;
\* it cannot be decoded or no connection can be made; sending it fails and the
\* server-side stream is gone.
Fed(held, f) ==
    {Append(held, f)}
        \union (IF "frame_lost" \in Faults THEN {held} ELSE {})
        \union (IF "stream_lost" \in Faults THEN {<<>>} ELSE {})

\* The texts that a flush may return for the frames held.
Recognised(held) ==
    {held} \union (IF "no_text" \in Faults THEN {<<>>} ELSE {})

\* Mutant: a flush does not begin a new utterance.
NotFlushed(held) == held

\* What the recogniser holds after a flush.
Flushed(held) == <<>>

\* Mutant: what was taken is decoded without a look at whether it is a frame.
AsrFeedsAnything ==
    /\ asr_pc = "detect"
    /\ stream' \in Fed(stream, buf)
    /\ buf' = None
    /\ asr_pc' = "poll"
    /\ UNCHANGED <<is_released_, handle_pc, heard, asr_audio_, armed, fired, utterances>>

AsrFeeds ==
    /\ asr_pc = "detect"
    /\ buf # EndOfSpeech
    /\ stream' \in Fed(stream, buf)
    /\ buf' = None
    /\ asr_pc' = "poll"
    /\ UNCHANGED <<is_released_, handle_pc, heard, asr_audio_, armed, fired, utterances>>

\* The mark flushes the recogniser; a handler is spawned for a text that is
\* not empty.
AsrFlushes ==
    /\ asr_pc = "detect"
    /\ buf = EndOfSpeech
    /\ \E text \in Recognised(stream) :
         utterances' = IF text = <<>> THEN utterances ELSE Append(utterances, text)
    /\ stream' = Flushed(stream)
    /\ buf' = None
    /\ asr_pc' = "poll"
    /\ UNCHANGED <<is_released_, handle_pc, heard, asr_audio_, armed, fired>>

\* detect_opus throws: the coroutine ends, the connection stays.
AsrThrows ==
    /\ asr_pc = "detect"
    /\ "throws" \in Faults
    /\ buf' = None
    /\ asr_pc' = "dead"
    /\ UNCHANGED <<is_released_, handle_pc, heard, asr_audio_, armed, fired,
                   stream, utterances>>

AsrLoop == \/ AsrOver \/ AsrFindsNothing \/ AsrWakes \/ AsrTakes
           \/ AsrFeeds \/ AsrFlushes \/ AsrThrows

-----------------------------------------------------------------------------
\* A handle_asr_text finds that its text is one of CMD_exit.
ExitCommand ==
    /\ utterances # <<>>
    /\ is_released_' = TRUE
    /\ UNCHANGED <<handle_pc, heard, asr_audio_, armed, fired, asr_pc, buf,
                   stream, utterances>>

\* Everything has ended: nothing more happens.
Ended ==
    /\ handle_pc = "over"
    /\ asr_pc \in {"over", "dead"}
    /\ armed = None /\ fired = {}
    /\ UNCHANGED vars

Next ==
    \/ HandleVoicedFrame \/ ArmSilenceTimer \/ HandleEnds
    \/ SilenceExpires \/ SilenceHandler
    \/ AsrLoop
    \/ ExitCommand
    \/ Ended

Spec == Init /\ [][Next]_vars

\* The pool keeps running what is ready to run and timers expire.  Nothing is
\* assumed of the client: it need not send a frame, nor close.
Fairness ==
    /\ WF_vars(ArmSilenceTimer)
    /\ WF_vars(SilenceExpires)
    /\ WF_vars(SilenceHandler)
    /\ WF_vars(AsrLoop)

FairSpec == Spec /\ Fairness

-----------------------------------------------------------------------------
(* Properties *)

\* Type invariant of the state that handle, the silence timer and asr_loop share.
TypeOK ==
    /\ is_released_ \in BOOLEAN
    /\ handle_pc \in {"reading", "arming", "over"}
    /\ heard \in 0..MaxFrames
    /\ asr_audio_ \in Seq(Frame \union {EndOfSpeech})
    /\ armed \in Frame \union {None}
    /\ fired \subseteq Frame
    /\ asr_pc \in {"poll", "sleep", "detect", "over", "dead"}
    /\ buf \in Frame \union {None}
    /\ stream \in Seq(Frame)
    /\ utterances \in Seq(Seq(Frame))

\* Some frame has been queued, and no EndOfSpeech after it is queued or being
\* recognised.
SpeechIsOpen ==
    IF asr_audio_ # <<>> THEN asr_audio_[Len(asr_audio_)] # EndOfSpeech
    ELSE IF asr_pc = "detect" THEN buf # EndOfSpeech
    ELSE stream # <<>>

\* A wait is pending, has expired, or is about to be started.
EndOfSpeechIsComing == armed # None \/ fired # {} \/ handle_pc = "arming"

\* Speech is never left without an end: in whatever order frames, expiries and
\* handlers run, as long as the last thing on its way to the recogniser is a
\* frame there is a silence wait that will close the utterance
\* (handle_binary cancels a wait only to start another).
SpeechWillEnd ==
    asr_pc # "dead" /\ SpeechIsOpen => EndOfSpeechIsComing

Transcript == INSTANCE Transcript WITH spoken <- heard, said <- utterances

\* The listening half implements Transcript: the frames of all texts ever
\* spawned are in the order they were received, none twice, and no text mixes
\* frames from before and after the text spawned ahead of it, whatever the
\* recogniser loses and however late a silence handler runs.
ImplementsTranscript == Transcript!Spec

\* The frames on their way to the dialogue.
Pending ==
    {asr_audio_[i] : i \in DOMAIN asr_audio_} \union {stream[i] : i \in DOMAIN stream}
        \union (IF asr_pc = "detect" THEN {buf} ELSE {})

\* Every frame is settled: when the speaker pauses, each frame queued is in the
\* end part of a text or lost in the recogniser, unless the connection is
\* released or asr_loop has died; none stays in the queue or in the recogniser
\* for ever.
EveryFrameSettles ==
    \A f \in Frame :
        f \in Pending ~> (f \notin Pending \/ is_released_ \/ asr_pc = "dead")

\* Once the connection is released asr_loop ends, whatever it was waiting for.
ReleaseEndsAsrLoop == is_released_ ~> asr_pc \in {"over", "dead"}
=============================================================================
