-------------------------- MODULE ConnectionProofs --------------------------
(***************************************************************************)
(* Proofs about Connection: whatever handle(), the loops, the handlers and     *)
(* the timer do together is, for each half of the connection, something the    *)
(* specification of that half allows; so are the handlers, and what is proved  *)
(* of the halves holds in the whole.  At the end, the Server around it: its     *)
(* types, and what keeps the detector whole that all connections share.  For    *)
(* every value of the constants.                                            *)
(***************************************************************************)
EXTENDS Connection, Server, SequenceTheorems, FiniteSetTheorems, TLAPS

-----------------------------------------------------------------------------
(* The listening half *)

\* A step of the connection that is none of the listening half's business.
LEMMA DeafStep ==
    ASSUME \/ HandleThrows \/ Welcomes
           \/ \E h \in Talk!Handler : PushesSentence(h)
           \/ TtsLoop \/ Tick \/ UNCHANGED vars
    PROVE  UNCHANGED InView!vars
<1> USE DEF InView!vars, inVars
<1>1. CASE HandleThrows \/ UNCHANGED vars
  BY <1>1 DEF HandleThrows, vars
<1>2. CASE Welcomes
  BY <1>2 DEF Welcomes, Out!SendsWelcome
<1>3. CASE \E h \in Talk!Handler : PushesSentence(h)
  BY <1>3 DEF PushesSentence, Out!PushSentence, Out!handleVars
<1>4. CASE Tick
  BY <1>4 DEF Tick, Out!Tick, Out!handleVars
<1>5. CASE TtsLoop
  BY <1>5 DEF TtsLoop, Out!TtsLoop, Out!TtsPolls, Out!TtsWakes, Out!TtsTakesAbort,
     Out!TtsAborted, Out!TtsTakesSentence, Out!TtsStarted, Out!TtsSynthesised,
     Out!TtsSpeaks, Out!TtsSpoke, Out!TtsAnnounces, Out!TtsAnnounced,
     Out!TtsChecksStop, Out!TtsStopped, Out!TtsThrows, Out!handleVars
<1> QED
  BY <1>1, <1>2, <1>3, <1>4, <1>5

\* The message at hand is finished after the connection was released: handle()
\* ends without reading another.
LEMMA OverAfterMessage ==
    ASSUME is_released_ \in BOOLEAN, Aborts \/ Welcomed
    PROVE  InView!HandleEnds \/ UNCHANGED InView!vars
<1>1. /\ UNCHANGED <<is_released_, inVars>>
      /\ handle_pc \in {"reading", "clearing", "welcoming"}
      /\ handle_pc' \in {"reading", "clearing"} \/ (handle_pc' = "over" /\ is_released_)
  BY DEF Aborts, Out!AbortClears, Out!AbortPushes, Welcomed
<1>2. CASE handle_pc' = "over"
  <2>1. is_released_' = TRUE
    BY <1>1, <1>2
  <2> QED
    BY <1>1, <1>2, <2>1 DEF InView!HandleEnds, inVars
<1>3. CASE handle_pc' # "over"
  BY <1>1, <1>3 DEF InView!vars, inVars
<1> QED
  BY <1>2, <1>3

\* Every step of the connection is a step of SpeechInput, or leaves it alone.
LEMMA ListeningStep ==
    is_released_ \in BOOLEAN /\ [Next]_vars => [InView!Next]_(InView!vars)
<1> SUFFICES ASSUME is_released_ \in BOOLEAN, [Next]_vars
             PROVE  InView!Next \/ UNCHANGED InView!vars
  OBVIOUS
<1>1. CASE Listens
  <2>1. CASE In!HandleVoicedFrame
    BY <2>1 DEF In!HandleVoicedFrame, InView!HandleVoicedFrame, In!Push, InView!Push,
                InView!Next
  <2>2. CASE In!ArmSilenceTimer
    BY <2>2 DEF In!ArmSilenceTimer, InView!ArmSilenceTimer, In!LoopHead, InView!LoopHead,
                In!Rearmed, InView!Rearmed, InView!Next
  <2> QED
    BY <1>1, <2>1, <2>2 DEF Listens
<1>2. CASE HandleEnds
  BY <1>2 DEF HandleEnds, In!HandleEnds, InView!HandleEnds, InView!Next
<1>3. CASE SilenceTimer
  BY <1>3 DEF SilenceTimer, In!SilenceExpires, InView!SilenceExpires, In!SilenceHandler,
              InView!SilenceHandler, In!Push, InView!Push, In!None, InView!None,
              In!EndOfSpeech, InView!EndOfSpeech, InView!Next
<1>4. CASE AsrLoop
  <2> SUFFICES InView!AsrLoop
    BY DEF InView!Next
  <2>1. CASE In!AsrOver \/ In!AsrFindsNothing \/ In!AsrWakes \/ In!AsrTakes \/ In!AsrThrows
    BY <1>4, <2>1 DEF AsrLoop, InView!AsrLoop, In!AsrOver, InView!AsrOver,
       In!AsrFindsNothing, InView!AsrFindsNothing, In!AsrWakes, InView!AsrWakes,
       In!AsrTakes, InView!AsrTakes, In!AsrThrows, InView!AsrThrows, In!IsEmpty,
       InView!IsEmpty, In!Front, InView!Front, In!Rest, InView!Rest, In!None, InView!None
  <2>2. CASE In!AsrFeeds
    <3>1. InView!Fed(stream, buf) = In!Fed(stream, buf)
      BY DEF In!Fed, InView!Fed
    <3> QED
      BY <1>4, <2>2, <3>1 DEF AsrLoop, InView!AsrLoop, In!AsrFeeds, InView!AsrFeeds,
         In!EndOfSpeech, InView!EndOfSpeech, In!None, InView!None
  <2>3. CASE In!AsrFlushes
    <3>1. InView!Recognised(stream) = In!Recognised(stream)
      BY DEF In!Recognised, InView!Recognised
    <3> QED
      BY <1>4, <2>3, <3>1 DEF AsrLoop, InView!AsrLoop, In!AsrFlushes, InView!AsrFlushes,
         In!EndOfSpeech, InView!EndOfSpeech, In!None, InView!None, In!Flushed,
         InView!Flushed
  <2> QED
    BY <1>4, <2>1, <2>2, <2>3 DEF AsrLoop, In!AsrLoop
<1>5. ASSUME NEW h \in Talk!Handler, Converses(h)
      PROVE  InView!Next \/ UNCHANGED InView!vars
  <2>1. CASE Talk!RecognisesExit(h)
    <3>1. Len(utterances) # 0
      BY <2>1 DEF Talk!RecognisesExit, Talk!Goes, Talk!Handler
    <3>2. utterances # <<>>
      BY <3>1
    <3> QED
      BY <1>5, <2>1, <3>2 DEF Converses, inVars, Talk!RecognisesExit, InView!ExitCommand,
         InView!Next
  <2>2. CASE ~Talk!RecognisesExit(h)
    <3>1. is_released_' = is_released_
      BY <1>5, <2>2 DEF Converses, Talk!Converses, Talk!BeginsQuestion,
         Talk!AddsQuestion, Talk!BeginsToAsk, Talk!Asks, Talk!ReadThrows, Talk!AnswerEnds,
         Talk!Fails, Talk!BeginsAnswer, Talk!AddsAnswer, Talk!Crashes
    <3> QED
      BY <1>5, <3>1 DEF Converses, inVars, InView!vars
  <2> QED
    BY <2>1, <2>2
<1> QED
  BY <1>1, <1>2, <1>3, <1>4, <1>5, DeafStep, OverAfterMessage DEF Next, Handle, InView!Next

\* The flag is always set or not set.
LEMMA Flag == Spec => [](is_released_ \in BOOLEAN)
<1>1. Init => is_released_ \in BOOLEAN
  BY Zenon DEF Init, In!Init
<1>2. is_released_ \in BOOLEAN /\ [Next]_vars => (is_released_ \in BOOLEAN)'
  <2> SUFFICES ASSUME is_released_ \in BOOLEAN, InView!Next \/ UNCHANGED InView!vars
               PROVE  is_released_' = is_released_ \/ is_released_' = TRUE
    BY ListeningStep, Zenon
  <2> QED
    BY Zenon DEF InView!Next, InView!HandleVoicedFrame, InView!ArmSilenceTimer,
       InView!HandleEnds, InView!SilenceExpires, InView!SilenceHandler, InView!AsrLoop,
       InView!AsrOver, InView!AsrFindsNothing, InView!AsrWakes, InView!AsrTakes,
       InView!AsrFeeds, InView!AsrFlushes, InView!AsrThrows, InView!ExitCommand,
       InView!Ended, InView!vars
<1> QED
  BY <1>1, <1>2, PTL DEF Spec

\* The whole connection, aborts, welcomes and a handle() that throws included,
\* behaves towards the recogniser as SpeechInput says.
THEOREM ListeningIsSpeechInput == Spec => ImplementsSpeechInput
<1>1. Init => InView!Init
  BY DEF Init, In!Init, InView!Init, In!EmptyQueue, InView!EmptyQueue, In!None, InView!None
<1> QED
  BY <1>1, Flag, ListeningStep, PTL DEF Spec, ImplementsSpeechInput, InView!Spec

-----------------------------------------------------------------------------
(* The speaking half *)

\* What tts_loop does is what SpeechOutput says, whatever handle() is doing.
LEMMA TtsStep == TtsLoop => OutView!TtsLoop
<1> SUFFICES ASSUME TtsLoop PROVE OutView!TtsLoop
  OBVIOUS
<1>1. TtsLoop
  OBVIOUS
<1> USE DEF Out!ttsVars, OutView!ttsVars, Out!clientVars, OutView!clientVars,
            Out!handleVars, OutView!handleVars
<1> QED
  <2>1. CASE Out!TtsPolls
    BY <2>1 DEF Out!TtsPolls, OutView!TtsPolls, Out!IsEmpty, OutView!IsEmpty,
       OutView!TtsLoop
  <2>2. CASE Out!TtsWakes
    BY <2>2 DEF Out!TtsWakes, OutView!TtsWakes, OutView!TtsLoop
  <2>3. CASE Out!TtsTakesAbort
    BY <2>3 DEF Out!TtsTakesAbort, OutView!TtsTakesAbort, Out!IsEmpty, OutView!IsEmpty,
       Out!Front, OutView!Front, Out!Rest, OutView!Rest, Out!AfterAbort,
       OutView!AfterAbort, Out!Writes, OutView!Writes, Out!Abort, OutView!Abort,
       Out!Nothing, OutView!Nothing, OutView!TtsLoop
  <2>4. CASE Out!TtsAborted
    BY <2>4 DEF Out!TtsAborted, OutView!TtsAborted, OutView!TtsLoop
  <2>5. CASE Out!TtsTakesSentence
    BY <2>5 DEF Out!TtsTakesSentence, OutView!TtsTakesSentence, Out!IsEmpty,
       OutView!IsEmpty, Out!Front, OutView!Front, Out!Rest, OutView!Rest, Out!Writes,
       OutView!Writes, Out!Abort, OutView!Abort, Out!Nothing, OutView!Nothing,
       OutView!TtsLoop
  <2>6. CASE Out!TtsStarted
    BY <2>6 DEF Out!TtsStarted, OutView!TtsStarted, OutView!TtsLoop
  <2>7. CASE Out!TtsSynthesised
    BY <2>7 DEF Out!TtsSynthesised, OutView!TtsSynthesised, Out!DueAt, OutView!DueAt,
       OutView!TtsLoop
  <2>8. CASE Out!TtsSpeaks
    BY <2>8 DEF Out!TtsSpeaks, OutView!TtsSpeaks, Out!Writes, OutView!Writes,
       OutView!TtsLoop
  <2>9. CASE Out!TtsSpoke
    BY <2>9 DEF Out!TtsSpoke, OutView!TtsSpoke, Out!Prolonged, OutView!Prolonged,
       OutView!TtsLoop
  <2>10. CASE Out!TtsAnnounces
    BY <2>10 DEF Out!TtsAnnounces, OutView!TtsAnnounces, Out!Writes, OutView!Writes,
       OutView!TtsLoop
  <2>11. CASE Out!TtsAnnounced
    BY <2>11 DEF Out!TtsAnnounced, OutView!TtsAnnounced, Out!AfterAnnouncement,
       OutView!AfterAnnouncement, OutView!TtsLoop
  <2>12. CASE Out!TtsChecksStop
    BY <2>12 DEF Out!TtsChecksStop, OutView!TtsChecksStop, Out!IsPlayedOut,
       OutView!IsPlayedOut, Out!Writes, OutView!Writes, Out!Nothing, OutView!Nothing,
       OutView!TtsLoop
  <2>13. CASE Out!TtsStopped
    BY <2>13 DEF Out!TtsStopped, OutView!TtsStopped, OutView!TtsLoop
  <2>14. CASE Out!TtsThrows
    BY <2>14 DEF Out!TtsThrows, OutView!TtsThrows, OutView!TtsLoop
  <2> QED
    BY <1>1, <2>1, <2>2, <2>3, <2>4, <2>5, <2>6, <2>7, <2>8, <2>9, <2>10, <2>11, <2>12,
       <2>13, <2>14 DEF TtsLoop, Out!TtsLoop

\* Every step of the connection is a step of SpeechOutput, or leaves it alone.
LEMMA SpeakingStep ==
    is_released_ \in BOOLEAN /\ [Next]_vars => [OutView!Next]_(OutView!vars)
<1> SUFFICES ASSUME is_released_ \in BOOLEAN, [Next]_vars
             PROVE  OutView!Next \/ UNCHANGED OutView!vars
  OBVIOUS
<1> USE DEF Out!ttsVars, OutView!ttsVars, Out!clientVars, OutView!clientVars,
            Out!handleVars, OutView!handleVars
<1>1. ASSUME UNCHANGED outVars, UNCHANGED is_released_,
             \/ UNCHANGED handle_pc
             \/ handle_pc \notin {"clearing", "over"} /\ handle_pc' \notin {"clearing", "over"}
      PROVE  UNCHANGED OutView!vars
  BY <1>1 DEF outVars, OutView!vars
<1>2. ASSUME UNCHANGED outVars, is_released_' = TRUE,
             handle_pc \notin {"clearing", "over"}, handle_pc' = "over"
      PROVE  OutView!HandleEnds
  BY <1>2 DEF outVars, OutView!HandleEnds
<1>3. CASE Listens
  <2>1. CASE handle_pc' = "over"
    <3>1. is_released_' = TRUE
      BY <1>3, <2>1 DEF Listens, In!HandleVoicedFrame, In!ArmSilenceTimer, In!LoopHead
    <3> QED
      BY <1>2, <1>3, <2>1, <3>1 DEF Listens, In!HandleVoicedFrame, In!ArmSilenceTimer,
         OutView!Next
  <2>2. CASE handle_pc' # "over"
    BY <1>1, <1>3, <2>2 DEF Listens, In!HandleVoicedFrame, In!ArmSilenceTimer, In!LoopHead
  <2> QED
    BY <2>1, <2>2
<1>4. CASE Aborts
  <2>1. CASE Out!AbortClears
    BY <2>1 DEF Out!AbortClears, OutView!AbortClears, Out!Cleared, OutView!Cleared,
       Out!EmptyQueue, OutView!EmptyQueue, OutView!Next
  <2>2. CASE Out!AbortPushes
    BY <2>2 DEF Out!AbortPushes, OutView!AbortPushes, Out!WithAbort, OutView!WithAbort,
       Out!Push, OutView!Push, Out!Abort, OutView!Abort, OutView!Next
  <2> QED
    BY <1>4, <2>1, <2>2 DEF Aborts
<1>5. CASE Welcomes
  BY <1>5 DEF Welcomes, Out!SendsWelcome, OutView!SendsWelcome, Out!Writes,
     OutView!Writes, Out!Nothing, OutView!Nothing, OutView!Next
<1>6. CASE Welcomed
  <2>1. CASE is_released_
    <3>1. is_released_' = TRUE
      BY <1>6, <2>1 DEF Welcomed
    <3> QED
      BY <1>2, <1>6, <2>1, <3>1 DEF Welcomed, OutView!Next
  <2>2. CASE ~is_released_
    BY <1>1, <1>6, <2>2 DEF Welcomed
  <2> QED
    BY <2>1, <2>2
<1>7. CASE HandleThrows
  BY <1>1, <1>7 DEF HandleThrows
<1>8. CASE HandleEnds
  BY <1>2, <1>8 DEF HandleEnds, In!HandleEnds, OutView!Next
<1>9. CASE SilenceTimer
  BY <1>1, <1>9 DEF SilenceTimer, In!SilenceExpires, In!SilenceHandler
<1>10. CASE AsrLoop
  BY <1>1, <1>10 DEF AsrLoop, In!AsrLoop, In!AsrOver, In!AsrFindsNothing, In!AsrWakes,
     In!AsrTakes, In!AsrFeeds, In!AsrFlushes, In!AsrThrows
<1>11. ASSUME NEW h \in Talk!Handler, PushesSentence(h)
       PROVE  OutView!Next
  BY <1>11 DEF PushesSentence, Out!PushSentence, OutView!PushSentence, Out!Push,
     OutView!Push, OutView!Next
<1>12. ASSUME NEW h \in Talk!Handler, Converses(h)
       PROVE  OutView!Next \/ UNCHANGED OutView!vars
  <2>1. CASE Talk!RecognisesExit(h)
    BY <1>12, <2>1 DEF Converses, outVars, Talk!RecognisesExit, OutView!ExitCommand,
       OutView!Next
  <2>2. CASE ~Talk!RecognisesExit(h)
    <3>1. is_released_' = is_released_
      BY <1>12, <2>2 DEF Converses, Talk!Converses, Talk!BeginsQuestion,
         Talk!AddsQuestion, Talk!BeginsToAsk, Talk!Asks, Talk!ReadThrows, Talk!AnswerEnds,
         Talk!Fails, Talk!BeginsAnswer, Talk!AddsAnswer, Talk!Crashes
    <3> QED
      BY <1>1, <1>12, <3>1 DEF Converses
  <2> QED
    BY <2>1, <2>2
<1>13. CASE TtsLoop
  BY <1>13, TtsStep DEF OutView!Next
<1>14. CASE Tick
  BY <1>14 DEF Tick, Out!Tick, OutView!Tick, Out!Earlier, OutView!Earlier, OutView!Next
<1>15. CASE UNCHANGED vars
  BY <1>1, <1>15 DEF vars
<1> QED
  BY <1>3, <1>4, <1>5, <1>6, <1>7, <1>8, <1>9, <1>10, <1>11, <1>12, <1>13, <1>14, <1>15
     DEF Next, Handle

\* Whatever the client and the recogniser make the connection do, the client
\* hears and sees what SpeechOutput says: welcomes, frames and a handle() that
\* throws are within what tts_loop and the producers expect of it.
THEOREM SpeakingIsSpeechOutput == Spec => ImplementsSpeechOutput
<1>1. Init => OutView!Init
  BY DEF Init, Out!Init, OutView!Init, Out!EmptyQueue, OutView!EmptyQueue, Out!Nothing,
     OutView!Nothing
<1> QED
  BY <1>1, Flag, SpeakingStep, PTL DEF Spec, ImplementsSpeechOutput, OutView!Spec

-----------------------------------------------------------------------------
(* The dialogue *)

\* What is proved of SpeechInput, for the listening half as it is here.
Listening == INSTANCE SpeechInputProofs WITH
    handle_pc <- IF handle_pc \in {"arming", "over"} THEN handle_pc ELSE "reading"

\* The listening half as ListeningIsSpeechInput states it is the one proved about.
LEMMA SameListening == InView!Spec => Listening!Spec
  BY DEF InView!EmptyQueue, Listening!EmptyQueue, InView!None, Listening!None,
     InView!vars, Listening!vars, InView!Next, Listening!Next,
     InView!AsrLoop, Listening!AsrLoop,
     InView!HandleVoicedFrame, Listening!HandleVoicedFrame,
     InView!ArmSilenceTimer, Listening!ArmSilenceTimer,
     InView!HandleEnds, Listening!HandleEnds,
     InView!SilenceExpires, Listening!SilenceExpires,
     InView!SilenceHandler, Listening!SilenceHandler,
     InView!ExitCommand, Listening!ExitCommand, InView!Ended, Listening!Ended,
     InView!AsrOver, Listening!AsrOver,
     InView!AsrFindsNothing, Listening!AsrFindsNothing,
     InView!AsrWakes, Listening!AsrWakes, InView!AsrTakes, Listening!AsrTakes,
     InView!AsrFeeds, Listening!AsrFeeds,
     InView!AsrFlushes, Listening!AsrFlushes,
     InView!AsrThrows, Listening!AsrThrows, InView!Push, Listening!Push,
     InView!EndOfSpeech, Listening!EndOfSpeech,
     InView!IsEmpty, Listening!IsEmpty, InView!Front, Listening!Front,
     InView!Rest, Listening!Rest, InView!Fed, Listening!Fed,
     InView!Recognised, Listening!Recognised, InView!Flushed, Listening!Flushed,
     InView!Rearmed, Listening!Rearmed, InView!LoopHead, Listening!LoopHead,
     InView!Init, Listening!Init, InView!Spec, Listening!Spec

\* There is a handler for every text.
LEMMA FewTexts == Spec => []Listening!FewTexts
  BY ConnectionAssumption, ListeningIsSpeechInput, SameListening, Listening!TextsAreFew, PTL
     DEF ImplementsSpeechInput

\* Every step of the connection is a step of Dialogue, or leaves it alone.
LEMMA TalkingStep ==
    is_released_ \in BOOLEAN /\ Listening!FewTexts /\ Listening!FewTexts' /\ [Next]_vars
      => [Talk!Next]_(Talk!vars)
<1> SUFFICES ASSUME is_released_ \in BOOLEAN, Listening!FewTexts, Listening!FewTexts',
                    [Next]_vars
             PROVE  Talk!Next \/ UNCHANGED Talk!vars
  OBVIOUS
<1>0. Talk!Alive \/ UNCHANGED vars
  BY DEF Next
<1> USE DEF Talk!vars, Talk!dialogueVars, talkVars
<1>1. ASSUME Talk!Alive, UNCHANGED <<utterances, talkVars>>,
             is_released_' = is_released_ \/ is_released_' = TRUE
      PROVE  Talk!Next \/ UNCHANGED Talk!vars
  <2>1. CASE is_released_' = is_released_
    BY <1>1, <2>1
  <2>2. CASE is_released_' = TRUE
    BY <1>1, <2>2 DEF Talk!Release, Talk!Next
  <2> QED
    BY <1>1, <2>1, <2>2
<1>2. CASE Talk!Alive /\ AsrLoop
  <2>1. UNCHANGED <<is_released_, talkVars>>
    BY <1>2 DEF AsrLoop, In!AsrLoop, In!AsrOver, In!AsrFindsNothing, In!AsrWakes,
       In!AsrTakes, In!AsrFeeds, In!AsrFlushes, In!AsrThrows
  <2>2. CASE utterances' = utterances
    BY <1>1, <1>2, <2>1, <2>2
  <2>3. CASE utterances' # utterances
    <3>1. PICK text_ \in In!Recognised(stream) : utterances' = Append(utterances, text_)
      BY <1>2, <2>3 DEF AsrLoop, In!AsrLoop, In!AsrOver, In!AsrFindsNothing, In!AsrWakes,
         In!AsrTakes, In!AsrFeeds, In!AsrFlushes, In!AsrThrows
    <3>2. /\ utterances \in Seq(Seq(Listening!Frame)) /\ Len(utterances) \in Nat
          /\ Len(utterances') <= MaxFrames
      BY LenProperties DEF Listening!FewTexts
    <3>3. Len(utterances') = Len(utterances) + 1
      BY <3>1, <3>2
    <3>4. Len(utterances) < MaxFrames
      BY <3>2, <3>3, ConnectionAssumption
    <3> QED
      BY <1>2, <2>1, <3>3, <3>4 DEF Talk!Spawn, Talk!Next
  <2> QED
    BY <2>2, <2>3
<1>3. ASSUME NEW h \in Talk!Handler, PushesSentence(h)
      PROVE  Talk!Next
  BY <1>3 DEF PushesSentence, Talk!Speaks, Talk!Handles, Talk!Next
<1>4. ASSUME NEW h \in Talk!Handler, Converses(h)
      PROVE  Talk!Next
  BY <1>4 DEF Converses, Talk!Handles, Talk!Next
<1>5. CASE Talk!Alive /\ Handle
  <2>1. UNCHANGED <<utterances, talkVars>>
    BY <1>5 DEF Handle, Listens, Aborts, Welcomes, Welcomed, HandleThrows, HandleEnds, inVars,
       In!HandleVoicedFrame, In!ArmSilenceTimer, In!HandleEnds
  <2>2. is_released_' = is_released_ \/ is_released_' = TRUE
    BY <1>5 DEF Handle, Listens, Aborts, Welcomes, Welcomed, HandleThrows, HandleEnds,
       In!HandleVoicedFrame, In!ArmSilenceTimer, In!HandleEnds, Out!AbortClears,
       Out!AbortPushes, Out!SendsWelcome
  <2> QED
    BY <1>1, <1>5, <2>1, <2>2
<1>6. CASE Talk!Alive /\ SilenceTimer
  BY <1>1, <1>6 DEF SilenceTimer, In!SilenceExpires, In!SilenceHandler
<1>7. CASE (Talk!Alive /\ (TtsLoop \/ Tick)) \/ UNCHANGED vars
  <2>1. UNCHANGED InView!vars
    BY <1>7, DeafStep
  <2>2. UNCHANGED <<utterances, talkVars>> /\ is_released_' = is_released_
    BY <1>7, <2>1 DEF TtsLoop, Tick, vars, InView!vars
  <2>3. CASE UNCHANGED vars
    BY <2>2, <2>3 DEF vars
  <2> QED
    BY <1>1, <1>7, <2>2, <2>3
<1> QED
  BY <1>0, <1>2, <1>3, <1>4, <1>5, <1>6, <1>7 DEF Next

\* The handlers of all utterances, whatever else the connection does meanwhile,
\* behave as Dialogue says; an utterance without a handler to spare never comes.
THEOREM DialogueIsDialogue == Spec => ImplementsDialogue
<1>1. Init => Talk!Init
  BY DEF Init, In!Init, Talk!Init
<1> QED
  BY <1>1, Flag, FewTexts, TalkingStep, PTL DEF Spec, ImplementsDialogue, Talk!Spec

-----------------------------------------------------------------------------
(* What is proved of the halves holds in the whole *)

\* What is proved of SpeechOutput, for the speaking half as it is here.
Speaking == INSTANCE SpeechOutputProofs WITH
    handle_pc <- IF handle_pc \in {"clearing", "over"} THEN handle_pc ELSE "reading"

\* The speaking half as SpeakingIsSpeechOutput states it is the one proved about.
LEMMA SameSpeaking == OutView!Spec => Speaking!Spec
  BY DEF OutView!EmptyQueue, Speaking!EmptyQueue, OutView!Cleared, Speaking!Cleared,
     OutView!IsEmpty, Speaking!IsEmpty, OutView!Push, Speaking!Push,
     OutView!Front, Speaking!Front, OutView!Rest, Speaking!Rest,
     OutView!ttsVars, Speaking!ttsVars, OutView!clientVars, Speaking!clientVars,
     OutView!handleVars, Speaking!handleVars, OutView!vars, Speaking!vars,
     OutView!Abort, Speaking!Abort, OutView!Nothing, Speaking!Nothing,
     OutView!Init, Speaking!Init, OutView!PushSentence, Speaking!PushSentence,
     OutView!AbortClears, Speaking!AbortClears,
     OutView!WithAbort, Speaking!WithAbort,
     OutView!AbortPushes, Speaking!AbortPushes,
     OutView!HandleEnds, Speaking!HandleEnds,
     OutView!ExitCommand, Speaking!ExitCommand, OutView!Writes, Speaking!Writes,
     OutView!SendsWelcome, Speaking!SendsWelcome,
     OutView!Earlier, Speaking!Earlier, OutView!Tick, Speaking!Tick,
     OutView!TtsPolls, Speaking!TtsPolls, OutView!TtsWakes, Speaking!TtsWakes,
     OutView!AfterAbort, Speaking!AfterAbort,
     OutView!TtsTakesAbort, Speaking!TtsTakesAbort,
     OutView!TtsAborted, Speaking!TtsAborted,
     OutView!TtsTakesSentence, Speaking!TtsTakesSentence,
     OutView!TtsStarted, Speaking!TtsStarted, OutView!DueAt, Speaking!DueAt,
     OutView!TtsSynthesised, Speaking!TtsSynthesised,
     OutView!TtsSpeaks, Speaking!TtsSpeaks,
     OutView!Prolonged, Speaking!Prolonged, OutView!TtsSpoke, Speaking!TtsSpoke,
     OutView!TtsAnnounces, Speaking!TtsAnnounces,
     OutView!AfterAnnouncement, Speaking!AfterAnnouncement,
     OutView!TtsAnnounced, Speaking!TtsAnnounced,
     OutView!IsPlayedOut, Speaking!IsPlayedOut,
     OutView!TtsChecksStop, Speaking!TtsChecksStop,
     OutView!TtsStopped, Speaking!TtsStopped,
     OutView!TtsThrows, Speaking!TtsThrows, OutView!TtsLoop, Speaking!TtsLoop,
     OutView!Next, Speaking!Next, OutView!Spec, Speaking!Spec

\* In the whole connection, too, the texts hold the speaker's frames in order,
\* none twice, none of another utterance, and speech always gets its end mark.
THEOREM ConnectionListens ==
    Spec => Listening!ImplementsTranscript /\ []Listening!SpeechWillEnd
  BY ConnectionAssumption, ListeningIsSpeechInput, SameListening, Listening!Implementation,
     Listening!SpeechAlwaysEnds, PTL DEF ImplementsSpeechInput

\* In the whole connection, too, an abort silences what was pushed before it,
\* sessions are well-formed, subtitles come in order and after their audio, and
\* no stop is later than the audio.
THEOREM ConnectionSpeaks ==
    Spec => /\ []Speaking!AbortSilencesWhatWasPushed
            /\ Speaking!FramesFitTheSession
            /\ Speaking!SubtitlesFollowTheSpeech
            /\ []Speaking!StopIsNeverLate
  BY ConnectionAssumption, SpeakingIsSpeechOutput, SameSpeaking, Speaking!AbortsSilence,
     Speaking!SessionsAreWellFormed, Speaking!SubtitlesInOrder, Speaking!NoStopIsLate, PTL
     DEF ImplementsSpeechOutput

\* What is proved of Dialogue, for the handlers of the utterances.
Conversing == INSTANCE DialogueProofs WITH MaxHandlers <- MaxFrames,
                                           spawned <- Len(utterances)

\* The handlers as DialogueIsDialogue states them are those proved about.
LEMMA SameConversing == Talk!Spec => Conversing!Spec
  BY DEF Talk!dialogueVars, Conversing!dialogueVars, Talk!vars, Conversing!vars,
     Talk!Handler, Conversing!Handler, Talk!Entry, Conversing!Entry,
     Talk!Init, Conversing!Init, Talk!Appending, Conversing!Appending,
     Talk!Accessing, Conversing!Accessing, Talk!Alive, Conversing!Alive,
     Talk!Goes, Conversing!Goes, Talk!Spawn, Conversing!Spawn,
     Talk!Release, Conversing!Release,
     Talk!RecognisesExit, Conversing!RecognisesExit,
     Talk!BeginsToAppend, Conversing!BeginsToAppend,
     Talk!Appends, Conversing!Appends,
     Talk!BeginsQuestion, Conversing!BeginsQuestion,
     Talk!AddsQuestion, Conversing!AddsQuestion, Talk!BeginsToAsk,
     Conversing!BeginsToAsk, Talk!Asks, Conversing!Asks,
     Talk!SearchRunsOff, Conversing!SearchRunsOff, Talk!ReadThrows, Conversing!ReadThrows,
     Talk!Crashes, Conversing!Crashes, Talk!Speaks, Conversing!Speaks,
     Talk!Converses, Conversing!Converses,
     Talk!PushesSentence, Conversing!PushesSentence,
     Talk!PushesRest, Conversing!PushesRest,
     Talk!AnswerEnds, Conversing!AnswerEnds, Talk!Fails, Conversing!Fails,
     Talk!BeginsAnswer, Conversing!BeginsAnswer,
     Talk!AddsAnswer, Conversing!AddsAnswer,
     Talk!Handles, Conversing!Handles, Talk!Handled, Conversing!Handled,
     Talk!Ended, Conversing!Ended, Talk!Next, Conversing!Next,
     Talk!Spec, Conversing!Spec

\* In the whole connection, too, only a push_back that overlaps another access to the
\* dialogue loses, doubles or misplaces an entry, or makes a provider miss a question.
THEOREM ConnectionConverses == Spec => []Conversing!OnlyRacesLoseEntries
  BY ConnectionAssumption, DialogueIsDialogue, SameConversing, Conversing!OnlyRacesLose, PTL
     DEF ImplementsDialogue

-----------------------------------------------------------------------------
(* The server, and the voice detector that its connections share *)

\* Frames appended to a sequence of frames.
LEMMA FrameAppended ==
    ASSUME NEW s \in Seq(Frame), NEW f \in Frame
    PROVE  Append(s, f) \in Seq(Frame)
  OBVIOUS

LEMMA ServerTypeInit == ServerInit => TypeOK
  <1> SUFFICES ASSUME ServerInit PROVE TypeOK
    OBVIOUS
  <1>1. Zero \in Arrays /\ <<>> \in Seq(Frame)
    BY DEF Zero, Arrays
  <1>2. threads \in 1..MaxThreads /\ enabled \in BOOLEAN /\ listening \in BOOLEAN
        /\ overlapped \in BOOLEAN
    BY DEF ServerInit, Threads
  <1>3. session \in [Clients -> SessionPc] /\ authorization \in [Clients -> Headers]
        /\ predict_pc \in [Clients -> PredictPc]
    BY DEF ServerInit, SessionPc, Headers, PredictPc
  <1>4. frames \in [Clients -> 0..MaxPredictions]
    BY ServerAssumption DEF ServerInit
  <1> QED
    BY <1>1, <1>2, <1>3, <1>4 DEF ServerInit, TypeOK

\* What clients, listen() and run_session() do leaves the detector alone.
Sessions(c) == Dials(c) \/ SendsRequest(c) \/ RequestFails(c) \/ Serves(c) \/ Leaves(c)

LEMMA SessionsKeepTypes ==
    ASSUME TypeOK, NEW c \in Clients, Sessions(c)
    PROVE  TypeOK' /\ UNCHANGED <<threads, detectorVars>>
  <1>1. UNCHANGED <<threads, enabled, listening, detectorVars>>
    BY DEF Sessions, Serves, Dials, SendsRequest, RequestFails, Accepts, Authenticates,
           Upgrades, Leaves
  <1>2. session' \in [Clients -> SessionPc]
    BY DEF TypeOK, SessionPc, Goes, Sessions, Serves, Dials, SendsRequest, RequestFails,
           Accepts, Authenticates, Upgrades, Leaves
  <1>3. authorization' \in [Clients -> Headers]
    BY DEF TypeOK, Sessions, Serves, Dials, SendsRequest, RequestFails, Accepts,
           Authenticates, Upgrades, Leaves
  <1> QED
    BY <1>1, <1>2, <1>3 DEF TypeOK, detectorVars

LEMMA PredictBeginsKeepsTypes ==
    ASSUME TypeOK, NEW c \in Clients, PredictBegins(c)
    PROVE  TypeOK'
  <1> DEFINE f == <<c, frames[c] + 1>>
  <1>1. frames[c] + 1 \in 1..MaxPredictions /\ frames[c] + 1 \in 0..MaxPredictions
    BY ServerAssumption DEF TypeOK, PredictBegins
  <1>2. f \in Frame
    BY <1>1 DEF Frame
  <1>3. state_.hidden \in Seq(Frame) /\ state_.cell \in Seq(Frame)
    BY DEF TypeOK, Arrays
  <1>4. Append(state_.hidden, f) \in Seq(Frame) /\ Append(state_.cell, f) \in Seq(Frame)
        /\ predicted' \in Seq(Frame)
    BY <1>2, <1>3, FrameAppended DEF TypeOK, PredictBegins
  <1>5. result' \in [Clients -> Arrays]
    BY <1>4 DEF TypeOK, PredictBegins, Arrays
  <1>6. frames' \in [Clients -> 0..MaxPredictions] /\ predict_pc' \in [Clients -> PredictPc]
    BY <1>1 DEF TypeOK, PredictBegins, PredictPc
  <1>7. overlapped' \in BOOLEAN
    BY Zenon DEF TypeOK, PredictBegins
  <1> QED
    BY <1>4, <1>5, <1>6, <1>7 DEF TypeOK, PredictBegins, sessionVars

LEMMA CopiesKeepTypes ==
    ASSUME TypeOK, NEW c \in Clients, CopiesHidden(c) \/ CopiesCell(c)
    PROVE  TypeOK'
  <1>1. state_' \in Arrays
    BY DEF TypeOK, Arrays, CopiesHidden, CopiesCell
  <1>2. predict_pc' \in [Clients -> PredictPc]
    BY DEF TypeOK, PredictPc, CopiesHidden, CopiesCell
  <1> QED
    BY <1>1, <1>2 DEF TypeOK, CopiesHidden, CopiesCell, sessionVars

-----------------------------------------------------------------------------
(* The detector *)

Whole == [hidden |-> predicted, cell |-> predicted]

\* As long as nothing has overlapped: at most one prediction is under way, its
\* result is that of all frames, and what of the state is not being written is whole.
DetectorInv ==
    /\ threads = 1 => ~overlapped
    /\ ~overlapped =>
         /\ \A c, d \in Predicting : c = d
         /\ \A c \in Predicting : result[c] = Whole
         /\ \A c \in Clients : predict_pc[c] = "copying" => state_.hidden = predicted
         /\ Predicting = {} => state_ = Whole

LEMMA DetectorInit == ServerInit => DetectorInv
  <1> SUFFICES ASSUME ServerInit PROVE DetectorInv
    OBVIOUS
  <1>1. Predicting = {} /\ ~overlapped
    BY DEF ServerInit, Predicting
  <1> QED
    BY <1>1 DEF ServerInit, DetectorInv, Whole, Zero

LEMMA DetectorStep ==
    ASSUME TypeOK, DetectorInv, [ServerNext]_serverVars
    PROVE  DetectorInv'
  <1>1. ASSUME UNCHANGED <<threads, detectorVars>> PROVE DetectorInv'
    BY <1>1 DEF DetectorInv, detectorVars, Predicting, Whole
  <1>2. ASSUME NEW c \in Clients, PredictBegins(c) PROVE DetectorInv'
    <2>1. threads = 1 => Predicting = {}
      <3>1. SUFFICES ASSUME threads = 1 PROVE Predicting = {}
        OBVIOUS
      <3>2. IsFiniteSet(Predicting)
        BY ServerAssumption, FS_Subset DEF Predicting
      <3>3. Cardinality(Predicting) = 0
        BY <1>2, <3>1, <3>2, FS_CardinalityType DEF PredictBegins, ThreadIsFree
      <3> QED
        BY <3>2, <3>3, FS_EmptySet
    <2>2. threads' = threads /\ (overlapped' <=> (overlapped \/ Predicting # {}))
      BY <1>2 DEF PredictBegins
    <2>3. SUFFICES ASSUME ~overlapped'
                   PROVE  /\ \A d, e \in Predicting' : d = e
                          /\ \A d \in Predicting' : result'[d] = Whole'
                          /\ \A d \in Clients : predict_pc'[d] = "copying"
                                                  => state_'.hidden = predicted'
                          /\ Predicting' = {} => state_' = Whole'
      BY <2>1, <2>2 DEF DetectorInv
    <2>4. Predicting = {} /\ ~overlapped
      BY <2>2, <2>3
    <2>5. predict_pc' = [d \in Clients |-> IF d = c THEN "running" ELSE predict_pc[d]]
      BY <1>2 DEF PredictBegins, TypeOK
    <2>6. Predicting' = {c} /\ \A d \in Clients : predict_pc'[d] # "copying"
      BY <2>4, <2>5 DEF Predicting
    <2>7. state_ = Whole
      BY <2>4 DEF DetectorInv
    <2>8. result'[c] = Whole'
      BY <1>2, <2>7 DEF PredictBegins, TypeOK, Whole
    <2> QED
      BY <2>6, <2>8
  <1>3. ASSUME NEW c \in Clients, CopiesHidden(c) PROVE DetectorInv'
    <2>1. /\ predict_pc' = [d \in Clients |-> IF d = c THEN "copying" ELSE predict_pc[d]]
          /\ Predicting' = Predicting /\ c \in Predicting
      BY <1>3 DEF CopiesHidden, TypeOK, Predicting
    <2>2. ~overlapped => result[c] = Whole
      BY <2>1 DEF DetectorInv
    <2>3. ~overlapped => state_'.hidden = predicted
      BY <1>3, <2>2 DEF CopiesHidden, TypeOK, Arrays, Whole
    <2> QED
      BY <1>3, <2>1, <2>3 DEF DetectorInv, CopiesHidden, Whole
  <1>4. ASSUME NEW c \in Clients, CopiesCell(c) PROVE DetectorInv'
    <2>1. /\ predict_pc' = [d \in Clients |-> IF d = c THEN "idle" ELSE predict_pc[d]]
          /\ Predicting' = Predicting \ {c} /\ c \in Predicting
      BY <1>4 DEF CopiesCell, TypeOK, Predicting
    <2>2. ~overlapped => /\ result[c] = Whole /\ state_.hidden = predicted
                         /\ Predicting' = {}
      BY <1>4, <2>1 DEF DetectorInv, CopiesCell
    <2>3. ~overlapped => state_' = Whole
      <3>1. \A a \in Arrays : [a EXCEPT !.cell = predicted] = [hidden |-> a.hidden, cell |-> predicted]
        BY DEF Arrays
      <3>2. ~overlapped => state_' = [state_ EXCEPT !.cell = predicted]
        BY <1>4, <2>2 DEF CopiesCell, Whole
      <3> QED
        BY <2>2, <3>1, <3>2 DEF TypeOK, Whole
    <2>4. \A d \in Clients : predict_pc'[d] = "copying" => predict_pc[d] = "copying" /\ d # c
      BY <2>1
    <2> QED
      BY <1>4, <2>1, <2>2, <2>3, <2>4 DEF DetectorInv, CopiesCell, Whole, Predicting
  <1>5. CASE \E c \in Clients : Sessions(c)
    BY <1>1, <1>5, SessionsKeepTypes
  <1>6. CASE AcceptFails \/ Ended \/ UNCHANGED serverVars
    BY <1>1, <1>6 DEF AcceptFails, Ended, serverVars
  <1> QED
    BY <1>2, <1>3, <1>4, <1>5, <1>6 DEF ServerNext, Sessions, Serves, Predicts

LEMMA ServerTypeStep == ASSUME TypeOK, [ServerNext]_serverVars PROVE TypeOK'
  <1>1. CASE \E c \in Clients : Sessions(c)
    BY <1>1, SessionsKeepTypes
  <1>2. CASE \E c \in Clients : Predicts(c)
    BY <1>2, PredictBeginsKeepsTypes, CopiesKeepTypes DEF Predicts
  <1>3. CASE AcceptFails
    BY <1>3 DEF AcceptFails, TypeOK, detectorVars
  <1>4. CASE Ended \/ UNCHANGED serverVars
    BY <1>4 DEF Ended, serverVars, TypeOK, sessionVars, detectorVars
  <1> QED
    BY <1>1, <1>2, <1>3, <1>4 DEF ServerNext, Sessions

\* The types of the server, its sessions and the shared detector.
THEOREM ServerTypeCorrect == ServerSpec => []TypeOK
  BY ServerTypeInit, ServerTypeStep, PTL DEF ServerSpec

\* With one thread predictions never overlap, and with any number of threads the
\* detector's state is that of all frames in order as long as none has.
THEOREM OnlyOverlapsSpoil == ServerSpec => []OnlyOverlapsSpoilTheDetector
  <1>1. DetectorInv => OnlyOverlapsSpoilTheDetector
    BY DEF DetectorInv, OnlyOverlapsSpoilTheDetector, Whole
  <1> QED
    BY <1>1, ServerTypeInit, ServerTypeStep, DetectorInit, DetectorStep, PTL DEF ServerSpec
=============================================================================
