------------------------ MODULE SpeechOutputProofs ------------------------
(***************************************************************************)
(* Proofs about SpeechOutput, for every number of sentences, abort messages   *)
(* and audio frames, and wherever writes and syntheses throw.                *)
(***************************************************************************)
EXTENDS SpeechOutput, SequenceTheorems, TLAPS

Subtitle == [text : Sentence, due : Nat]

Message == [kind : {"none", "hello", "start", "audio", "sentence_start", "stop"},
            text : BOOLEAN, of : Sentence \union {Nothing}]

-----------------------------------------------------------------------------
(* Type correctness *)

\* TypeOK alone is not inductive: what tts_loop holds depends on where it is.
TypeInv ==
    /\ TypeOK
    /\ tts_pc \in {"starting", "synth", "audio", "audio_sent"} => text \in Sentence
    /\ tts_pc = "audio_sent" => audio > 0
    /\ tts_pc = "announcing" => tts_sentence_queue # <<>>

\* The type invariant holds at the start.
LEMMA TypeInit == Init => TypeInv
<1> SUFFICES ASSUME Init PROVE TypeInv
  OBVIOUS
<1>1. \A S : <<>> \in Seq(S)
  BY EmptySeq
<1>2. 0 >= -MaxLag /\ 0 \in 0..MaxAudio /\ 0 \in 0..MaxAborts /\ 0 \in 0..MaxSentences
  BY BoundsAssumption
<1>3. wire \in Message
  BY DEF Init, Message
<1>4. is_released_ \in BOOLEAN /\ playing \in BOOLEAN /\ ws_text_ \in BOOLEAN
      /\ in_session \in BOOLEAN
  BY Zenon DEF Init
<1> QED
  BY <1>1, <1>2, <1>3, <1>4 DEF Init, TypeInv, TypeOK, EmptyQueue, TtsPc, Message

\* Every step keeps the types.
LEMMA TypeNext == TypeInv /\ [Next]_vars => TypeInv'
<1> SUFFICES ASSUME TypeInv, [Next]_vars PROVE TypeInv'
  OBVIOUS
<1>1. /\ llm_response_ \in Seq(Sentence \union {Abort})
      /\ tts_sentence_queue \in Seq(Subtitle)
  BY DEF TypeInv, TypeOK, Subtitle
<1>a. /\ wire \in Message
      /\ \A kind \in {"hello", "start", "audio", "sentence_start", "stop"},
            asText \in BOOLEAN, of \in Sentence \union {Nothing} :
            Writes(kind, asText, of) => wire' \in Message
  BY DEF TypeInv, TypeOK, Message, Writes
<1>b. Nothing \in Sentence \union {Nothing} /\ TRUE \in BOOLEAN /\ ws_text_ \in BOOLEAN
  BY DEF TypeInv, TypeOK
<1>c. 0 >= -MaxLag
  BY BoundsAssumption
<1> USE BoundsAssumption DEF TypeInv, TypeOK, TtsPc
<1>2. CASE PushSentence
  <2>1. pushed + 1 \in Sentence \union {Abort}
    BY <1>2 DEF PushSentence, Sentence
  <2>2. llm_response_' \in Seq(Sentence \union {Abort})
    BY <1>1, <1>2, <2>1, AppendProperties DEF PushSentence, Push
  <2> QED
    BY <1>2, <2>2 DEF PushSentence, ttsVars, clientVars, handleVars
<1>3. CASE AbortClears
  <2>1. llm_response_' \in Seq(Sentence \union {Abort})
    BY <1>3, EmptySeq DEF AbortClears, Cleared, EmptyQueue
  <2> QED
    BY <1>3, <2>1 DEF AbortClears, ttsVars, clientVars
<1>4. CASE AbortPushes
  <2>1. llm_response_' \in Seq(Sentence \union {Abort})
    BY <1>1, <1>4, AppendProperties DEF AbortPushes, WithAbort, Push
  <2> QED
    BY <1>4, <2>1 DEF AbortPushes, ttsVars, clientVars
<1>5. CASE HandleEnds
  BY <1>5 DEF HandleEnds, ttsVars, clientVars
<1>6. CASE ExitCommand
  BY <1>6 DEF ExitCommand, ttsVars, clientVars, handleVars
<1>7. CASE SendsWelcome("reading")
  <2>1. wire' \in Message
    BY <1>7, <1>a, <1>b DEF SendsWelcome
  <2> QED
    BY <1>7, <2>1 DEF SendsWelcome, ttsVars, Message
<1>8. CASE Tick
  <2>1. tts_sentence_queue' \in Seq(Subtitle)
    <3>1. \A i \in 1..Len(tts_sentence_queue) : tts_sentence_queue[i] \in Subtitle
      BY <1>1, ElementOfSeq
    <3>2. \A d \in Nat : Earlier(d, 0) \in Nat
      BY DEF Earlier
    <3>3. \A i \in 1..Len(tts_sentence_queue) :
            [tts_sentence_queue[i] EXCEPT !.due = Earlier(@, 0)] \in Subtitle
      BY <3>1, <3>2 DEF Subtitle
    <3>4. Len(tts_sentence_queue) \in Nat
      BY <1>1, LenProperties
    <3>5. tts_sentence_queue' \in [1..Len(tts_sentence_queue) -> Subtitle]
      BY <1>8, <3>3 DEF Tick
    <3> QED
      BY ONLY <3>4, <3>5, SeqDef
  <2>2. left' \in Int /\ left' >= -MaxLag /\ buffered' \in Nat
    BY <1>8 DEF Tick, Earlier
  <2>3. UNCHANGED <<is_released_, llm_response_, pushed, ws_text_, silenced, tts_pc,
                    text, audio, playing, wire, in_session, announced, handleVars>>
    BY <1>8 DEF Tick
  <2>4. tts_sentence_queue # <<>> => tts_sentence_queue' # <<>>
    <3>1. Len(tts_sentence_queue) \in Nat /\ Len(tts_sentence_queue') = Len(tts_sentence_queue)
      BY <1>1, <1>8, LenProperties DEF Tick
    <3> QED
      BY <1>1, <2>1, <3>1, EmptySeq, LenProperties
  <2> QED
    BY <2>1, <2>2, <2>3, <2>4 DEF handleVars, Subtitle
<1>9. CASE TtsLoop
  <2> USE DEF clientVars, handleVars
  <2>1. CASE TtsPolls
    BY <2>1 DEF TtsPolls
  <2>2. CASE TtsWakes
    BY <2>2 DEF TtsWakes
  <2>3. CASE TtsTakesAbort
    <3>1. /\ llm_response_' \in Seq(Sentence \union {Abort})
          /\ tts_sentence_queue' \in Seq(Subtitle)
      BY <1>1, <2>3, HeadTailProperties, EmptySeq
         DEF TtsTakesAbort, IsEmpty, Rest, AfterAbort
    <3>2. wire' \in Message
      BY <1>a, <1>b, <2>3 DEF TtsTakesAbort
    <3> QED
      BY <2>3, <3>1, <3>2 DEF TtsTakesAbort, Subtitle, Message
  <2>4. CASE TtsAborted
    <3>1. playing' \in BOOLEAN
      BY <2>4, Zenon DEF TtsAborted
    <3>3. left' \in Int /\ left' >= -MaxLag /\ tts_pc' = "poll"
      BY <1>c, <2>4 DEF TtsAborted
    <3>2. UNCHANGED <<is_released_, llm_response_, pushed, ws_text_, silenced, text,
                      audio, tts_sentence_queue, clientVars, handleVars>>
      BY <2>4 DEF TtsAborted
    <3> QED
      BY <3>1, <3>2, <3>3
  <2>5. CASE TtsTakesSentence
    <3>1. /\ llm_response_' \in Seq(Sentence \union {Abort})
          /\ text' \in Sentence \union {Abort}
      BY <1>1, <2>5, HeadTailProperties DEF TtsTakesSentence, IsEmpty, Front, Rest
    <3>2. text' \in Sentence
      BY <2>5, <3>1 DEF TtsTakesSentence
    <3>3. wire' \in Message
      BY <1>a, <1>b, <2>5 DEF TtsTakesSentence
    <3> QED
      BY <2>5, <3>1, <3>2, <3>3 DEF TtsTakesSentence, Message
  <2>6. CASE TtsStarted
    BY <1>c, <2>6 DEF TtsStarted
  <2>7. CASE TtsSynthesised
    <3>1. [text |-> text, due |-> DueAt(left)] \in Subtitle
      BY <2>7 DEF TtsSynthesised, DueAt, Subtitle
    <3>2. tts_sentence_queue' \in Seq(Subtitle)
      BY <1>1, <2>7, <3>1, AppendProperties DEF TtsSynthesised
    <3> QED
      BY <2>7, <3>2 DEF TtsSynthesised, Subtitle
  <2>8. CASE TtsSpeaks
    <3>1. audio # 0 => text \in Sentence /\ audio > 0
      BY <2>8 DEF TtsSpeaks
    <3>2. wire' \in Message
      BY <1>a, <2>8, <3>1 DEF TtsSpeaks
    <3>3. /\ tts_pc' \in {"sentences", "audio_sent"} /\ (tts_pc' = "audio_sent" => audio > 0)
          /\ buffered' \in Nat
      <4>1. CASE audio = 0
        BY <2>8, <4>1 DEF TtsSpeaks
      <4>2. CASE audio # 0
        <5>1. tts_pc' = "audio_sent" /\ buffered' = buffered + 1
          BY <2>8, <4>2 DEF TtsSpeaks
        <5> QED
          BY <3>1, <4>2, <5>1
      <4> QED
        BY <4>1, <4>2
    <3>6. ws_text_' \in BOOLEAN
      BY <1>b, <2>8, Zenon DEF TtsSpeaks
    <3>4. text \in Sentence
      BY <2>8 DEF TtsSpeaks
    <3>5. UNCHANGED <<is_released_, llm_response_, pushed, silenced, text, audio,
                      tts_sentence_queue, playing, left, in_session, announced, handleVars>>
      BY <2>8 DEF TtsSpeaks
    <3> QED
      BY <3>2, <3>3, <3>4, <3>5, <3>6 DEF Message
  <2>9. CASE TtsSpoke
    BY <2>9 DEF TtsSpoke, Prolonged
  <2>10. CASE TtsAnnounces
    <3>1. tts_sentence_queue # <<>> => Head(tts_sentence_queue).text \in Sentence
      <4>1. tts_sentence_queue # <<>> => Head(tts_sentence_queue) \in Subtitle
        BY ONLY <1>1, HeadTailProperties
      <4> QED
        BY <4>1 DEF Subtitle
    <3>2. wire' \in Message
      BY <1>a, <2>10, <3>1 DEF TtsAnnounces
    <3>3. announced' \in 0..MaxSentences
      <4>1. Sentence \subseteq 0..MaxSentences
        BY DEF Sentence
      <4>2. announced' = announced \/ announced' \in Sentence
        BY <2>10, <3>1 DEF TtsAnnounces
      <4> QED
        BY <4>1, <4>2
    <3> QED
      BY <2>10, <3>1, <3>2, <3>3 DEF TtsAnnounces, Message
  <2>11. CASE TtsAnnounced
    <3>1. tts_sentence_queue' \in Seq(Subtitle)
      BY <1>1, <2>11, HeadTailProperties DEF TtsAnnounced, AfterAnnouncement
    <3> QED
      BY <2>11, <3>1 DEF TtsAnnounced, Subtitle
  <2>12. CASE TtsChecksStop
    <3>1. wire' \in Message
      BY <1>a, <1>b, <2>12 DEF TtsChecksStop
    <3> QED
      BY <2>12, <3>1 DEF TtsChecksStop, Message
  <2>13. CASE TtsStopped
    <3>1. playing' \in BOOLEAN
      BY <2>13, Zenon DEF TtsStopped
    <3>3. left' \in Int /\ left' >= -MaxLag /\ tts_pc' = "poll"
      BY <1>c, <2>13 DEF TtsStopped
    <3>2. UNCHANGED <<is_released_, llm_response_, pushed, ws_text_, silenced, text,
                      audio, tts_sentence_queue, clientVars, handleVars>>
      BY <2>13 DEF TtsStopped
    <3> QED
      BY <3>1, <3>2, <3>3
  <2>14. CASE TtsThrows
    BY <2>14 DEF TtsThrows
  <2> QED
    BY <1>9, <2>1, <2>2, <2>3, <2>4, <2>5, <2>6, <2>7, <2>8, <2>9, <2>10, <2>11,
       <2>12, <2>13, <2>14 DEF TtsLoop
<1>10. CASE UNCHANGED vars
  BY <1>10 DEF vars, ttsVars, clientVars, handleVars
<1> QED
  BY <1>2, <1>3, <1>4, <1>5, <1>6, <1>7, <1>8, <1>9, <1>10 DEF Next

\* The type invariant holds for every value of the constants.
THEOREM TypeCorrect == Spec => []TypeOK
<1>1. TypeInv => TypeOK
  BY DEF TypeInv
<1> QED
  BY TypeInit, TypeNext, <1>1, PTL DEF Spec

-----------------------------------------------------------------------------
(* No session is kept open longer than its audio lasts *)

\* StopIsNeverLate alone is not inductive: a frame counts for the client when it
\* is written, for tts_loop when the write has completed.
StopInv ==
    /\ TypeInv
    /\ StopIsNeverLate
    /\ tts_pc = "audio_sent" /\ playing => left < buffered

\* Nothing plays at the start.
LEMMA StopInit == Init => StopInv
  BY TypeInit DEF Init, StopInv, StopIsNeverLate

\* Every step keeps what tts_loop accounts for below what the client has to play.
LEMMA StopNext == StopInv /\ [Next]_vars => StopInv'
<1> SUFFICES ASSUME StopInv, [Next]_vars PROVE StopInv'
  OBVIOUS
<1>0. TypeInv'
  BY TypeNext DEF StopInv
<1>1. left \in Int /\ left >= -MaxLag /\ buffered \in Nat /\ MaxLag \in Nat /\ MaxLag > 0
  BY BoundsAssumption DEF StopInv, TypeInv, TypeOK
<1>2. ASSUME playing' => playing, left' = left, buffered' = buffered,
             tts_pc' = "audio_sent" => tts_pc = "audio_sent"
      PROVE  StopInv'
  BY <1>0, <1>2 DEF StopInv, StopIsNeverLate
<1>3. CASE PushSentence \/ AbortClears \/ AbortPushes \/ HandleEnds \/ ExitCommand
  BY <1>2, <1>3 DEF PushSentence, AbortClears, AbortPushes, HandleEnds, ExitCommand,
                    ttsVars, clientVars
<1>4. CASE SendsWelcome("reading")
  BY <1>2, <1>4 DEF SendsWelcome, ttsVars
<1>5. CASE Tick
  <2>1. /\ playing => left' = Earlier(left, -MaxLag)
        /\ buffered' = Earlier(buffered, 0)
        /\ tts_pc' = tts_pc /\ playing' = playing
    BY <1>5 DEF Tick
  <2>2. /\ left <= buffered => Earlier(left, -MaxLag) <= Earlier(buffered, 0)
        /\ left < buffered => Earlier(left, -MaxLag) < Earlier(buffered, 0)
    BY <1>1 DEF Earlier
  <2> QED
    BY <1>0, <2>1, <2>2 DEF StopInv, StopIsNeverLate
<1>6. CASE TtsLoop
  <2> USE DEF clientVars, handleVars
  <2>1. CASE TtsPolls \/ TtsWakes \/ TtsTakesAbort \/ TtsTakesSentence \/ TtsSynthesised
             \/ TtsAnnounces \/ TtsAnnounced \/ TtsChecksStop \/ TtsThrows
    BY <1>2, <2>1 DEF TtsPolls, TtsWakes, TtsTakesAbort, TtsTakesSentence, TtsSynthesised,
                      TtsAnnounces, TtsAnnounced, TtsChecksStop, TtsThrows
  <2>2. CASE TtsAborted \/ TtsStopped
    BY <1>0, <2>2 DEF TtsAborted, TtsStopped, StopInv, StopIsNeverLate
  <2>3. CASE TtsStarted
    BY <1>0, <1>1, <2>3 DEF TtsStarted, StopInv, StopIsNeverLate
  <2>4. CASE TtsSpeaks
    <3>1. CASE audio = 0
      BY <1>2, <2>4, <3>1 DEF TtsSpeaks
    <3>2. CASE audio # 0
      BY <1>0, <1>1, <2>4, <3>2 DEF TtsSpeaks, StopInv, StopIsNeverLate
    <3> QED
      BY <3>1, <3>2
  <2>5. CASE TtsSpoke
    BY <1>0, <1>1, <2>5 DEF TtsSpoke, Prolonged, StopInv, StopIsNeverLate
  <2> QED
    BY <1>6, <2>1, <2>2, <2>3, <2>4, <2>5 DEF TtsLoop
<1>7. CASE UNCHANGED vars
  BY <1>2, <1>7 DEF vars, ttsVars, clientVars
<1> QED
  BY <1>3, <1>4, <1>5, <1>6, <1>7 DEF Next

\* The stop time of tts_loop never lies behind the end of the audio that the
\* client has still to play, for every number and length of sentences.
THEOREM NoStopIsLate == Spec => []StopIsNeverLate
<1>1. StopInv => StopIsNeverLate
  BY DEF StopInv
<1> QED
  BY StopInit, StopNext, <1>1, PTL DEF Spec

-----------------------------------------------------------------------------
(* Starts and stops alternate *)

\* The client is in a session exactly while tts_loop believes it is, but for the
\* writes of the starts and stops themselves.
SessionInv ==
    /\ tts_pc \in {"synth", "audio", "audio_sent"} => playing
    /\ tts_pc = "starting" => in_session
    /\ tts_pc \in {"stopping", "aborting"} => ~in_session
    /\ tts_pc \notin {"starting", "stopping", "aborting", "dead"} =>
          (in_session <=> playing)

\* Neither side is in a session at the start.
LEMMA SessionInit == Init => SessionInv
  BY DEF Init, SessionInv

\* Every step keeps tts_loop and the client in agreement.
LEMMA SessionNext == SessionInv /\ [Next]_vars => SessionInv'
<1> SUFFICES ASSUME SessionInv, [Next]_vars PROVE SessionInv'
  OBVIOUS
<1> USE DEF SessionInv
<1>1. CASE PushSentence \/ AbortClears \/ AbortPushes \/ HandleEnds \/ ExitCommand
  BY <1>1 DEF PushSentence, AbortClears, AbortPushes, HandleEnds, ExitCommand,
              ttsVars, clientVars
<1>2. CASE SendsWelcome("reading")
  BY <1>2 DEF SendsWelcome, ttsVars
<1>3. CASE Tick
  BY <1>3 DEF Tick
<1>4. CASE TtsLoop
  <2> USE DEF clientVars
  <2>1. CASE TtsPolls \/ TtsWakes
    BY <2>1 DEF TtsPolls, TtsWakes
  <2>2. CASE TtsTakesAbort
    BY <2>2 DEF TtsTakesAbort
  <2>3. CASE TtsAborted
    BY <2>3 DEF TtsAborted
  <2>4. CASE TtsTakesSentence
    BY <2>4 DEF TtsTakesSentence
  <2>5. CASE TtsStarted
    BY <2>5 DEF TtsStarted
  <2>6. CASE TtsSynthesised
    BY <2>6 DEF TtsSynthesised
  <2>7. CASE TtsSpeaks
    BY <2>7 DEF TtsSpeaks
  <2>8. CASE TtsSpoke
    BY <2>8 DEF TtsSpoke
  <2>9. CASE TtsAnnounces
    BY <2>9 DEF TtsAnnounces
  <2>10. CASE TtsAnnounced
    BY <2>10 DEF TtsAnnounced
  <2>11. CASE TtsChecksStop
    BY <2>11 DEF TtsChecksStop, IsPlayedOut
  <2>12. CASE TtsStopped
    BY <2>12 DEF TtsStopped
  <2>13. CASE TtsThrows
    BY <2>13 DEF TtsThrows
  <2> QED
    BY <1>4, <2>1, <2>2, <2>3, <2>4, <2>5, <2>6, <2>7, <2>8, <2>9, <2>10, <2>11,
       <2>12, <2>13 DEF TtsLoop
<1>5. CASE UNCHANGED vars
  BY <1>5 DEF vars, ttsVars, clientVars
<1> QED
  BY <1>1, <1>2, <1>3, <1>4, <1>5 DEF Next

\* A write of tts_loop begins only in the state of the session it fits.
LEMMA SessionStep ==
    ASSUME SessionInv, [Next]_vars
    PROVE  /\ Begins("starting") => ~in_session
           /\ Begins("audio_sent") => in_session
           /\ Begins("stopping") => in_session
<1> USE DEF SessionInv, Begins
<1>1. CASE TtsTakesSentence
  BY <1>1 DEF TtsTakesSentence
<1>2. CASE TtsSpeaks
  BY <1>2 DEF TtsSpeaks
<1>3. CASE TtsChecksStop
  BY <1>3 DEF TtsChecksStop, IsPlayedOut
<1>4. CASE UNCHANGED ttsVars
  BY <1>4 DEF ttsVars
<1>5. CASE Tick
  BY <1>5 DEF Tick
<1>6. CASE TtsPolls \/ TtsWakes \/ TtsTakesAbort \/ TtsAborted \/ TtsStarted
           \/ TtsSynthesised \/ TtsSpoke \/ TtsAnnounces \/ TtsAnnounced
           \/ TtsStopped \/ TtsThrows
  BY <1>6 DEF TtsPolls, TtsWakes, TtsTakesAbort, TtsAborted, TtsStarted, TtsSynthesised,
              TtsSpoke, TtsAnnounces, TtsAnnounced, TtsStopped, TtsThrows
<1>7. ASSUME PushSentence \/ AbortClears \/ AbortPushes \/ HandleEnds \/ ExitCommand
             \/ SendsWelcome("reading") \/ UNCHANGED vars
      PROVE  UNCHANGED ttsVars
  BY <1>7 DEF PushSentence, AbortClears, AbortPushes, HandleEnds, ExitCommand,
              SendsWelcome, vars
<1> QED
  BY <1>1, <1>2, <1>3, <1>4, <1>5, <1>6, <1>7 DEF Next, TtsLoop

\* Starts and stops alternate and audio lies between them, wherever aborts,
\* welcomes and failing writes fall.
THEOREM SessionsAreWellFormed == Spec => FramesFitTheSession
  BY SessionInit, SessionNext, SessionStep, PTL DEF Spec, FramesFitTheSession

-----------------------------------------------------------------------------
(* An abort silences what was pushed before it *)

\* What is queued behind an abort mark was pushed after the last abort.
MarksInOrder(q) == \A i, j \in 1..Len(q) : i < j /\ q[i] = Abort => q[j] > aborted

\* Nothing that is queued to be spoken was silenced.
Fresh(q) == \A i \in 1..Len(q) : q[i] # Abort => q[i] > silenced

Unmarked(q) == \A i \in 1..Len(q) : q[i] # Abort

\* AbortSilencesWhatWasPushed alone is not inductive: it speaks of what is
\* written, and a sentence reaches the wire from the queue, from tts_loop's hand
\* and from the subtitles.
SilenceInv ==
    /\ TypeInv
    /\ AbortSilencesWhatWasPushed
    /\ silenced <= aborted /\ aborted <= pushed
    /\ handle_pc = "clearing" => Unmarked(llm_response_)
    /\ MarksInOrder(llm_response_) /\ Fresh(llm_response_)
    /\ tts_pc \in {"starting", "synth", "audio", "audio_sent"} => text > silenced
    /\ \A i \in 1..Len(tts_sentence_queue) : tts_sentence_queue[i].text > silenced

\* Nothing is queued at the start.
LEMMA SilenceInit == Init => SilenceInv
<1> SUFFICES ASSUME Init PROVE SilenceInv
  OBVIOUS
<1>1. Len(llm_response_) = 0 /\ Len(tts_sentence_queue) = 0
  BY DEF Init, EmptyQueue
<1>2. wire.of = Nothing /\ silenced = 0 /\ aborted = 0 /\ pushed = 0
      /\ tts_pc = "poll" /\ handle_pc = "reading"
  BY DEF Init
<1> QED
  BY TypeInit, <1>1, <1>2 DEF SilenceInv, AbortSilencesWhatWasPushed, MarksInOrder, Fresh

\* Every step keeps what was silenced off the wire.
LEMMA SilenceNext == SilenceInv /\ [Next]_vars => SilenceInv'
<1> SUFFICES ASSUME SilenceInv, [Next]_vars PROVE SilenceInv'
  OBVIOUS
<1>0. TypeInv /\ TypeInv'
  BY TypeNext DEF SilenceInv
<1>1. /\ llm_response_ \in Seq(Nat) /\ tts_sentence_queue \in Seq(Subtitle)
      /\ pushed \in Nat /\ aborted \in Nat /\ silenced \in Nat
  <2>1. Sentence \union {Abort} \subseteq Nat
    BY DEF Sentence, Abort
  <2>2. llm_response_ \in Seq(Sentence \union {Abort})
    BY <1>0 DEF TypeInv, TypeOK
  <2>3. llm_response_ \in Seq(Nat)
    BY ONLY <2>1, <2>2, SeqMonotonic
  <2> QED
    BY <1>0, <2>3, BoundsAssumption DEF TypeInv, TypeOK, Subtitle
<1>2. Len(llm_response_) \in Nat /\ \A i \in 1..Len(llm_response_) : llm_response_[i] \in Nat
  BY <1>1, LenProperties, ElementOfSeq
<1>3. ASSUME UNCHANGED <<pushed, aborted, silenced, llm_response_, tts_sentence_queue>>,
             handle_pc' = "clearing" => handle_pc = "clearing",
             text' = text,
             tts_pc' \in {"starting", "synth", "audio", "audio_sent"} =>
                tts_pc \in {"starting", "synth", "audio", "audio_sent"},
             wire'.of # Nothing => wire'.of > silenced
      PROVE  SilenceInv'
  BY <1>0, <1>3 DEF SilenceInv, AbortSilencesWhatWasPushed, MarksInOrder, Fresh, Unmarked
<1>4. wire' = wire => (wire'.of # Nothing => wire'.of > silenced)
  BY DEF SilenceInv, AbortSilencesWhatWasPushed
<1>5. CASE PushSentence
  <2>1. /\ Len(llm_response_') = Len(llm_response_) + 1
        /\ \A i \in 1..Len(llm_response_) : llm_response_'[i] = llm_response_[i]
        /\ llm_response_'[Len(llm_response_) + 1] = pushed + 1
    BY <1>1, <1>5, AppendProperties DEF PushSentence, Push
  <2>2. pushed + 1 > aborted /\ pushed + 1 > silenced /\ pushed + 1 # Abort
    BY <1>1 DEF SilenceInv, Abort
  <2>3. /\ MarksInOrder(llm_response_') /\ Fresh(llm_response_')
        /\ Unmarked(llm_response_) => Unmarked(llm_response_')
    <3>1. \A i \in 1..Len(llm_response_') :
            i \in 1..Len(llm_response_) \/ llm_response_'[i] = pushed + 1
      BY <1>2, <2>1
    <3>2. MarksInOrder(llm_response_')
      <4> SUFFICES ASSUME NEW i \in 1..Len(llm_response_'), NEW j \in 1..Len(llm_response_'),
                          i < j, llm_response_'[i] = Abort
                   PROVE  llm_response_'[j] > aborted
        BY DEF MarksInOrder
      <4>1. i \in 1..Len(llm_response_)
        BY <2>2, <3>1
      <4>2. CASE j \in 1..Len(llm_response_)
        BY <2>1, <4>1, <4>2 DEF SilenceInv, MarksInOrder
      <4>3. CASE llm_response_'[j] = pushed + 1
        BY <2>2, <4>3
      <4> QED
        BY <3>1, <4>2, <4>3
    <3>3. Fresh(llm_response_')
      BY <2>1, <2>2, <3>1 DEF SilenceInv, Fresh
    <3>4. Unmarked(llm_response_) => Unmarked(llm_response_')
      BY <2>1, <2>2, <3>1 DEF Unmarked
    <3> QED
      BY <3>2, <3>3, <3>4
  <2>4. /\ pushed' = pushed + 1
        /\ UNCHANGED <<silenced, ttsVars, clientVars, handleVars>>
    BY <1>5 DEF PushSentence
  <2> QED
    BY <1>0, <1>1, <2>3, <2>4 DEF SilenceInv, AbortSilencesWhatWasPushed, MarksInOrder,
       Fresh, Unmarked, ttsVars, clientVars, handleVars
<1>6. CASE AbortClears
  <2>1. Len(llm_response_') = 0
    BY <1>6 DEF AbortClears, Cleared, EmptyQueue
  <2> QED
    BY <1>0, <1>6, <2>1 DEF AbortClears, SilenceInv, AbortSilencesWhatWasPushed,
       MarksInOrder, Fresh, Unmarked, ttsVars, clientVars
<1>7. CASE AbortPushes
  <2>1. /\ Len(llm_response_') = Len(llm_response_) + 1
        /\ \A i \in 1..Len(llm_response_) : llm_response_'[i] = llm_response_[i]
        /\ llm_response_'[Len(llm_response_) + 1] = Abort
    BY <1>1, <1>7, AppendProperties DEF AbortPushes, WithAbort, Push, Abort
  <2>2. Unmarked(llm_response_)
    BY <1>7 DEF AbortPushes, SilenceInv
  <2>3. MarksInOrder(llm_response_)' /\ Fresh(llm_response_)'
    <3>1. silenced' = silenced
      BY <1>7 DEF AbortPushes
    <3> QED
      BY <1>2, <2>1, <2>2, <3>1 DEF SilenceInv, MarksInOrder, Fresh, Unmarked
  <2>4. /\ aborted' = pushed /\ handle_pc' # "clearing"
        /\ UNCHANGED <<pushed, silenced, ttsVars, clientVars>>
    BY <1>7 DEF AbortPushes
  <2> QED
    BY <1>0, <1>1, <2>3, <2>4 DEF SilenceInv, AbortSilencesWhatWasPushed, ttsVars, clientVars
<1>8. CASE HandleEnds \/ ExitCommand
  BY <1>3, <1>4, <1>8 DEF HandleEnds, ExitCommand, ttsVars, clientVars, handleVars
<1>9. CASE SendsWelcome("reading")
  <2>1. wire'.of = Nothing
    BY <1>9 DEF SendsWelcome, Writes
  <2> QED
    BY <1>3, <1>9, <2>1 DEF SendsWelcome, ttsVars
<1>10. CASE Tick
  <2>1. /\ Len(tts_sentence_queue') = Len(tts_sentence_queue)
        /\ \A i \in 1..Len(tts_sentence_queue) :
              tts_sentence_queue'[i].text = tts_sentence_queue[i].text
    <3>1. \A i \in 1..Len(tts_sentence_queue) : tts_sentence_queue[i] \in Subtitle
      BY <1>1, ElementOfSeq
    <3>2. Len(tts_sentence_queue) \in Nat
      BY <1>1, LenProperties
    <3>3. tts_sentence_queue' = [i \in 1..Len(tts_sentence_queue) |->
            [tts_sentence_queue[i] EXCEPT !.due = Earlier(@, 0)]]
      BY <1>10 DEF Tick
    <3>4. Len(tts_sentence_queue') = Len(tts_sentence_queue)
      BY <3>2, <3>3
    <3> QED
      BY <3>1, <3>3, <3>4 DEF Subtitle
  <2>2. UNCHANGED <<pushed, llm_response_, silenced, tts_pc, text, wire, handleVars>>
    BY <1>10 DEF Tick
  <2> QED
    BY <1>0, <2>1, <2>2 DEF SilenceInv, AbortSilencesWhatWasPushed, MarksInOrder, Fresh,
       Unmarked, handleVars
<1>11. CASE TtsLoop
  <2> USE DEF clientVars, handleVars
  <2>1. CASE TtsPolls \/ TtsWakes \/ TtsAborted \/ TtsStarted \/ TtsSpoke \/ TtsStopped
             \/ TtsThrows
    BY <1>3, <1>4, <2>1 DEF TtsPolls, TtsWakes, TtsAborted, TtsStarted, TtsSpoke,
                            TtsStopped, TtsThrows
  <2>2. ASSUME ~IsEmpty(llm_response_)
        PROVE  /\ Front(llm_response_) = llm_response_[1]
               /\ Len(llm_response_) >= 1
               /\ Len(Rest(llm_response_)) = Len(llm_response_) - 1
               /\ \A i \in 1..Len(Rest(llm_response_)) :
                     Rest(llm_response_)[i] = llm_response_[i + 1]
    BY <1>1, <1>2, <2>2, HeadTailProperties, EmptySeq DEF IsEmpty, Front, Rest
  <2>3. CASE TtsTakesAbort
    <3>1. /\ llm_response_' = Rest(llm_response_) /\ ~IsEmpty(llm_response_)
          /\ llm_response_[1] = Abort
      BY <2>2, <2>3 DEF TtsTakesAbort
    <3>2. Len(tts_sentence_queue') = 0 /\ wire'.of = Nothing
      BY <2>3 DEF TtsTakesAbort, AfterAbort, Writes
    <3>3. /\ silenced' = aborted /\ tts_pc' = "aborting"
          /\ UNCHANGED <<pushed, text, handleVars>>
      BY <2>3 DEF TtsTakesAbort
    <3>4. Fresh(llm_response_)' /\ MarksInOrder(llm_response_)'
      <4>1. \A i \in 1..Len(llm_response_') : llm_response_'[i] > aborted
        <5>1. \A i \in 1..Len(llm_response_') :
                i + 1 \in 1..Len(llm_response_) /\ 1 < i + 1 /\ 1 \in 1..Len(llm_response_)
          BY <1>2, <2>2, <3>1
        <5> QED
          BY <2>2, <3>1, <5>1 DEF SilenceInv, MarksInOrder
      <4> QED
        BY <3>3, <4>1 DEF MarksInOrder, Fresh
    <3>5. handle_pc' = "clearing" => Unmarked(llm_response_')
      BY <1>2, <2>2, <3>1, <3>3 DEF SilenceInv, Unmarked
    <3> QED
      BY <1>0, <1>1, <3>2, <3>3, <3>4, <3>5 DEF SilenceInv, AbortSilencesWhatWasPushed
  <2>4. CASE TtsTakesSentence
    <3>1. /\ llm_response_' = Rest(llm_response_) /\ ~IsEmpty(llm_response_)
          /\ text' = llm_response_[1] /\ llm_response_[1] # Abort
      BY <2>2, <2>4 DEF TtsTakesSentence
    <3>2. text' > silenced
      BY <1>2, <2>2, <3>1 DEF SilenceInv, Fresh
    <3>3. UNCHANGED <<pushed, silenced, tts_sentence_queue, handleVars>>
      BY <2>4 DEF TtsTakesSentence
    <3>4. Fresh(llm_response_)' /\ MarksInOrder(llm_response_)'
      <4>1. \A i \in 1..Len(llm_response_') :
              i + 1 \in 1..Len(llm_response_) /\ llm_response_'[i] = llm_response_[i + 1]
        BY <1>2, <2>2, <3>1
      <4>2. \A i, j \in 1..Len(llm_response_') : i < j => i + 1 < j + 1
        BY <1>2, <2>2, <3>1
      <4>3. Fresh(llm_response_)'
        BY <3>3, <4>1 DEF SilenceInv, Fresh
      <4>4. MarksInOrder(llm_response_)'
        BY <3>3, <4>1, <4>2 DEF SilenceInv, MarksInOrder
      <4> QED
        BY <4>3, <4>4
    <3>5. handle_pc' = "clearing" => Unmarked(llm_response_')
      BY <1>2, <2>2, <3>1, <3>3 DEF SilenceInv, Unmarked
    <3>6. wire' = wire \/ wire'.of = Nothing
      BY <2>4 DEF TtsTakesSentence, Writes
    <3> QED
      BY <1>0, <3>2, <3>3, <3>4, <3>5, <3>6 DEF SilenceInv, AbortSilencesWhatWasPushed
  <2>5. CASE TtsSynthesised
    <3>1. tts_sentence_queue' =
            Append(tts_sentence_queue, [text |-> text, due |-> DueAt(left)])
      BY <2>5 DEF TtsSynthesised
    <3>2. [text |-> text, due |-> DueAt(left)] \in Subtitle
      BY <1>0, <2>5 DEF TtsSynthesised, TypeInv, TypeOK, DueAt, Subtitle
    <3>3. /\ Len(tts_sentence_queue') = Len(tts_sentence_queue) + 1
          /\ \A i \in 1..Len(tts_sentence_queue) :
                tts_sentence_queue'[i] = tts_sentence_queue[i]
          /\ tts_sentence_queue'[Len(tts_sentence_queue) + 1].text = text
          /\ Len(tts_sentence_queue) \in Nat
      BY <1>1, <3>1, <3>2, AppendProperties, LenProperties
    <3>4. text > silenced
      BY <2>5 DEF TtsSynthesised, SilenceInv
    <3>5. \A i \in 1..Len(tts_sentence_queue') : tts_sentence_queue'[i].text > silenced
      BY <3>3, <3>4 DEF SilenceInv
    <3>6. UNCHANGED <<pushed, aborted, silenced, llm_response_, text, wire, handle_pc>>
      BY <2>5 DEF TtsSynthesised
    <3> QED
      BY <1>0, <3>4, <3>5, <3>6 DEF SilenceInv, AbortSilencesWhatWasPushed, MarksInOrder,
         Fresh, Unmarked
  <2>6. CASE TtsSpeaks
    <3>1. text > silenced
      BY <2>6 DEF TtsSpeaks, SilenceInv
    <3>2. wire' = wire \/ wire'.of = text
      BY <2>6 DEF TtsSpeaks, Writes
    <3> QED
      BY <1>3, <1>4, <2>6, <3>1, <3>2 DEF TtsSpeaks
  <2>7. CASE TtsAnnounces
    <3>1. tts_sentence_queue # <<>> => Head(tts_sentence_queue).text > silenced
      <4>1. tts_sentence_queue # <<>> =>
              Len(tts_sentence_queue) >= 1 /\ Head(tts_sentence_queue) = tts_sentence_queue[1]
        BY <1>1, HeadTailProperties, LenProperties, EmptySeq
      <4> QED
        BY <4>1 DEF SilenceInv
    <3>2. \/ wire' = wire
          \/ tts_sentence_queue # <<>> /\ wire'.of = Head(tts_sentence_queue).text
      BY <2>7 DEF TtsAnnounces, Writes
    <3> QED
      BY <1>3, <1>4, <2>7, <3>1, <3>2 DEF TtsAnnounces
  <2>8. CASE TtsAnnounced
    <3>1. tts_sentence_queue # <<>> /\ tts_sentence_queue' = Tail(tts_sentence_queue)
      BY <1>0, <2>8 DEF TtsAnnounced, TypeInv, AfterAnnouncement
    <3>2. /\ Len(tts_sentence_queue') = Len(tts_sentence_queue) - 1
          /\ \A i \in 1..Len(tts_sentence_queue') :
                tts_sentence_queue'[i] = tts_sentence_queue[i + 1]
          /\ Len(tts_sentence_queue) \in Nat
      BY <1>1, <3>1, HeadTailProperties, LenProperties
    <3>3. \A i \in 1..Len(tts_sentence_queue') : tts_sentence_queue'[i].text > silenced
      BY <3>2 DEF SilenceInv
    <3>4. /\ tts_pc' = "sentences"
          /\ UNCHANGED <<pushed, aborted, silenced, llm_response_, text, wire, handle_pc>>
      BY <2>8 DEF TtsAnnounced
    <3> QED
      BY <1>0, <3>3, <3>4 DEF SilenceInv, AbortSilencesWhatWasPushed, MarksInOrder, Fresh,
         Unmarked
  <2>9. CASE TtsChecksStop
    <3>1. wire' = wire \/ wire'.of = Nothing
      BY <2>9 DEF TtsChecksStop, Writes
    <3> QED
      BY <1>3, <1>4, <2>9, <3>1 DEF TtsChecksStop
  <2> QED
    BY <1>11, <2>1, <2>3, <2>4, <2>5, <2>6, <2>7, <2>8, <2>9 DEF TtsLoop
<1>12. CASE UNCHANGED vars
  BY <1>3, <1>4, <1>12 DEF vars, ttsVars, clientVars, handleVars
<1> QED
  BY <1>5, <1>6, <1>7, <1>8, <1>9, <1>10, <1>11, <1>12 DEF Next

\* After the stop that answers an abort, no audio and no subtitle of a sentence
\* pushed before the abort mark is written, for every number of sentences and
\* aborts and every interleaving of their producers with tts_loop.
THEOREM AbortsSilence == Spec => []AbortSilencesWhatWasPushed
<1>1. SilenceInv => AbortSilencesWhatWasPushed
  BY DEF SilenceInv
<1> QED
  BY SilenceInit, SilenceNext, <1>1, PTL DEF Spec

-----------------------------------------------------------------------------
(* Subtitles come in order and after the audio *)

\* The sentences that wait to be spoken were pushed in order, after the one that
\* is spoken.
InOrder(q) ==
    /\ \A i \in 1..Len(q) : q[i] # Abort => q[i] > text /\ q[i] <= pushed
    /\ \A i, j \in 1..Len(q) : i < j /\ q[i] # Abort /\ q[j] # Abort => q[i] < q[j]

\* The subtitles that wait to be shown are of spoken sentences, in their order.
Unshown(q) ==
    /\ \A i \in 1..Len(q) : q[i].text <= text /\ q[i].text >= announced
    /\ \A i, j \in 1..Len(q) : i < j => q[i].text < q[j].text

\* SubtitlesFollowTheSpeech speaks of one step; what makes it true is the order
\* of all that is on its way: queued, in hand, and waiting for its time.  The
\* first subtitle is on the wire before it leaves the queue.
SubtitleInv ==
    /\ TypeInv
    /\ text <= pushed /\ announced <= text
    /\ InOrder(llm_response_)
    /\ Unshown(tts_sentence_queue)
    /\ tts_pc \in {"starting", "synth"} =>
          /\ announced < text
          /\ \A i \in 1..Len(tts_sentence_queue) : tts_sentence_queue[i].text < text
    /\ tts_pc \notin {"announcing", "dead"} =>
          \A i \in 1..Len(tts_sentence_queue) : tts_sentence_queue[i].text > announced
    /\ tts_pc \notin {"audio", "audio_sent", "dead"} => audio = 0

\* Nothing waits at the start.
LEMMA SubtitleInit == Init => SubtitleInv
<1> SUFFICES ASSUME Init PROVE SubtitleInv
  OBVIOUS
<1>1. Len(llm_response_) = 0 /\ Len(tts_sentence_queue) = 0
  BY DEF Init, EmptyQueue
<1>2. text = 0 /\ announced = 0 /\ pushed = 0 /\ audio = 0 /\ tts_pc = "poll"
  BY DEF Init, Nothing
<1> QED
  BY TypeInit, <1>1, <1>2 DEF SubtitleInv, InOrder, Unshown

\* Every step keeps the order of what is on its way.
LEMMA SubtitleNext == SubtitleInv /\ [Next]_vars => SubtitleInv'
<1> SUFFICES ASSUME SubtitleInv, [Next]_vars PROVE SubtitleInv'
  OBVIOUS
<1>0. TypeInv /\ TypeInv'
  BY TypeNext DEF SubtitleInv
<1>1. /\ llm_response_ \in Seq(Nat) /\ tts_sentence_queue \in Seq(Subtitle)
      /\ pushed \in Nat /\ text \in Nat /\ announced \in Nat /\ audio \in Nat
  <2>1. Sentence \union {Abort} \subseteq Nat /\ Sentence \union {Nothing} \subseteq Nat
    BY DEF Sentence, Abort, Nothing
  <2>2. llm_response_ \in Seq(Sentence \union {Abort})
    BY <1>0 DEF TypeInv, TypeOK
  <2>3. llm_response_ \in Seq(Nat)
    BY ONLY <2>1, <2>2, SeqMonotonic
  <2>4. tts_sentence_queue \in Seq(Subtitle)
    BY <1>0 DEF TypeInv, TypeOK, Subtitle
  <2>5. pushed \in Nat /\ text \in Nat /\ announced \in Nat /\ audio \in Nat
    <3>1. /\ pushed \in 0..MaxSentences /\ announced \in 0..MaxSentences
          /\ audio \in 0..MaxAudio /\ text \in Sentence \union {Nothing}
      BY <1>0 DEF TypeInv, TypeOK
    <3> QED
      BY <2>1, <3>1, BoundsAssumption
  <2> QED
    BY <2>3, <2>4, <2>5
<1>2. /\ Len(llm_response_) \in Nat
      /\ \A i \in 1..Len(llm_response_) : llm_response_[i] \in Nat
      /\ Len(tts_sentence_queue) \in Nat
      /\ \A i \in 1..Len(tts_sentence_queue) :
            tts_sentence_queue[i] \in Subtitle /\ tts_sentence_queue[i].text \in Nat
  <2>1. Len(llm_response_) \in Nat /\ Len(tts_sentence_queue) \in Nat
    BY <1>1, LenProperties
  <2>2. \A i \in 1..Len(llm_response_) : llm_response_[i] \in Nat
    BY <1>1, ElementOfSeq
  <2>3. \A i \in 1..Len(tts_sentence_queue) : tts_sentence_queue[i] \in Subtitle
    BY <1>1, ElementOfSeq
  <2>4. \A s \in Subtitle : s.text \in Nat
    BY DEF Subtitle, Sentence
  <2> QED
    BY <2>1, <2>2, <2>3, <2>4
<1>3. ASSUME UNCHANGED <<pushed, llm_response_, tts_sentence_queue, text, announced>>,
             tts_pc' \in {"starting", "synth"} => tts_pc \in {"starting", "synth"},
             tts_pc' \notin {"announcing", "dead"} => tts_pc \notin {"announcing", "dead"},
             tts_pc' \notin {"audio", "audio_sent", "dead"} => audio' = 0
      PROVE  SubtitleInv'
  BY <1>0, <1>3 DEF SubtitleInv, InOrder, Unshown
<1>4. tts_pc' = tts_pc /\ audio' = audio =>
        (tts_pc' \notin {"audio", "audio_sent", "dead"} => audio' = 0)
  BY DEF SubtitleInv
<1>5. CASE PushSentence
  <2>1. /\ Len(llm_response_') = Len(llm_response_) + 1
        /\ \A i \in 1..Len(llm_response_) : llm_response_'[i] = llm_response_[i]
        /\ llm_response_'[Len(llm_response_) + 1] = pushed + 1
    BY <1>1, <1>5, AppendProperties DEF PushSentence, Push
  <2>2. /\ pushed' = pushed + 1
        /\ UNCHANGED <<silenced, ttsVars, clientVars, handleVars>>
    BY <1>5 DEF PushSentence
  <2>3. UNCHANGED <<text, announced, tts_sentence_queue, tts_pc, audio>>
    BY <2>2 DEF ttsVars, clientVars
  <2>4. InOrder(llm_response_)'
    <3>1. \A i \in 1..Len(llm_response_') :
            \/ i \in 1..Len(llm_response_)
            \/ i = Len(llm_response_) + 1
      BY <1>2, <2>1
    <3>2. \A i \in 1..Len(llm_response_') :
            llm_response_'[i] # Abort => llm_response_'[i] > text /\ llm_response_'[i] <= pushed + 1
      BY <1>1, <1>2, <2>1, <3>1 DEF SubtitleInv, InOrder
    <3>3. ASSUME NEW i \in 1..Len(llm_response_'), NEW j \in 1..Len(llm_response_'),
                 i < j, llm_response_'[i] # Abort, llm_response_'[j] # Abort
          PROVE  llm_response_'[i] < llm_response_'[j]
      <4>1. i \in 1..Len(llm_response_)
        BY <1>2, <2>1, <3>3
      <4>2. CASE j \in 1..Len(llm_response_)
        BY <2>1, <3>3, <4>1, <4>2 DEF SubtitleInv, InOrder
      <4>3. CASE j = Len(llm_response_) + 1
        BY <1>1, <1>2, <2>1, <3>3, <4>1, <4>3 DEF SubtitleInv, InOrder
      <4> QED
        BY <3>1, <4>2, <4>3
    <3> QED
      BY <2>2, <2>3, <3>2, <3>3 DEF InOrder
  <2> QED
    BY <1>0, <1>1, <2>2, <2>3, <2>4 DEF SubtitleInv, Unshown
<1>6. CASE AbortClears
  <2>1. Len(llm_response_') = 0
    BY <1>6 DEF AbortClears, Cleared, EmptyQueue
  <2>2. UNCHANGED <<pushed, text, announced, tts_sentence_queue, tts_pc, audio>>
    BY <1>6 DEF AbortClears, ttsVars, clientVars
  <2> QED
    BY <1>0, <2>1, <2>2 DEF SubtitleInv, InOrder, Unshown
<1>7. CASE AbortPushes
  <2>1. /\ Len(llm_response_') = Len(llm_response_) + 1
        /\ \A i \in 1..Len(llm_response_) : llm_response_'[i] = llm_response_[i]
        /\ llm_response_'[Len(llm_response_) + 1] = Abort
    BY <1>1, <1>7, AppendProperties DEF AbortPushes, WithAbort, Push, Abort
  <2>2. UNCHANGED <<pushed, text, announced, tts_sentence_queue, tts_pc, audio>>
    BY <1>7 DEF AbortPushes, ttsVars, clientVars
  <2>3. \A i \in 1..Len(llm_response_') :
          llm_response_'[i] # Abort => i \in 1..Len(llm_response_)
    BY <1>2, <2>1
  <2>4. InOrder(llm_response_)'
    BY <2>1, <2>2, <2>3 DEF SubtitleInv, InOrder
  <2> QED
    BY <1>0, <2>2, <2>4 DEF SubtitleInv, Unshown
<1>8. CASE HandleEnds \/ ExitCommand \/ SendsWelcome("reading")
  <2>1. UNCHANGED <<pushed, llm_response_, announced, ttsVars>>
    BY <1>8 DEF HandleEnds, ExitCommand, SendsWelcome, clientVars
  <2> QED
    BY <1>3, <1>4, <2>1 DEF ttsVars
<1>9. CASE Tick
  <2>1. /\ Len(tts_sentence_queue') = Len(tts_sentence_queue)
        /\ \A i \in 1..Len(tts_sentence_queue) :
              tts_sentence_queue'[i].text = tts_sentence_queue[i].text
    <3>1. tts_sentence_queue' = [i \in 1..Len(tts_sentence_queue) |->
            [tts_sentence_queue[i] EXCEPT !.due = Earlier(@, 0)]]
      BY <1>9 DEF Tick
    <3>2. Len(tts_sentence_queue') = Len(tts_sentence_queue)
      BY <1>2, <3>1
    <3> QED
      BY <1>2, <3>1, <3>2 DEF Subtitle
  <2>2. UNCHANGED <<pushed, llm_response_, tts_pc, text, audio, announced>>
    BY <1>9 DEF Tick
  <2> QED
    BY <1>0, <2>1, <2>2 DEF SubtitleInv, InOrder, Unshown
<1>10. CASE TtsLoop
  <2> USE DEF clientVars, handleVars
  <2>1. CASE TtsPolls \/ TtsWakes \/ TtsAborted \/ TtsStarted \/ TtsSpoke
             \/ TtsChecksStop \/ TtsStopped \/ TtsThrows \/ TtsSpeaks
    <3>1. UNCHANGED <<pushed, llm_response_, tts_sentence_queue, text, announced>>
      BY <2>1 DEF TtsPolls, TtsWakes, TtsAborted, TtsStarted, TtsSpoke, TtsChecksStop,
                  TtsStopped, TtsThrows, TtsSpeaks
    <3>2. /\ tts_pc' \in {"starting", "synth"} => tts_pc \in {"starting", "synth"}
          /\ tts_pc' \notin {"announcing", "dead"} => tts_pc \notin {"announcing", "dead"}
          /\ tts_pc' \notin {"audio", "audio_sent", "dead"} => audio' = 0
      BY <2>1 DEF TtsPolls, TtsWakes, TtsAborted, TtsStarted, TtsSpoke, TtsChecksStop,
                  TtsStopped, TtsThrows, TtsSpeaks, SubtitleInv
    <3> QED
      BY <1>3, <3>1, <3>2
  <2>2. ASSUME ~IsEmpty(llm_response_)
        PROVE  /\ Front(llm_response_) = llm_response_[1]
               /\ Len(llm_response_) >= 1
               /\ Len(Rest(llm_response_)) = Len(llm_response_) - 1
               /\ \A i \in 1..Len(Rest(llm_response_)) :
                     /\ i + 1 \in 1..Len(llm_response_)
                     /\ Rest(llm_response_)[i] = llm_response_[i + 1]
    BY <1>1, <1>2, <2>2, HeadTailProperties, EmptySeq DEF IsEmpty, Front, Rest
  <2>3. CASE TtsTakesAbort
    <3>1. llm_response_' = Rest(llm_response_) /\ ~IsEmpty(llm_response_)
      BY <2>3 DEF TtsTakesAbort
    <3>2. /\ Len(tts_sentence_queue') = 0 /\ tts_pc' = "aborting" /\ tts_pc = "poll"
          /\ UNCHANGED <<pushed, text, announced, audio>>
      BY <2>3 DEF TtsTakesAbort, AfterAbort
    <3>3. InOrder(llm_response_)'
      BY <1>2, <2>2, <3>1, <3>2 DEF SubtitleInv, InOrder
    <3> QED
      BY <1>0, <3>2, <3>3 DEF SubtitleInv, Unshown
  <2>4. CASE TtsTakesSentence
    <3>1. /\ llm_response_' = Rest(llm_response_) /\ ~IsEmpty(llm_response_)
          /\ text' = llm_response_[1] /\ llm_response_[1] # Abort
      BY <2>2, <2>4 DEF TtsTakesSentence
    <3>2. text' > text /\ text' <= pushed /\ 1 \in 1..Len(llm_response_) /\ text' \in Nat
      BY <1>2, <2>2, <3>1 DEF SubtitleInv, InOrder
    <3>3. /\ tts_pc = "poll" /\ tts_pc' \in {"starting", "synth"}
          /\ UNCHANGED <<pushed, tts_sentence_queue, announced, audio>>
      BY <2>4 DEF TtsTakesSentence
    <3>4. InOrder(llm_response_)'
      <4>1. \A i \in 1..Len(llm_response_') :
              llm_response_'[i] # Abort =>
                /\ llm_response_'[i] > llm_response_[1]
                /\ llm_response_'[i] <= pushed
        <5>1. \A i \in 1..Len(llm_response_') : 1 < i + 1
          BY <1>2, <2>2, <3>1
        <5> QED
          BY <2>2, <3>1, <3>2, <5>1 DEF SubtitleInv, InOrder
      <4>2. \A i, j \in 1..Len(llm_response_') : i < j => i + 1 < j + 1
        BY <1>2, <2>2, <3>1
      <4>3. \A i, j \in 1..Len(llm_response_') :
              i < j /\ llm_response_'[i] # Abort /\ llm_response_'[j] # Abort =>
                llm_response_'[i] < llm_response_'[j]
        BY <2>2, <3>1, <4>2 DEF SubtitleInv, InOrder
      <4> QED
        BY <3>1, <3>3, <4>1, <4>3 DEF InOrder
    <3>5. /\ \A i \in 1..Len(tts_sentence_queue) : tts_sentence_queue[i].text < text'
          /\ announced < text'
      BY <1>1, <1>2, <3>2 DEF SubtitleInv, Unshown
    <3> QED
      BY <1>0, <1>1, <1>2, <3>2, <3>3, <3>4, <3>5 DEF SubtitleInv, Unshown
  <2>5. CASE TtsSynthesised
    <3>1. tts_sentence_queue' =
            Append(tts_sentence_queue, [text |-> text, due |-> DueAt(left)])
      BY <2>5 DEF TtsSynthesised
    <3>2. [text |-> text, due |-> DueAt(left)] \in Subtitle
      BY <1>0, <2>5 DEF TtsSynthesised, TypeInv, TypeOK, DueAt, Subtitle
    <3>3. /\ Len(tts_sentence_queue') = Len(tts_sentence_queue) + 1
          /\ \A i \in 1..Len(tts_sentence_queue) :
                tts_sentence_queue'[i] = tts_sentence_queue[i]
          /\ tts_sentence_queue'[Len(tts_sentence_queue) + 1].text = text
      BY <1>1, <3>1, <3>2, AppendProperties
    <3>4. /\ announced < text
          /\ \A i \in 1..Len(tts_sentence_queue) :
                tts_sentence_queue[i].text < text /\ tts_sentence_queue[i].text > announced
      BY <2>5 DEF TtsSynthesised, SubtitleInv
    <3>5. /\ tts_pc' = "audio"
          /\ UNCHANGED <<pushed, llm_response_, text, announced>>
      BY <2>5 DEF TtsSynthesised
    <3>6. \A i \in 1..Len(tts_sentence_queue') :
            /\ i \in 1..Len(tts_sentence_queue) \/ i = Len(tts_sentence_queue) + 1
            /\ tts_sentence_queue'[i].text <= text /\ tts_sentence_queue'[i].text > announced
      BY <1>1, <1>2, <3>3, <3>4
    <3>7. ASSUME NEW i \in 1..Len(tts_sentence_queue'), NEW j \in 1..Len(tts_sentence_queue'),
                 i < j
          PROVE  tts_sentence_queue'[i].text < tts_sentence_queue'[j].text
      <4>1. i \in 1..Len(tts_sentence_queue)
        BY <1>2, <3>3, <3>7
      <4>2. CASE j \in 1..Len(tts_sentence_queue)
        BY <3>3, <3>7, <4>1, <4>2 DEF SubtitleInv, Unshown
      <4>3. CASE j = Len(tts_sentence_queue) + 1
        BY <3>3, <3>4, <4>1, <4>3
      <4> QED
        BY <3>6, <4>2, <4>3
    <3>8. Unshown(tts_sentence_queue)'
      <4>1. \A i \in 1..Len(tts_sentence_queue') : tts_sentence_queue'[i].text \in Nat
        BY <1>1, <1>2, <3>3, <3>6
      <4>2. \A i \in 1..Len(tts_sentence_queue') :
              tts_sentence_queue'[i].text <= text /\ tts_sentence_queue'[i].text >= announced
        BY <1>1, <3>6, <4>1
      <4> QED
        BY <3>5, <3>7, <4>2 DEF Unshown
    <3> QED
      BY <1>0, <3>4, <3>5, <3>6, <3>8 DEF SubtitleInv, InOrder
  <2>6. ASSUME tts_sentence_queue # <<>>
        PROVE  /\ Len(tts_sentence_queue) >= 1
               /\ Head(tts_sentence_queue) = tts_sentence_queue[1]
               /\ Len(Tail(tts_sentence_queue)) = Len(tts_sentence_queue) - 1
               /\ \A i \in 1..Len(Tail(tts_sentence_queue)) :
                     /\ i + 1 \in 1..Len(tts_sentence_queue)
                     /\ Tail(tts_sentence_queue)[i] = tts_sentence_queue[i + 1]
    BY <1>1, <1>2, <2>6, HeadTailProperties, EmptySeq
  <2>7. CASE TtsAnnounces
    <3>1. CASE tts_sentence_queue # <<>> /\ Head(tts_sentence_queue).due = 0
      <4>1. /\ tts_pc = "sentences" /\ tts_pc' = "announcing"
            /\ announced' = tts_sentence_queue[1].text
            /\ UNCHANGED <<pushed, llm_response_, tts_sentence_queue, text, audio>>
        BY <2>6, <2>7, <3>1 DEF TtsAnnounces
      <4>2. \A i \in 1..Len(tts_sentence_queue) :
              tts_sentence_queue[i].text >= tts_sentence_queue[1].text
        BY <1>2, <2>6, <3>1 DEF SubtitleInv, Unshown
      <4>3. tts_sentence_queue[1].text <= text
        BY <1>2, <2>6, <3>1 DEF SubtitleInv, Unshown
      <4> QED
        BY <1>0, <1>2, <4>1, <4>2, <4>3 DEF SubtitleInv, InOrder, Unshown
    <3>2. CASE ~(tts_sentence_queue # <<>> /\ Head(tts_sentence_queue).due = 0)
      <4>1. /\ tts_pc = "sentences" /\ tts_pc' = "stop_check"
            /\ UNCHANGED <<pushed, llm_response_, tts_sentence_queue, text, audio, announced>>
        BY <2>7, <3>2 DEF TtsAnnounces
      <4> QED
        BY <1>3, <4>1 DEF SubtitleInv
    <3> QED
      BY <3>1, <3>2
  <2>8. CASE TtsAnnounced
    <3>1. tts_sentence_queue # <<>> /\ tts_sentence_queue' = Tail(tts_sentence_queue)
      BY <1>0, <2>8 DEF TtsAnnounced, TypeInv, AfterAnnouncement
    <3>2. /\ tts_pc = "announcing" /\ tts_pc' = "sentences"
          /\ UNCHANGED <<pushed, llm_response_, text, announced, audio>>
      BY <2>8 DEF TtsAnnounced
    <3>3. \A i \in 1..Len(tts_sentence_queue') :
            tts_sentence_queue'[i].text > announced /\ tts_sentence_queue'[i].text <= text
      <4>1. \A i \in 1..Len(tts_sentence_queue') :
              tts_sentence_queue[i + 1].text > tts_sentence_queue[1].text
        <5>1. \A i \in 1..Len(tts_sentence_queue') :
                1 < i + 1 /\ 1 \in 1..Len(tts_sentence_queue)
          BY <1>2, <2>6, <3>1
        <5> QED
          BY <2>6, <3>1, <5>1 DEF SubtitleInv, Unshown
      <4>2. tts_sentence_queue[1].text >= announced /\ tts_sentence_queue[1].text \in Nat
        BY <1>2, <2>6, <3>1 DEF SubtitleInv, Unshown
      <4>3. ASSUME NEW i \in 1..Len(tts_sentence_queue')
            PROVE  tts_sentence_queue'[i].text > announced /\ tts_sentence_queue'[i].text <= text
        <5>1. i + 1 \in 1..Len(tts_sentence_queue)
          BY <2>6, <3>1
        <5>2. tts_sentence_queue'[i] = tts_sentence_queue[i + 1]
          BY <2>6, <3>1
        <5>3. tts_sentence_queue[i + 1].text <= text /\ tts_sentence_queue[i + 1].text \in Nat
          BY <1>2, <5>1 DEF SubtitleInv, Unshown
        <5>4. tts_sentence_queue[i + 1].text > tts_sentence_queue[1].text
          BY <4>1
        <5>5. announced \in Nat
          BY <1>1
        <5> QED
          BY <4>2, <5>2, <5>3, <5>4, <5>5
      <4> QED
        BY <4>3
    <3>4. \A i, j \in 1..Len(tts_sentence_queue') :
            i < j => tts_sentence_queue'[i].text < tts_sentence_queue'[j].text
      <4>1. \A i, j \in 1..Len(tts_sentence_queue') : i < j => i + 1 < j + 1
        BY <1>2, <2>6, <3>1
      <4> QED
        BY <2>6, <3>1, <4>1 DEF SubtitleInv, Unshown
    <3>5. \A i \in 1..Len(tts_sentence_queue') : tts_sentence_queue'[i].text \in Nat
      BY <1>2, <2>6, <3>1
    <3>6. Unshown(tts_sentence_queue)'
      BY <1>1, <3>2, <3>3, <3>4, <3>5 DEF Unshown
    <3> QED
      BY <1>0, <3>2, <3>3, <3>6 DEF SubtitleInv, InOrder
  <2> QED
    BY <1>10, <2>1, <2>3, <2>4, <2>5, <2>7, <2>8 DEF TtsLoop
<1>11. CASE UNCHANGED vars
  BY <1>3, <1>4, <1>11 DEF vars, ttsVars, clientVars
<1> QED
  BY <1>5, <1>6, <1>7, <1>8, <1>9, <1>10, <1>11 DEF Next

\* A subtitle that is shown is newer than the last, of a sentence that was spoken.
LEMMA SubtitleStep ==
    ASSUME SubtitleInv, [Next]_vars, Begins("announcing")
    PROVE  announced < announced' /\ announced' <= text /\ audio = 0
<1>1. tts_pc # "announcing" /\ tts_pc' = "announcing"
  BY DEF Begins
<1>2. CASE TtsAnnounces
  <2>1. /\ tts_pc = "sentences" /\ tts_sentence_queue # <<>>
        /\ announced' = Head(tts_sentence_queue).text
    BY <1>1, <1>2 DEF TtsAnnounces
  <2>2. tts_sentence_queue \in Seq(Subtitle)
    BY DEF SubtitleInv, TypeInv, TypeOK, Subtitle
  <2>3. Len(tts_sentence_queue) >= 1 /\ Head(tts_sentence_queue) = tts_sentence_queue[1]
    BY <2>1, <2>2, HeadTailProperties, LenProperties, EmptySeq
  <2>4. 1 \in 1..Len(tts_sentence_queue)
    BY <2>2, <2>3, LenProperties
  <2> QED
    BY <2>1, <2>3, <2>4 DEF SubtitleInv, Unshown
<1>3. CASE UNCHANGED ttsVars \/ Tick
  BY <1>1, <1>3 DEF ttsVars, Tick
<1>4. CASE \/ TtsPolls \/ TtsWakes \/ TtsTakesAbort \/ TtsAborted \/ TtsTakesSentence
           \/ TtsStarted \/ TtsSynthesised \/ TtsSpeaks \/ TtsSpoke \/ TtsAnnounced
           \/ TtsChecksStop \/ TtsStopped \/ TtsThrows
  BY <1>1, <1>4 DEF TtsPolls, TtsWakes, TtsTakesAbort, TtsAborted, TtsTakesSentence,
                    TtsStarted, TtsSynthesised, TtsSpeaks, TtsSpoke, TtsAnnounced,
                    TtsChecksStop, TtsStopped, TtsThrows
<1>5. ASSUME PushSentence \/ AbortClears \/ AbortPushes \/ HandleEnds \/ ExitCommand
             \/ SendsWelcome("reading") \/ UNCHANGED vars
      PROVE  UNCHANGED ttsVars
  BY <1>5 DEF PushSentence, AbortClears, AbortPushes, HandleEnds, ExitCommand,
              SendsWelcome, vars
<1> QED
  BY <1>2, <1>3, <1>4, <1>5 DEF Next, TtsLoop

\* Subtitles are shown once, in the order of the answer and after all the audio of
\* their sentence, for every number and length of sentences and every abort.
THEOREM SubtitlesInOrder == Spec => SubtitlesFollowTheSpeech
  BY SubtitleInit, SubtitleNext, SubtitleStep, PTL DEF Spec, SubtitlesFollowTheSpeech
=============================================================================
