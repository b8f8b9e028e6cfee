------------------------- MODULE SpeechInputProofs -------------------------
(***************************************************************************)
(* Proofs about SpeechInput, for every number of frames and every set of     *)
(* recogniser faults.                                                      *)
(***************************************************************************)
EXTENDS SpeechInput, SequenceTheorems, TLAPS

-----------------------------------------------------------------------------
(* The queue *)

\* What ThreadSafeQueue::push does to a queue of elements of S.
LEMMA PushProperties ==
    ASSUME NEW S, NEW q \in Seq(S), NEW e \in S
    PROVE  /\ Push(q, e) \in Seq(S)
           /\ Push(q, e) # <<>>
           /\ Len(Push(q, e)) = Len(q) + 1
           /\ \A i \in 1..Len(q) : Push(q, e)[i] = q[i]
           /\ Push(q, e)[Len(Push(q, e))] = e
  BY AppendProperties DEF Push

\* What a successful ThreadSafeQueue::try_pop hands out and what it leaves.
LEMMA PopProperties ==
    ASSUME NEW S, NEW q \in Seq(S), ~IsEmpty(q)
    PROVE  /\ Front(q) \in S
           /\ Front(q) = q[1]
           /\ Rest(q) \in Seq(S)
           /\ Len(Rest(q)) = Len(q) - 1
           /\ \A i \in 1..Len(Rest(q)) : Rest(q)[i] = q[i + 1]
  BY HeadTailProperties DEF IsEmpty, Front, Rest

-----------------------------------------------------------------------------
(* Type correctness *)

\* The type invariant holds at the start.
LEMMA TypeInit == Init => TypeOK
<1>1. \A S : <<>> \in Seq(S)
  BY EmptySeq
<1>2. 0 \in 0..MaxFrames
  BY MaxFramesAssumption
<1> QED
  BY <1>1, <1>2 DEF Init, TypeOK, EmptyQueue, None

\* Every step of handle, the timer and asr_loop keeps the types.
LEMMA TypeNext == TypeOK /\ [Next]_vars => TypeOK'
<1> SUFFICES ASSUME TypeOK, [Next]_vars PROVE TypeOK'
  OBVIOUS
<1> USE MaxFramesAssumption DEF TypeOK, Frame, None, EndOfSpeech
<1>1. CASE HandleVoicedFrame
  <2>1. heard + 1 \in Frame
    BY <1>1 DEF HandleVoicedFrame
  <2>2. asr_audio_' \in Seq(Frame \union {EndOfSpeech})
    BY <1>1, <2>1, PushProperties DEF HandleVoicedFrame
  <2> QED
    BY <1>1, <2>1, <2>2 DEF HandleVoicedFrame
<1>2. CASE ArmSilenceTimer
  BY <1>2 DEF ArmSilenceTimer, Rearmed, LoopHead
<1>3. CASE HandleEnds
  BY <1>3 DEF HandleEnds
<1>4. CASE SilenceExpires
  BY <1>4 DEF SilenceExpires
<1>5. CASE SilenceHandler
  <2>1. asr_audio_' \in Seq(Frame \union {EndOfSpeech})
    BY <1>5, PushProperties DEF SilenceHandler
  <2> QED
    BY <1>5, <2>1 DEF SilenceHandler
<1>6. CASE AsrLoop
  <2>1. CASE AsrOver
    BY <2>1 DEF AsrOver
  <2>2. CASE AsrFindsNothing
    BY <2>2 DEF AsrFindsNothing
  <2>3. CASE AsrWakes
    BY <2>3 DEF AsrWakes
  <2>4. CASE AsrTakes
    <3>1. /\ buf' \in Frame \union {EndOfSpeech}
          /\ asr_audio_' \in Seq(Frame \union {EndOfSpeech})
      BY <2>4, PopProperties DEF AsrTakes
    <3> QED
      BY <2>4, <3>1 DEF AsrTakes
  <2>5. CASE AsrFeeds
    <3>1. buf \in Frame
      BY <2>5 DEF AsrFeeds
    <3>2. stream' \in Seq(Frame)
      <4>1. /\ <<>> \in Seq(Frame)
            /\ Append(stream, buf) \in Seq(Frame)
        BY <3>1, EmptySeq, AppendProperties
      <4>2. stream' \in {Append(stream, buf), stream, <<>>}
        BY <2>5 DEF AsrFeeds, Fed
      <4> QED
        BY <4>1, <4>2
    <3> QED
      BY <2>5, <3>2 DEF AsrFeeds
  <2>6. CASE AsrFlushes
    <3>1. \A text \in Recognised(stream) : text \in Seq(Frame)
      BY EmptySeq DEF Recognised
    <3>2. utterances' \in Seq(Seq(Frame))
      <4>1. PICK text \in Recognised(stream) :
              utterances' = IF text = <<>> THEN utterances ELSE Append(utterances, text)
        BY <2>6 DEF AsrFlushes
      <4>2. Append(utterances, text) \in Seq(Seq(Frame))
        BY <3>1, AppendProperties
      <4> QED
        BY <4>1, <4>2
    <3> QED
      BY <2>6, <3>2 DEF AsrFlushes, Flushed
  <2>7. CASE AsrThrows
    BY <2>7 DEF AsrThrows
  <2> QED
    BY <1>6, <2>1, <2>2, <2>3, <2>4, <2>5, <2>6, <2>7 DEF AsrLoop
<1>7. CASE ExitCommand
  BY <1>7 DEF ExitCommand
<1>8. CASE UNCHANGED vars
  BY <1>8 DEF vars
<1> QED
  BY <1>1, <1>2, <1>3, <1>4, <1>5, <1>6, <1>7, <1>8 DEF Next, Ended

\* The type invariant holds for every number of frames.
THEOREM TypeCorrect == Spec => []TypeOK
  BY TypeInit, TypeNext, PTL DEF Spec

-----------------------------------------------------------------------------
(* Speech is never left without an end *)

\* SpeechWillEnd alone is not inductive: arming the timer for frame 0 would
\* leave no wait behind.
SpeechEndInv ==
    /\ TypeOK
    /\ handle_pc = "arming" => heard # 0
    /\ SpeechWillEnd

\* No speech is open at the start.
LEMMA SpeechEndInit == Init => SpeechEndInv
  BY TypeInit DEF Init, SpeechEndInv, SpeechWillEnd, SpeechIsOpen, EmptyQueue

\* Every step that opens speech has a wait behind it, and only the mark ends one.
LEMMA SpeechEndNext == SpeechEndInv /\ [Next]_vars => SpeechEndInv'
<1> SUFFICES ASSUME SpeechEndInv, [Next]_vars PROVE SpeechEndInv'
  OBVIOUS
<1>0. TypeOK'
  BY TypeNext DEF SpeechEndInv
<1> USE MaxFramesAssumption DEF SpeechEndInv, SpeechWillEnd, EndOfSpeechIsComing
<1>1. CASE HandleVoicedFrame
  <2>1. heard' # 0 /\ handle_pc' = "arming"
    BY <1>1 DEF HandleVoicedFrame, TypeOK
  <2> QED
    BY <1>0, <2>1
<1>2. CASE ArmSilenceTimer
  BY <1>0, <1>2 DEF ArmSilenceTimer, Rearmed, LoopHead, SpeechIsOpen, None
<1>3. CASE HandleEnds
  BY <1>0, <1>3 DEF HandleEnds, SpeechIsOpen
<1>4. CASE SilenceExpires
  BY <1>0, <1>4 DEF SilenceExpires, SpeechIsOpen
<1>5. CASE SilenceHandler
  <2>1. asr_audio_' # <<>> /\ asr_audio_'[Len(asr_audio_')] = EndOfSpeech
    <3>1. asr_audio_ \in Seq(Frame \union {EndOfSpeech})
      BY DEF TypeOK
    <3>2. asr_audio_' = Push(asr_audio_, EndOfSpeech)
      BY <1>5 DEF SilenceHandler
    <3>3. EndOfSpeech \in Frame \union {EndOfSpeech}
      OBVIOUS
    <3> QED
      BY ONLY <3>1, <3>2, <3>3, PushProperties
  <2>2. ~SpeechIsOpen'
    BY <2>1 DEF SpeechIsOpen
  <2> QED
    BY <1>0, <1>5, <2>2 DEF SilenceHandler
<1>6. CASE AsrLoop
  <2> SUFFICES ASSUME asr_pc' # "dead", SpeechIsOpen' PROVE asr_pc # "dead" /\ SpeechIsOpen
    BY <1>0, <1>6 DEF AsrLoop, AsrOver, AsrFindsNothing, AsrWakes, AsrTakes,
                      AsrFeeds, AsrFlushes, AsrThrows
  <2>1. CASE AsrOver
    BY <2>1 DEF AsrOver, SpeechIsOpen
  <2>2. CASE AsrFindsNothing
    BY <2>2 DEF AsrFindsNothing, SpeechIsOpen
  <2>3. CASE AsrWakes
    BY <2>3 DEF AsrWakes, SpeechIsOpen
  <2>4. CASE AsrTakes
    <3>1. /\ asr_audio_ # <<>>
          /\ asr_audio_ \in Seq(Frame \union {EndOfSpeech})
      BY <2>4 DEF AsrTakes, IsEmpty, TypeOK
    <3>2. CASE asr_audio_' = <<>>
      <4>1. Len(asr_audio_') = Len(asr_audio_) - 1 /\ buf' = asr_audio_[1]
        BY <2>4, <3>1, PopProperties DEF AsrTakes
      <4>2. Len(asr_audio_) = 1
        BY <3>1, <3>2, <4>1, EmptySeq, LenProperties
      <4> QED
        BY <2>4, <3>1, <3>2, <4>1, <4>2 DEF AsrTakes, SpeechIsOpen
    <3>3. CASE asr_audio_' # <<>>
      <4>1. asr_audio_'[Len(asr_audio_')] = asr_audio_[Len(asr_audio_)]
        BY <2>4, <3>1, <3>3, PopProperties, EmptySeq, LenProperties DEF AsrTakes
      <4> QED
        BY <2>4, <3>1, <3>3, <4>1 DEF AsrTakes, SpeechIsOpen
    <3> QED
      BY <3>2, <3>3
  <2>5. CASE AsrFeeds
    BY <2>5 DEF AsrFeeds, SpeechIsOpen
  <2>6. CASE AsrFlushes
    BY <2>6 DEF AsrFlushes, SpeechIsOpen, Flushed
  <2>7. CASE AsrThrows
    BY <2>7 DEF AsrThrows
  <2> QED
    BY <1>6, <2>1, <2>2, <2>3, <2>4, <2>5, <2>6, <2>7 DEF AsrLoop
<1>7. CASE ExitCommand
  BY <1>0, <1>7 DEF ExitCommand, SpeechIsOpen
<1>8. CASE UNCHANGED vars
  BY <1>0, <1>8 DEF vars, SpeechIsOpen
<1> QED
  BY <1>1, <1>2, <1>3, <1>4, <1>5, <1>6, <1>7, <1>8 DEF Next, Ended

\* Whatever is on its way to the recogniser will be closed by an EndOfSpeech,
\* for every number of frames, every order of expiries and handlers, and every
\* recogniser fault.
THEOREM SpeechAlwaysEnds == Spec => []SpeechWillEnd
<1>1. SpeechEndInv => SpeechWillEnd
  BY DEF SpeechEndInv
<1> QED
  BY SpeechEndInit, SpeechEndNext, <1>1, PTL DEF Spec

-----------------------------------------------------------------------------
(* SpeechInput implements Transcript *)

LastSaid == Transcript!LastSaid

\* Frame f comes before all frames of q.
Before(f, q) == \A i \in 1..Len(q) : q[i] # EndOfSpeech => f < q[i]

\* The frames of q are in the order they were received.
Increasing(q) ==
    \A i, j \in 1..Len(q) :
        i < j /\ q[i] # EndOfSpeech /\ q[j] # EndOfSpeech => q[i] < q[j]

\* No frame of q is younger than the youngest one received.
Heard(q) == \A i \in 1..Len(q) : q[i] <= heard

\* What was delivered, what the recogniser holds, what asr_loop has in hand and
\* what is queued follow each other in the order of arrival.
OrderInv ==
    /\ TypeOK
    /\ \A k \in 1..Len(utterances) : utterances[k] # <<>>
    /\ LastSaid \in 0..heard
    /\ Heard(stream) /\ Increasing(stream) /\ Before(LastSaid, stream)
    /\ \A i \in 1..Len(stream) : i <= stream[i] /\ Before(stream[i], asr_audio_)
    /\ asr_pc = "detect" /\ buf # EndOfSpeech =>
          /\ LastSaid < buf /\ buf <= heard
          /\ \A i \in 1..Len(stream) : stream[i] < buf
          /\ Before(buf, asr_audio_)
    /\ Heard(asr_audio_) /\ Increasing(asr_audio_) /\ Before(LastSaid, asr_audio_)

\* Queueing an element that is a mark or younger than all that is queued, and
\* handing it to the recogniser, keeps a sequence in order.
LEMMA AppendInOrder ==
    ASSUME NEW q \in Seq(Nat), NEW e \in Nat, NEW r, r = Append(q, e),
           Increasing(q), e # EndOfSpeech => \A i \in 1..Len(q) : q[i] < e
    PROVE  /\ Increasing(r)
           /\ \A x : Before(x, q) /\ (e # EndOfSpeech => x < e) => Before(x, r)
           /\ Heard(q) /\ e <= heard => Heard(r)
<1>1. /\ Len(r) = Len(q) + 1
      /\ Len(q) \in Nat
      /\ r[Len(q) + 1] = e
  BY AppendProperties, LenProperties
<1>2. \A i \in 1..Len(q) : r[i] = q[i] /\ q[i] \in Nat
  BY AppendProperties, ElementOfSeq
<1> QED
  BY <1>1, <1>2 DEF Increasing, Before, Heard, EndOfSpeech

\* Taking the first element off a queue in order leaves it in order, and all
\* that is left comes after the element taken.
LEMMA PopInOrder ==
    ASSUME NEW q \in Seq(Nat), q # <<>>, NEW r, r = Tail(q), Increasing(q)
    PROVE  /\ Increasing(r)
           /\ \A x : Before(x, q) =>
                 Before(x, r) /\ (Head(q) # EndOfSpeech => x < Head(q))
           /\ Head(q) # EndOfSpeech => Before(Head(q), r)
           /\ Heard(q) => Heard(r) /\ Head(q) <= heard
<1>1. /\ Len(q) \in Nat \ {0}
      /\ Len(r) = Len(q) - 1
      /\ Head(q) = q[1]
  BY HeadTailProperties, EmptySeq
<1>2. \A i \in 1..Len(r) : r[i] = q[i + 1] /\ q[i + 1] \in Nat
  BY <1>1, HeadTailProperties, ElementOfSeq
<1>3. Increasing(r)
  BY <1>1, <1>2 DEF Increasing
<1>4. ASSUME NEW x, Before(x, q)
      PROVE  Before(x, r) /\ (Head(q) # EndOfSpeech => x < Head(q))
  BY <1>1, <1>2, <1>4 DEF Before
<1>5. ASSUME Head(q) # EndOfSpeech PROVE Before(Head(q), r)
  BY <1>1, <1>2, <1>5 DEF Before, Increasing
<1>6. Heard(q) => Heard(r) /\ Head(q) <= heard
  BY <1>1, <1>2 DEF Heard
<1> QED
  BY <1>3, <1>4, <1>5, <1>6

\* Nothing is heard at the start.
LEMMA OrderInit == Init => OrderInv
<1> SUFFICES ASSUME Init PROVE OrderInv
  OBVIOUS
<1>1. Len(stream) = 0 /\ Len(asr_audio_) = 0 /\ Len(utterances) = 0
  BY DEF Init, EmptyQueue
<1>2. LastSaid = 0 /\ heard = 0 /\ asr_pc # "detect"
  BY DEF Init, LastSaid, Transcript!LastSaid
<1> QED
  BY TypeInit, <1>1, <1>2 DEF OrderInv, Heard, Increasing, Before

\* Every step keeps the frames in the order of arrival.
LEMMA OrderNext == OrderInv /\ [Next]_vars => OrderInv'
<1> SUFFICES ASSUME OrderInv, [Next]_vars PROVE OrderInv'
  OBVIOUS
<1>0. TypeOK /\ TypeOK'
  BY TypeNext DEF OrderInv
<1>1. /\ asr_audio_ \in Seq(Nat) /\ stream \in Seq(Nat)
      /\ heard \in Nat /\ buf \in Nat /\ LastSaid \in Nat
  BY <1>0, MaxFramesAssumption DEF OrderInv, TypeOK, Frame, EndOfSpeech, None
<1>2. ASSUME utterances' = utterances PROVE LastSaid' = LastSaid
  BY <1>2 DEF LastSaid, Transcript!LastSaid
<1>3. ASSUME utterances' = utterances, stream' = stream, asr_audio_' = asr_audio_,
             heard' = heard, asr_pc' = "detect" => asr_pc = "detect" /\ buf' = buf
      PROVE  OrderInv'
  BY <1>0, <1>2, <1>3 DEF OrderInv, Heard, Increasing, Before
<1>4. CASE HandleVoicedFrame
  <2> DEFINE f == heard + 1
  <2>1. /\ asr_audio_' = Append(asr_audio_, f) /\ heard' = f
        /\ utterances' = utterances /\ stream' = stream
        /\ buf' = buf /\ asr_pc' = asr_pc
    BY <1>4 DEF HandleVoicedFrame, Push
  <2>2. LastSaid' = LastSaid
    BY <1>2, <2>1
  <2>3. f \in Nat /\ LastSaid < f /\ (asr_pc = "detect" /\ buf # EndOfSpeech => buf < f)
    BY <1>1 DEF OrderInv
  <2>4. /\ \A i \in 1..Len(asr_audio_) : asr_audio_[i] < f
        /\ \A i \in 1..Len(stream) : stream[i] < f
    <3>1. /\ \A i \in 1..Len(asr_audio_) : asr_audio_[i] \in Nat
          /\ \A i \in 1..Len(stream) : stream[i] \in Nat
      BY <1>1, ElementOfSeq
    <3>2. Heard(asr_audio_) /\ Heard(stream)
      BY DEF OrderInv
    <3> QED
      BY <1>1, <3>1, <3>2 DEF Heard
  <2>5. /\ Increasing(asr_audio_)'
        /\ \A x : Before(x, asr_audio_) /\ x < f => Before(x, asr_audio_')
    <3>1. Increasing(asr_audio_)
      BY DEF OrderInv
    <3> HIDE DEF f
    <3>2. /\ Increasing(asr_audio_')
          /\ \A x : Before(x, asr_audio_) /\ (f # EndOfSpeech => x < f)
                     => Before(x, asr_audio_')
      BY <1>1, <2>1, <2>3, <2>4, <3>1, AppendInOrder
    <3> QED
      BY <3>2
  <2>6. Heard(asr_audio_)' /\ Heard(stream)'
    <3>1. /\ Len(asr_audio_') = Len(asr_audio_) + 1
          /\ asr_audio_'[Len(asr_audio_) + 1] = f
          /\ \A i \in 1..Len(asr_audio_) : asr_audio_'[i] = asr_audio_[i]
      BY <1>1, <2>1, <2>3, AppendProperties
    <3>2. Len(asr_audio_) \in Nat /\ \A i \in 1..Len(asr_audio_) : asr_audio_[i] \in Nat
      BY <1>1, LenProperties, ElementOfSeq
    <3>3. \A i \in 1..Len(stream) : stream[i] \in Nat
      BY <1>1, ElementOfSeq
    <3> QED
      BY <1>1, <2>1, <2>4, <3>1, <3>2, <3>3 DEF Heard
  <2> HIDE DEF f
  <2>7. LastSaid' \in 0..heard'
    BY <1>1, <2>1, <2>2, <2>3
  <2>8. asr_pc' = "detect" /\ buf' # EndOfSpeech => buf' <= heard'
    BY <1>1, <2>1, <2>3
  <2> QED
    BY <1>0, <2>1, <2>2, <2>3, <2>4, <2>5, <2>6, <2>7, <2>8 DEF OrderInv, Increasing, Before
<1>5. CASE ArmSilenceTimer
  BY <1>3, <1>5 DEF ArmSilenceTimer
<1>6. CASE HandleEnds
  BY <1>3, <1>6 DEF HandleEnds
<1>7. CASE SilenceExpires
  BY <1>3, <1>7 DEF SilenceExpires
<1>8. CASE SilenceHandler
  <2>1. /\ asr_audio_' = Append(asr_audio_, EndOfSpeech)
        /\ utterances' = utterances /\ stream' = stream /\ heard' = heard
        /\ buf' = buf /\ asr_pc' = asr_pc
    BY <1>8 DEF SilenceHandler, Push
  <2>2. LastSaid' = LastSaid
    BY <1>2, <2>1
  <2>3. EndOfSpeech \in Nat /\ EndOfSpeech <= heard
    BY <1>1 DEF EndOfSpeech
  <2>4. /\ Increasing(asr_audio_')
        /\ \A x : Before(x, asr_audio_) => Before(x, asr_audio_')
        /\ Heard(asr_audio_')
    <3>1. Increasing(asr_audio_) /\ Heard(asr_audio_)
      BY DEF OrderInv
    <3> QED
      BY <1>1, <2>1, <2>3, <3>1, AppendInOrder
  <2> QED
    BY <1>0, <2>1, <2>2, <2>4 DEF OrderInv, Heard, Increasing, Before
<1>9. CASE AsrLoop
  <2>1. CASE AsrOver
    BY <1>3, <2>1 DEF AsrOver
  <2>2. CASE AsrFindsNothing
    BY <1>3, <2>2 DEF AsrFindsNothing
  <2>3. CASE AsrWakes
    BY <1>3, <2>3 DEF AsrWakes
  <2>4. CASE AsrTakes
    <3>1. /\ asr_audio_ # <<>>
          /\ asr_audio_' = Tail(asr_audio_) /\ buf' = Head(asr_audio_)
          /\ utterances' = utterances /\ stream' = stream /\ heard' = heard
      BY <2>4 DEF AsrTakes, IsEmpty, Front, Rest
    <3>2. LastSaid' = LastSaid
      BY <1>2, <3>1
    <3>3. /\ Increasing(asr_audio_')
          /\ \A x : Before(x, asr_audio_) =>
                Before(x, asr_audio_') /\ (buf' # EndOfSpeech => x < buf')
          /\ buf' # EndOfSpeech => Before(buf', asr_audio_')
          /\ Heard(asr_audio_') /\ buf' <= heard
      <4>1. Increasing(asr_audio_) /\ Heard(asr_audio_)
        BY DEF OrderInv
      <4> QED
        BY <1>1, <3>1, <4>1, PopInOrder
    <3> QED
      BY <1>0, <3>1, <3>2, <3>3 DEF OrderInv, Heard, Increasing, Before
  <2>5. CASE AsrFeeds
    <3>1. /\ asr_audio_' = asr_audio_ /\ utterances' = utterances /\ heard' = heard
          /\ asr_pc' # "detect" /\ asr_pc = "detect" /\ buf # EndOfSpeech
          /\ stream' \in {Append(stream, buf), stream, <<>>}
      BY <2>5 DEF AsrFeeds, Fed
    <3>2. LastSaid' = LastSaid
      BY <1>2, <3>1
    <3>3. CASE stream' = Append(stream, buf)
      <4>1. /\ Increasing(stream')
            /\ Before(LastSaid, stream')
            /\ Heard(stream')
        <5>1. /\ Increasing(stream) /\ Heard(stream) /\ Before(LastSaid, stream)
              /\ \A i \in 1..Len(stream) : stream[i] < buf
              /\ buf <= heard /\ LastSaid < buf
          BY <3>1 DEF OrderInv
        <5> QED
          BY <1>1, <3>3, <5>1, AppendInOrder
      <4>2. /\ Len(stream') = Len(stream) + 1 /\ Len(stream) \in Nat
            /\ stream'[Len(stream) + 1] = buf
            /\ \A i \in 1..Len(stream) : stream'[i] = stream[i] /\ stream[i] \in Nat
        BY <1>1, <3>3, AppendProperties, LenProperties, ElementOfSeq
      <4>3. Len(stream') <= buf
        <5>1. CASE Len(stream) = 0
          BY <1>1, <3>1, <4>2, <5>1 DEF EndOfSpeech
        <5>2. CASE Len(stream) # 0
          <6>1. Len(stream) \in 1..Len(stream)
            BY <4>2, <5>2
          <6>2. Len(stream) <= stream[Len(stream)] /\ stream[Len(stream)] < buf
            BY <3>1, <6>1 DEF OrderInv
          <6> QED
            BY <1>1, <4>2, <6>1, <6>2
        <5> QED
          BY <5>1, <5>2
      <4>4. \A i \in 1..Len(stream') : i <= stream'[i] /\ Before(stream'[i], asr_audio_')
        <5>1. Before(buf, asr_audio_)
          BY <3>1 DEF OrderInv
        <5>2. \A i \in 1..Len(stream) : i <= stream[i] /\ Before(stream[i], asr_audio_)
          BY DEF OrderInv
        <5> SUFFICES ASSUME NEW i \in 1..Len(stream')
                     PROVE  i <= stream'[i] /\ Before(stream'[i], asr_audio_)
          BY <3>1
        <5>3. CASE i = Len(stream')
          BY <4>2, <4>3, <5>1, <5>3
        <5>4. CASE i # Len(stream')
          <6>1. i \in 1..Len(stream)
            BY <4>2, <5>4
          <6> QED
            BY <4>2, <5>2, <6>1
        <5> QED
          BY <5>3, <5>4
      <4> QED
        BY <1>0, <3>1, <3>2, <4>1, <4>4 DEF OrderInv, Heard, Increasing, Before
    <3>4. CASE stream' = stream
      BY <1>0, <3>1, <3>2, <3>4 DEF OrderInv, Heard, Increasing, Before
    <3>5. CASE stream' = <<>>
      <4>1. Len(stream') = 0
        BY <3>5
      <4> QED
        BY <1>0, <3>1, <3>2, <4>1 DEF OrderInv, Heard, Increasing, Before
    <3> QED
      BY <3>1, <3>3, <3>4, <3>5
  <2>6. CASE AsrFlushes
    <3>1. /\ asr_audio_' = asr_audio_ /\ heard' = heard /\ asr_pc' # "detect"
          /\ Len(stream') = 0
      BY <2>6 DEF AsrFlushes, Flushed
    <3>2. CASE utterances' = utterances
      BY <1>0, <1>2, <3>1, <3>2 DEF OrderInv, Heard, Increasing, Before
    <3>3. CASE stream # <<>> /\ utterances' = Append(utterances, stream)
      <4>1. utterances \in Seq(Seq(Frame)) /\ stream \in Seq(Frame)
        BY <1>0 DEF TypeOK
      <4>2. /\ utterances' # <<>>
            /\ Len(utterances') = Len(utterances) + 1
            /\ \A k \in 1..Len(utterances) : utterances'[k] = utterances[k]
            /\ utterances'[Len(utterances) + 1] = stream
            /\ Len(utterances) \in Nat
        BY <3>3, <4>1, AppendProperties, LenProperties
      <4>3. Len(stream) \in 1..Len(stream) /\ stream[Len(stream)] \in Nat
        BY <1>1, <3>3, EmptySeq, LenProperties, ElementOfSeq
      <4>4. LastSaid' = stream[Len(stream)]
        BY <4>2 DEF LastSaid, Transcript!LastSaid, Transcript!Last
      <4>5. LastSaid' \in 0..heard' /\ Before(LastSaid, asr_audio_)'
        BY <1>1, <3>1, <4>3, <4>4 DEF OrderInv, Heard, Before
      <4>6. \A k \in 1..Len(utterances') : utterances'[k] # <<>>
        BY <3>3, <4>2 DEF OrderInv
      <4> QED
        BY <1>0, <3>1, <4>5, <4>6 DEF OrderInv, Heard, Increasing, Before
    <3> QED
      BY <2>6, <3>2, <3>3 DEF AsrFlushes, Recognised
  <2>7. CASE AsrThrows
    BY <1>3, <2>7 DEF AsrThrows
  <2> QED
    BY <1>9, <2>1, <2>2, <2>3, <2>4, <2>5, <2>6, <2>7 DEF AsrLoop
<1>10. CASE ExitCommand
  BY <1>3, <1>10 DEF ExitCommand
<1>11. CASE UNCHANGED vars
  BY <1>3, <1>11 DEF vars
<1> QED
  BY <1>4, <1>5, <1>6, <1>7, <1>8, <1>9, <1>10, <1>11 DEF Next, Ended

\* Every flush that yields a text delivers an utterance that Transcript allows.
LEMMA FlushDelivers ==
    ASSUME OrderInv, AsrFlushes, utterances' # utterances
    PROVE  Transcript!Deliver
<1>1. /\ utterances' = Append(utterances, stream) /\ stream # <<>>
      /\ heard' = heard
  BY DEF AsrFlushes, Recognised
<1>2. stream \in Seq(Nat) /\ LastSaid \in Nat /\ heard \in Nat
  BY MaxFramesAssumption DEF OrderInv, TypeOK, Frame
<1>3. Len(stream) \in 1..heard
  <2>1. Len(stream) \in 1..Len(stream)
    BY <1>1, <1>2, EmptySeq, LenProperties
  <2>2. Len(stream) <= stream[Len(stream)] /\ stream[Len(stream)] <= heard
    BY <2>1 DEF OrderInv, Heard
  <2>3. stream[Len(stream)] \in Nat
    BY <1>2, <2>1, ElementOfSeq
  <2> QED
    BY <1>2, <2>1, <2>2, <2>3
<1>4. \A i \in 1..Len(stream) : stream[i] \in LastSaid + 1..heard
  <2>1. \A i \in 1..Len(stream) : stream[i] \in Nat /\ stream[i] # EndOfSpeech
    <3>1. stream \in Seq(Frame)
      BY DEF OrderInv, TypeOK
    <3> QED
      BY <3>1, ElementOfSeq, MaxFramesAssumption DEF Frame, EndOfSpeech
  <2> QED
    BY <1>2, <2>1 DEF OrderInv, Heard, Before
<1>5. stream \in [1..Len(stream) -> LastSaid + 1..heard]
  BY <1>2, <1>4, LenProperties
<1>6. \A i, j \in DOMAIN stream : i < j => stream[i] < stream[j]
  <2>1. \A i \in 1..Len(stream) : stream[i] # EndOfSpeech
    BY <1>2, <1>4 DEF EndOfSpeech
  <2> QED
    BY <1>2, <2>1, LenProperties DEF OrderInv, Increasing
<1>7. stream \in Transcript!Utterances(LastSaid + 1, heard)
  BY <1>3, <1>5, <1>6 DEF Transcript!Utterances
<1> QED
  BY <1>1, <1>7 DEF Transcript!Deliver, LastSaid

\* Every step of SpeechInput is a step of Transcript, or leaves it alone.
LEMMA TranscriptStep ==
    OrderInv /\ [Next]_vars => [Transcript!Next]_<<heard, utterances>>
<1> SUFFICES ASSUME OrderInv, [Next]_vars
             PROVE  \/ Transcript!Speak \/ Transcript!Deliver
                    \/ UNCHANGED <<heard, utterances>>
  BY DEF Transcript!Next
<1>1. CASE HandleVoicedFrame
  BY <1>1 DEF HandleVoicedFrame, Transcript!Speak
<1>2. CASE AsrFlushes
  BY <1>2, FlushDelivers DEF AsrFlushes
<1>3. CASE ArmSilenceTimer \/ HandleEnds \/ SilenceExpires \/ SilenceHandler \/ ExitCommand
  BY <1>3 DEF ArmSilenceTimer, HandleEnds, SilenceExpires, SilenceHandler, ExitCommand
<1>4. CASE AsrOver \/ AsrFindsNothing \/ AsrWakes \/ AsrTakes \/ AsrFeeds \/ AsrThrows
  BY <1>4 DEF AsrOver, AsrFindsNothing, AsrWakes, AsrTakes, AsrFeeds, AsrThrows
<1>5. CASE UNCHANGED vars
  BY <1>5 DEF vars
<1> QED
  BY <1>1, <1>2, <1>3, <1>4, <1>5 DEF Next, AsrLoop, Ended

\* handle_binary, the silence timer and asr_loop implement Transcript: the texts
\* handed to the dialogue hold the speaker's frames in order, none twice and
\* none out of its utterance, for every interleaving and every recogniser fault.
THEOREM Implementation == Spec => ImplementsTranscript
<1>1. Init => Transcript!Init
  BY DEF Init, Transcript!Init
<1> QED
  BY OrderInit, OrderNext, TranscriptStep, <1>1, PTL
     DEF Spec, ImplementsTranscript, Transcript!Spec

-----------------------------------------------------------------------------
(* How many texts there can be *)

\* Each text has a frame of its own.
TextsInv ==
    /\ OrderInv
    /\ Len(utterances) <= LastSaid

\* As many handlers as there are frames are enough for all texts.
FewTexts ==
    /\ utterances \in Seq(Seq(Frame))
    /\ Len(utterances) <= MaxFrames

\* There is no text yet.
LEMMA TextsInit == Init => TextsInv
<1> SUFFICES ASSUME Init PROVE TextsInv
  OBVIOUS
<1>1. OrderInv /\ utterances = <<>> /\ Len(<<>>) = 0
  BY OrderInit DEF Init
<1> QED
  BY <1>1 DEF TextsInv, LastSaid, Transcript!LastSaid

\* A new text ends in a frame younger than that of every other.
LEMMA TextsNext == TextsInv /\ [Next]_vars => TextsInv'
<1> SUFFICES ASSUME TextsInv, [Next]_vars PROVE TextsInv'
  OBVIOUS
<1>1. OrderInv /\ OrderInv'
  BY OrderNext DEF TextsInv
<1>2. CASE utterances' = utterances
  BY <1>1, <1>2 DEF TextsInv, LastSaid, Transcript!LastSaid
<1>3. CASE AsrFlushes /\ utterances' # utterances
  <2>1. PICK u \in Transcript!Utterances(LastSaid + 1, heard) :
               utterances' = Append(utterances, u)
    BY <1>1, <1>3, FlushDelivers DEF Transcript!Deliver, LastSaid
  <2>2. PICK n \in 1..heard : u \in [1..n -> LastSaid + 1..heard]
    BY <2>1 DEF Transcript!Utterances
  <2>3. heard \in Nat /\ LastSaid \in Nat /\ utterances \in Seq(Seq(Frame))
    BY <1>1, MaxFramesAssumption DEF OrderInv, TypeOK, Frame
  <2>4. u \in Seq(LastSaid + 1..heard) /\ Len(u) = n /\ u[n] \in LastSaid + 1..heard
    BY <2>2, <2>3, LenProperties
  <2>5. /\ Len(utterances') = Len(utterances) + 1 /\ Len(utterances) \in Nat
        /\ utterances'[Len(utterances) + 1] = u
    BY <2>1, <2>3, LenProperties
  <2>6. LastSaid' = u[n]
    <3>1. utterances' # <<>>
      BY <2>5
    <3> QED
      BY <2>4, <2>5, <3>1 DEF LastSaid, Transcript!LastSaid, Transcript!Last
  <2> QED
    BY <1>1, <2>3, <2>4, <2>5, <2>6 DEF TextsInv
<1> QED
  BY <1>2, <1>3 DEF Next, vars, HandleVoicedFrame, ArmSilenceTimer, HandleEnds,
     SilenceExpires, SilenceHandler, AsrLoop, AsrOver, AsrFindsNothing, AsrWakes, AsrTakes,
     AsrFeeds, AsrThrows, ExitCommand, Ended

\* However an utterance is cut up by silence, there are no more texts than frames.
THEOREM TextsAreFew == Spec => []FewTexts
<1>1. TextsInv => FewTexts
  <2> SUFFICES ASSUME TextsInv PROVE FewTexts
    OBVIOUS
  <2>1. /\ utterances \in Seq(Seq(Frame)) /\ Len(utterances) <= LastSaid
        /\ LastSaid \in 0..heard /\ heard \in 0..MaxFrames
    BY DEF TextsInv, OrderInv, TypeOK
  <2> QED
    BY <2>1, MaxFramesAssumption, LenProperties DEF FewTexts
<1> QED
  BY TextsInit, TextsNext, <1>1, PTL DEF Spec
=============================================================================
