------------------------- MODULE RecognisersProofs -------------------------
(***************************************************************************)
(* Theorems about both recognisers: BytedanceV2, for any number of frames and     *)
(* end marks and whatever libogg puts on a page, and Paraformer, for packets of   *)
(* any lengths, any weights of the encoder, those of rows of zeros included, and   *)
(* exceptions and crashes of the decoder wherever they strike.                   *)
(*                                                                         *)
(* The invariant of BytedanceV2 says what the stream to the service is at each    *)
(* co_await: empty while a connection is made, growing frame by frame while it   *)
(* is fed, ended once the end mark was handed over.  That of Paraformer is Stays:  *)
(* between two calls the model either is new or has audio for the next row, all   *)
(* rows that it has looked ahead at are wide, and its text and the rest of the    *)
(* integral are together what the rows weigh.  Places adds what these are: with     *)
(* packets that fill calls of 600 ms, each cache holds its stretch of the audio,   *)
(* and the rows that were weighed are five of zeros, those that stand in the       *)
(* middle of the first chunk, and then those of the utterance.                    *)
(***************************************************************************)
EXTENDS Recognisers, SequenceTheorems, FiniteSetTheorems, WellFoundedInduction, TLAPS

Packet == -2..MaxFrames

NothingSent == service = <<>> /\ data = <<>> /\ unpaged = <<>>

\* The two headers and the frames from s[3] on, the last being k.
GrownTo(s, k) ==
    /\ Len(s) >= 3 /\ s[1] = OpusHead /\ s[2] = OpusTags /\ s[Len(s)] = k
    /\ \A i \in 3..Len(s) : s[i] \in Frame /\ (i > 3 => s[i] = s[i - 1] + 1)

\* The same with an end behind it.
EndedStream(s) ==
    /\ Len(s) >= 3 /\ s[1] = OpusHead /\ s[2] = OpusTags /\ s[Len(s)] = EndOfSpeech
    /\ \A i \in 3..Len(s) - 1 : s[i] \in Frame /\ (i > 3 => s[i] = s[i - 1] + 1)

SequencesInv ==
    /\ service \in Seq(Packet) /\ data \in Seq(Packet) /\ unpaged \in Seq(Packet)
    /\ heard \in 0..MaxFrames
    /\ pc \in {"ready", "resolve", "connect", "tls", "handshake", "greet", "greeting",
               "header", "sending", "ending", "result", "closing", "crashed", "dead"}

Feeding == ws_state_ = "Connected" /\ ogg_streamer_ /\ GrownTo(Stream, heard)

StreamInv ==
    /\ pc = "ready" => \/ ws_state_ = "Idle" /\ NothingSent
                       \/ Feeding /\ data = <<>>
    /\ pc \in {"resolve", "connect", "tls", "handshake", "greet", "greeting"} =>
         NothingSent /\ opened /\ buf \in {heard, EndOfSpeech}
    /\ pc = "header" =>
         /\ ws_state_ = "Connected" /\ ogg_streamer_ /\ opened
         /\ buf \in {heard, EndOfSpeech}
         /\ service = <<>> /\ data = <<OpusHead>> /\ unpaged = <<>>
    /\ pc = "sending" => Feeding /\ buf # EndOfSpeech
    /\ pc \in {"ending", "result", "closing"} => EndedStream(Stream) /\ buf = EndOfSpeech
    /\ pc = "crashed" => NothingSent /\ (opened \/ buf = EndOfSpeech)
    /\ pc = "dead" => NothingSent \/ EndedStream(Stream)

Inv == SequencesInv /\ StreamInv

-----------------------------------------------------------------------------
(* Streams *)

LEMMA Packets ==
    /\ EndOfSpeech \in Packet /\ OpusHead \in Packet /\ OpusTags \in Packet
    /\ \A f \in 0..MaxFrames : f \in Packet
    /\ \A f \in Packet : f \in Int
  BY BytedanceAssumption DEF Packet, EndOfSpeech, OpusHead, OpusTags

\* A sequence cut in two.
LEMMA Cut ==
    ASSUME NEW q \in Seq(Packet), NEW n \in 0..Len(q)
    PROVE  /\ SubSeq(q, 1, n) \in Seq(Packet)
           /\ SubSeq(q, n + 1, Len(q)) \in Seq(Packet)
           /\ SubSeq(q, 1, n) \o SubSeq(q, n + 1, Len(q)) = q
  <1>1. Len(q) \in Nat /\ n \in Int
    BY LenProperties
  <1>2. \A i \in 1..Len(q) : q[i] \in Packet
    BY ElementOfSeq
  <1>3. SubSeq(q, 1, n) \in Seq(Packet)
    <2>1. \A i \in 1..n : q[i] \in Packet
      BY <1>1, <1>2
    <2> QED
      BY <1>1, <2>1, SubSeqProperties
  <1>4. SubSeq(q, n + 1, Len(q)) \in Seq(Packet)
    <2>1. \A i \in n + 1..Len(q) : q[i] \in Packet
      BY <1>1, <1>2
    <2>2. n + 1 \in Int /\ Len(q) \in Int
      BY <1>1
    <2> QED
      BY <2>1, <2>2, SubSeqProperties
  <1>5. SubSeq(q, 1, n) \o SubSeq(q, n + 1, Len(q)) = SubSeq(q, 1, Len(q))
    <2>1. 1 \in 1..Len(q) + 1 /\ n \in 1 - 1..Len(q) /\ Len(q) \in n..Len(q)
      BY <1>1
    <2> QED
      BY <2>1, ConcatAdjacentSubSeq
  <1>6. SubSeq(q, 1, Len(q)) = q
    BY SubSeqFull
  <1> QED
    BY <1>3, <1>4, <1>5, <1>6

\* What has been sent, is being written and is on no page yet may be grouped.
LEMMA Regroup ==
    \A s, t, u \in Seq(Packet) : (s \o t) \o u = s \o (t \o u)
  BY ConcatAssociative

\* process_buffer and what send() makes of its pages.
LEMMA Processing ==
    ASSUME NEW ps \in Seq(Packet), NEW b \in 0..MaxFrames, Processes(ps, b)
    PROVE  /\ data' \in Seq(Packet) /\ unpaged' \in Seq(Packet)
           /\ data' \o unpaged' = Append(ps, b)
           /\ IF b = EndOfSpeech THEN pc' = "ending"
              ELSE pc' = "sending" \/ (pc' = "ready" /\ data' = <<>>)
           /\ b = EndOfSpeech => unpaged' = <<>>
           /\ IF pc' = "ready" THEN Returns(b, <<>>) ELSE UNCHANGED <<sentence, said>>
  <1> DEFINE q == Append(ps, b)
  <1>1. PICK n \in PagesOut(q) :
          /\ data' = SubSeq(q, 1, n)
          /\ unpaged' = SubSeq(q, n + 1, Len(ps) + 1)
          /\ IF n = 0 THEN Returns(b, <<>>)
             ELSE /\ pc' = (IF b = EndOfSpeech THEN "ending" ELSE "sending")
                  /\ UNCHANGED <<sentence, said>>
    BY DEF Processes
  <1>2. /\ q \in Seq(Packet) /\ Len(q) = Len(ps) + 1 /\ q[Len(ps) + 1] = b
        /\ Len(ps) \in Nat
    BY Packets, AppendProperties, LenProperties
  <1>3. n \in 0..Len(q) /\ (b = EndOfSpeech => n # 0 /\ n = Len(q))
    BY <1>2, BytedanceAssumption DEF PagesOut, Last
  <1>4. /\ data' \in Seq(Packet) /\ unpaged' \in Seq(Packet)
        /\ data' \o unpaged' = q
    <2> HIDE DEF q
    <2> QED
      BY <1>1, <1>2, <1>3, Cut
  <1>5. n = 0 => data' = <<>>
    BY <1>1, SubSeqEmpty
  <1>6. b = EndOfSpeech => unpaged' = <<>>
    BY <1>1, <1>2, <1>3, SubSeqEmpty
  <1> QED
    BY <1>1, <1>3, <1>4, <1>5, <1>6 DEF Returns

\* One more packet on a stream that is fed.
LEMMA Fed ==
    ASSUME NEW s \in Seq(Packet), NEW k \in 0..MaxFrames, GrownTo(s, k)
    PROVE  /\ k + 1 \in 0..MaxFrames => GrownTo(Append(s, k + 1), k + 1)
           /\ EndedStream(Append(s, EndOfSpeech))
  <1>1. Len(s) \in Nat /\ Len(s) >= 3
    BY LenProperties DEF GrownTo
  <1>2. ASSUME k + 1 \in 0..MaxFrames PROVE GrownTo(Append(s, k + 1), k + 1)
    <2> DEFINE t == Append(s, k + 1)
    <2>1. /\ Len(t) = Len(s) + 1 /\ \A i \in 1..Len(s) : t[i] = s[i]
          /\ t[Len(s) + 1] = k + 1
      BY <1>2, Packets, AppendProperties
    <2> HIDE DEF t
    <2>2. ASSUME NEW i \in 3..Len(t) PROVE t[i] \in Frame /\ (i > 3 => t[i] = t[i - 1] + 1)
      <3>1. CASE i <= Len(s)
        BY <1>1, <2>1, <3>1 DEF GrownTo
      <3>2. CASE i = Len(s) + 1
        BY <1>1, <1>2, <2>1, <3>2 DEF GrownTo, Frame
      <3> QED
        BY <1>1, <2>1, <3>1, <3>2
    <2>3. GrownTo(t, k + 1)
      BY <1>1, <2>1, <2>2 DEF GrownTo
    <2> QED
      BY <2>3 DEF t
  <1>3. EndedStream(Append(s, EndOfSpeech))
    <2> DEFINE t == Append(s, EndOfSpeech)
    <2>1. /\ Len(t) = Len(s) + 1 /\ \A i \in 1..Len(s) : t[i] = s[i]
          /\ t[Len(s) + 1] = EndOfSpeech
      BY Packets, AppendProperties
    <2> HIDE DEF t
    <2>2. EndedStream(t)
      BY <1>1, <2>1 DEF GrownTo, EndedStream
    <2> QED
      BY <2>2 DEF t
  <1> QED
    BY <1>2, <1>3

\* The headers and a first packet.
LEMMA Begun ==
    ASSUME NEW b \in 0..MaxFrames
    PROVE  /\ b # EndOfSpeech => GrownTo(<<OpusHead>> \o Append(<<OpusTags>>, b), b)
           /\ b = EndOfSpeech => EndedStream(<<OpusHead>> \o Append(<<OpusTags>>, b))
  <1> DEFINE h == <<OpusHead>>
             t == Append(<<OpusTags>>, b)
             s == h \o t
  <1>1. /\ h \in Seq(Packet) /\ Len(h) = 1 /\ h[1] = OpusHead
        /\ <<OpusTags>> \in Seq(Packet) /\ Len(<<OpusTags>>) = 1
    BY Packets
  <1>2. t \in Seq(Packet) /\ Len(t) = 2 /\ t[1] = OpusTags /\ t[2] = b
    BY <1>1, Packets, AppendProperties
  <1>3. /\ Len(s) = 3 /\ s[1] = OpusHead /\ s[2] = OpusTags /\ s[3] = b
    <2> HIDE DEF h, t
    <2>1. h \in Seq(Packet) /\ t \in Seq(Packet)
      BY <1>1, <1>2
    <2>2. /\ Len(h \o t) = Len(h) + Len(t)
          /\ \A i \in 1..Len(h) + Len(t) :
               (h \o t)[i] = IF i <= Len(h) THEN h[i] ELSE t[i - Len(h)]
      BY <2>1, ConcatProperties, Zenon
    <2>3. Len(h) = 1 /\ Len(t) = 2
      BY <1>1, <1>2
    <2>4. /\ Len(h \o t) = 3
          /\ \A i \in 1..3 : (h \o t)[i] = IF i <= 1 THEN h[i] ELSE t[i - 1]
      BY <2>2, <2>3
    <2> QED
      BY <1>1, <1>2, <2>4
  <1> HIDE DEF s
  <1>4. b # EndOfSpeech => GrownTo(s, b)
    BY <1>3 DEF GrownTo, Frame, EndOfSpeech
  <1>5. b = EndOfSpeech => EndedStream(s)
    BY <1>3 DEF EndedStream
  <1> QED
    BY <1>4, <1>5 DEF s

\* Nothing of the stream changes when pages are written.
LEMMA Writing ==
    ASSUME NEW s \in Seq(Packet), NEW d \in Seq(Packet), NEW u \in Seq(Packet)
    PROVE  (s \o d) \o <<>> \o u = s \o d \o u
  <1>1. s \o d \in Seq(Packet)
    BY ConcatProperties
  <1> QED
    BY <1>1, ConcatEmptySeq

-----------------------------------------------------------------------------
(* The invariant *)

LEMMA InvInit == Init => Inv
  <1> SUFFICES ASSUME Init PROVE Inv
    OBVIOUS
  <1>1. SequencesInv
    BY EmptySeq, BytedanceAssumption DEF Init, SequencesInv
  <1>2. StreamInv
    BY DEF Init, StreamInv, NothingSent
  <1> QED
    BY <1>1, <1>2 DEF Inv

LEMMA Cleared ==
    ASSUME SequencesInv, Clear, heard' = heard,
           \/ pc' = "ready"
           \/ pc' = "crashed" /\ (opened' \/ buf' = EndOfSpeech)
    PROVE  Inv'
  <1>1. <<>> \in Seq(Packet)
    BY EmptySeq
  <1>2. SequencesInv'
    BY <1>1 DEF Clear, SequencesInv
  <1>3. StreamInv'
    BY DEF Clear, StreamInv, NothingSent
  <1> QED
    BY <1>2, <1>3 DEF Inv

\* A packet that process_buffer takes is the last of the stream.
LEMMA StreamGrows ==
    ASSUME service \in Seq(Packet), unpaged \in Seq(Packet), data = <<>>, service' = service,
           data' \in Seq(Packet), unpaged' \in Seq(Packet), NEW b \in 0..MaxFrames,
           data' \o unpaged' = Append(unpaged, b)
    PROVE  Stream \in Seq(Packet) /\ Stream' = Append(Stream, b)
  <1>1. Stream = service \o unpaged
    BY ConcatEmptySeq DEF Stream
  <1>2. Stream' = service \o (data' \o unpaged')
    <2>1. Stream' = (service' \o data') \o unpaged'
      BY DEF Stream
    <2>2. (service \o data') \o unpaged' = service \o (data' \o unpaged')
      BY Regroup
    <2> QED
      BY <2>1, <2>2
  <1>3. <<b>> \in Seq(Packet) /\ b \in Packet
    BY Packets
  <1>4. service \o (unpaged \o <<b>>) = (service \o unpaged) \o <<b>>
    BY <1>3, ConcatAssociative
  <1>5. service \o unpaged \in Seq(Packet)
    BY ConcatProperties
  <1> QED
    BY <1>1, <1>2, <1>3, <1>4, <1>5, AppendIsConcat

\* A call of detect_opus, with a frame or an end mark.
LEMMA Detecting ==
    ASSUME Inv, NEW b \in 0..MaxFrames, pc = "ready", buf' = b,
           \/ heard' = heard + 1 /\ b = heard' /\ heard < MaxFrames
           \/ heard' = heard /\ b = EndOfSpeech,
           BeginsToConnect \/ Continues(b)
    PROVE  Inv'
  <1>1. heard' \in 0..MaxFrames /\ heard \in 0..MaxFrames
    BY BytedanceAssumption DEF Inv, SequencesInv
  <1>2. CASE BeginsToConnect
    <2>1. NothingSent
      BY <1>2 DEF Inv, StreamInv, BeginsToConnect, Feeding
    <2>2. NothingSent'
      BY <1>2, <2>1 DEF BeginsToConnect, NothingSent
    <2>3. SequencesInv'
      BY <1>1, <1>2 DEF Inv, SequencesInv, BeginsToConnect
    <2>4. StreamInv'
      BY <1>2, <2>2 DEF StreamInv, BeginsToConnect
    <2> QED
      BY <2>3, <2>4 DEF Inv
  <1>3. CASE Continues(b)
    <2>1. Feeding /\ data = <<>>
      BY <1>3 DEF Inv, StreamInv, Continues
    <2>2. Processes(unpaged, b) /\ UNCHANGED <<ws_state_, ogg_streamer_, service>>
      BY <1>3, <2>1 DEF Continues, Feeding, Connection
    <2>3. /\ service \in Seq(Packet) /\ unpaged \in Seq(Packet)
      BY DEF Inv, SequencesInv
    <2>4. /\ data' \in Seq(Packet) /\ unpaged' \in Seq(Packet)
          /\ data' \o unpaged' = Append(unpaged, b)
          /\ IF b = EndOfSpeech THEN pc' = "ending"
             ELSE pc' = "sending" \/ (pc' = "ready" /\ data' = <<>>)
      BY <2>2, <2>3, Processing
    <2>5. Stream \in Seq(Packet) /\ Stream' = Append(Stream, b)
      BY <2>1, <2>2, <2>3, <2>4, StreamGrows
    <2>6. IF b = EndOfSpeech THEN EndedStream(Stream)' ELSE Feeding'
      <3>1. GrownTo(Stream, heard)
        BY <2>1 DEF Feeding
      <3>2. CASE b = EndOfSpeech
        <4>1. EndedStream(Append(Stream, EndOfSpeech))
          BY <1>1, <2>5, <3>1, Fed
        <4> QED
          BY <2>5, <3>2, <4>1 DEF EndedStream
      <3>3. CASE b # EndOfSpeech
        <4>1. GrownTo(Append(Stream, heard + 1), heard + 1)
          BY <1>1, <2>5, <3>1, <3>3, Fed DEF EndOfSpeech
        <4> QED
          BY <2>1, <2>2, <2>5, <3>3, <4>1 DEF Feeding, GrownTo, EndOfSpeech
      <3> QED
        BY <3>2, <3>3
    <2>7. SequencesInv'
      BY <1>1, <2>2, <2>3, <2>4 DEF SequencesInv
    <2>8. StreamInv'
      BY <2>4, <2>6 DEF StreamInv
    <2> QED
      BY <2>7, <2>8 DEF Inv
  <1> QED
    BY <1>2, <1>3

LEMMA HeaderGoes == ASSUME Inv, HeaderSent PROVE Inv'
  <1>1. /\ service = <<>> /\ data = <<OpusHead>> /\ buf \in 0..MaxFrames
        /\ buf \in {heard, EndOfSpeech} /\ buf' = buf /\ heard' = heard
        /\ ws_state_' = "Connected" /\ ogg_streamer_'
    BY BytedanceAssumption DEF Inv, SequencesInv, StreamInv, HeaderSent, EndOfSpeech
  <1>2. <<OpusTags>> \in Seq(Packet) /\ <<OpusHead>> \in Seq(Packet) /\ <<>> \in Seq(Packet)
    BY Packets, EmptySeq
  <1>3. /\ data' \in Seq(Packet) /\ unpaged' \in Seq(Packet)
        /\ data' \o unpaged' = Append(<<OpusTags>>, buf)
        /\ IF buf = EndOfSpeech THEN pc' = "ending"
           ELSE pc' = "sending" \/ (pc' = "ready" /\ data' = <<>>)
    BY <1>1, <1>2, Processing DEF HeaderSent
  <1>4. service' = <<OpusHead>>
    BY <1>1, <1>2, ConcatEmptySeq DEF HeaderSent, Written
  <1>5. Stream' = <<OpusHead>> \o Append(<<OpusTags>>, buf)
    BY <1>2, <1>3, <1>4, ConcatAssociative DEF Stream
  <1>6. IF buf = EndOfSpeech THEN EndedStream(Stream') ELSE GrownTo(Stream', heard')
    BY <1>1, <1>5, Begun
  <1>7. SequencesInv'
    BY <1>1, <1>2, <1>3, <1>4 DEF Inv, SequencesInv
  <1>8. StreamInv'
    BY <1>1, <1>3, <1>6 DEF StreamInv, Feeding, EndedStream, GrownTo
  <1> QED
    BY <1>7, <1>8 DEF Inv

\* The pages in hand are written.
LEMMA PagesGo ==
    ASSUME Inv, Written, data' = <<>>, unpaged' = unpaged
    PROVE  /\ service' \in Seq(Packet) /\ data' \in Seq(Packet) /\ unpaged' \in Seq(Packet)
           /\ Stream' = Stream
  <1>1. service \in Seq(Packet) /\ data \in Seq(Packet) /\ unpaged \in Seq(Packet)
    BY DEF Inv, SequencesInv
  <1>2. service' = service \o data
    BY DEF Written
  <1> QED
    BY <1>1, <1>2, Writing, ConcatProperties, EmptySeq DEF Stream

LEMMA InvStep == ASSUME Inv, [Next]_vars PROVE Inv'
  <1> USE DEF Call
  <1>1. CASE DetectFrame
    <2>1. heard + 1 \in 0..MaxFrames
      BY <1>1, BytedanceAssumption DEF Inv, SequencesInv, DetectFrame
    <2> QED
      BY <1>1, <2>1, Detecting DEF DetectFrame
  <1>2. CASE DetectEnd
    <2>1. EndOfSpeech \in 0..MaxFrames
      BY BytedanceAssumption DEF EndOfSpeech
    <2> QED
      BY <1>2, <2>1, Detecting DEF DetectEnd
  <1>3. CASE StageDone
    <2>1. /\ pc \in {"resolve", "connect", "tls", "handshake", "greet"}
          /\ pc' \in {"resolve", "connect", "tls", "handshake", "greet", "greeting"}
      BY <1>3 DEF StageDone, Stages, StageOf, ToSet, Front
    <2>2. /\ NothingSent' /\ opened' /\ buf' \in {heard', EndOfSpeech}
      BY <1>3, <2>1 DEF Inv, StreamInv, StageDone, NothingSent
    <2>3. SequencesInv'
      BY <1>3, <2>1 DEF Inv, SequencesInv, StageDone
    <2> QED
      BY <2>1, <2>2, <2>3 DEF Inv, StreamInv
  <1>4. CASE StageFails
    BY <1>4, Cleared DEF StageFails, Returns, Inv
  <1>5. CASE Greeted
    <2>1. NothingSent /\ opened /\ buf \in {heard, EndOfSpeech}
      BY <1>5 DEF Inv, StreamInv, Greeted
    <2>2. <<OpusHead>> \in Seq(Packet) /\ <<>> \in Seq(Packet)
      BY Packets, EmptySeq
    <2>3. SequencesInv'
      BY <1>5, <2>2 DEF Inv, SequencesInv, Greeted
    <2>4. StreamInv'
      BY <1>5, <2>1 DEF StreamInv, Greeted, NothingSent
    <2> QED
      BY <2>3, <2>4 DEF Inv
  <1>6. CASE HeaderSent
    BY <1>6, HeaderGoes
  <1>7. CASE HeaderLost
    BY <1>7, Cleared DEF HeaderLost, Inv, StreamInv
  <1>8. CASE FrameSent
    <2>1. Feeding /\ buf # EndOfSpeech
      BY <1>8 DEF FrameSent, Inv, StreamInv
    <2>2. /\ service' \in Seq(Packet) /\ data' \in Seq(Packet) /\ unpaged' \in Seq(Packet)
          /\ Stream' = Stream
      BY <1>8, PagesGo DEF FrameSent
    <2>3. Feeding'
      BY <1>8, <2>1, <2>2 DEF FrameSent, Feeding, GrownTo
    <2>4. SequencesInv'
      BY <1>8, <2>2 DEF Inv, SequencesInv, FrameSent, Returns
    <2>5. StreamInv'
      BY <1>8, <2>3 DEF StreamInv, FrameSent, Returns
    <2> QED
      BY <2>4, <2>5 DEF Inv
  <1>9. CASE FrameLost
    BY <1>9, Cleared DEF FrameLost, Returns, Inv
  <1>10. CASE EndSent
    <2>1. EndedStream(Stream) /\ buf = EndOfSpeech
      BY <1>10 DEF EndSent, Inv, StreamInv
    <2>2. /\ service' \in Seq(Packet) /\ data' \in Seq(Packet) /\ unpaged' \in Seq(Packet)
          /\ Stream' = Stream
      BY <1>10, PagesGo DEF EndSent
    <2>3. SequencesInv'
      BY <1>10, <2>2 DEF Inv, SequencesInv, EndSent
    <2>4. StreamInv'
      BY <1>10, <2>1, <2>2 DEF StreamInv, EndSent, EndedStream
    <2> QED
      BY <2>3, <2>4 DEF Inv
  <1>11. CASE EndLost
    BY <1>11, Cleared DEF EndLost, Inv, StreamInv
  <1>12. CASE ReadsOn \/ ReadsResult
    <2>1. EndedStream(Stream) /\ buf = EndOfSpeech /\ pc' \in {"result", "closing"}
      BY <1>12 DEF ReadsOn, ReadsResult, Inv, StreamInv
    <2>2. UNCHANGED <<service, data, unpaged, heard, buf>>
      BY <1>12 DEF ReadsOn, ReadsResult
    <2>3. SequencesInv'
      BY <2>1, <2>2 DEF Inv, SequencesInv
    <2>4. StreamInv'
      BY <2>1, <2>2 DEF StreamInv, EndedStream, Stream
    <2> QED
      BY <2>3, <2>4 DEF Inv
  <1>13. CASE Closed
    BY <1>13, Cleared DEF Closed, Returns, Inv
  <1>14. CASE Throws
    <2>1. NothingSent \/ EndedStream(Stream)
      BY <1>14 DEF Throws, Inv, StreamInv
    <2>2. UNCHANGED <<service, data, unpaged, heard>> /\ pc' = "dead"
      BY <1>14 DEF Throws
    <2>3. SequencesInv'
      BY <2>2 DEF Inv, SequencesInv
    <2>4. StreamInv'
      BY <2>1, <2>2 DEF StreamInv, EndedStream, Stream, NothingSent
    <2> QED
      BY <2>3, <2>4 DEF Inv
  <1>15. CASE UNCHANGED vars
    BY <1>15 DEF vars, Inv, SequencesInv, StreamInv, Feeding, NothingSent, Stream, GrownTo, EndedStream
  <1> QED
    BY <1>1, <1>2, <1>3, <1>4, <1>5, <1>6, <1>7, <1>8, <1>9, <1>10, <1>11, <1>12, <1>13, <1>14,
       <1>15 DEF Next, Awaits, Ended

LEMMA InvHolds == Spec => []Inv
  BY InvInit, InvStep, PTL DEF Spec

-----------------------------------------------------------------------------
(* Theorems *)

\* detect_opus: whatever breaks and when, each connection to the service carries
\* one Ogg stream of its own, without a gap.
THEOREM StreamsAreWellFormed == Spec => []OggStreamIsWellFormed
  <1>1. ASSUME Inv PROVE OggStreamIsWellFormed
    <2>1. Stream \in Seq(Packet) /\ Len(Stream) \in Nat
      <3>1. service \in Seq(Packet) /\ data \in Seq(Packet) /\ unpaged \in Seq(Packet)
        BY <1>1 DEF Inv, SequencesInv
      <3>2. service \o data \in Seq(Packet)
        BY <3>1, ConcatProperties
      <3>3. Stream \in Seq(Packet)
        BY <3>1, <3>2, ConcatProperties DEF Stream
      <3> QED
        BY <3>3, LenProperties
    <2>2. CASE Stream = <<>>
      <3>1. Len(Stream) = 0
        BY <2>2
      <3> QED
        BY <2>2, <3>1 DEF OggStreamIsWellFormed
    <2>3. CASE Stream = <<OpusHead>>
      <3>1. Len(Stream) = 1 /\ Stream[1] = OpusHead
        BY <2>3
      <3> QED
        BY <3>1 DEF OggStreamIsWellFormed
    <2>4. CASE GrownTo(Stream, heard)
      BY <2>1, <2>4 DEF GrownTo, OggStreamIsWellFormed
    <2>5. CASE EndedStream(Stream)
      <3>1. ASSUME NEW i \in 3..Len(Stream)
            PROVE  \/ Stream[i] \in Frame /\ (i > 3 => Stream[i] = Stream[i - 1] + 1)
                   \/ Stream[i] = EndOfSpeech /\ i = Len(Stream)
        BY <2>1, <2>5 DEF EndedStream
      <3> QED
        BY <2>1, <2>5, <3>1 DEF EndedStream, OggStreamIsWellFormed
    <2>6. NothingSent => Stream = <<>>
      <3>1. <<>> \o <<>> = <<>>
        BY EmptySeq, ConcatEmptySeq
      <3> QED
        BY <3>1 DEF NothingSent, Stream
    <2>7. pc = "header" => Stream = <<OpusHead>>
      <3>1. <<OpusHead>> \in Seq(Packet)
        BY Packets
      <3>2. <<>> \o <<OpusHead>> = <<OpusHead>> /\ <<OpusHead>> \o <<>> = <<OpusHead>>
        BY <3>1, ConcatEmptySeq
      <3> QED
        BY <1>1, <3>2 DEF Inv, StreamInv, Stream
    <2> QED
      BY <1>1, <2>2, <2>3, <2>4, <2>5, <2>6, <2>7 DEF Inv, SequencesInv, StreamInv, Feeding
  <1> QED
    BY <1>1, InvHolds, PTL

\* send() and clear(): a connection lost while a frame is sent never ends the
\* process; only the call that connects and the one that ends the utterance can.
THEOREM FrameLossesAreSurvived == Spec => []FrameLossIsSurvived
  <1>1. ASSUME Inv PROVE FrameLossIsSurvived
    BY <1>1 DEF Inv, StreamInv, FrameLossIsSurvived
  <1> QED
    BY <1>1, InvHolds, PTL

-----------------------------------------------------------------------------
(* The call in progress *)

\* What a call holds at each co_await: the end mark leaves nothing inside the
\* Ogg stream, and the sentence is of all frames the service has got, or empty.
CallInv ==
    /\ ws_state_ \in {"Idle", "Connecting", "Connected"}
    /\ ws_ \in BOOLEAN /\ ogg_streamer_ \in BOOLEAN /\ opened \in BOOLEAN
    /\ buf \in 0..MaxFrames /\ answers \in Nat
    /\ sentence \in Seq(Frame) /\ said \in Seq(Seq(Frame))
    /\ pc = "sending" => buf = heard
    /\ pc = "ending" => unpaged = <<>>
    /\ pc \in {"result", "closing"} => data = <<>> /\ unpaged = <<>>
    /\ pc = "result" => answers >= 1
    /\ pc = "closing" => sentence \in {Frames(service), <<>>}

\* What lies behind the headers of a stream, and what without its last packet.
LEMMA BodyOf ==
    ASSUME NEW s \in Seq(Packet), Len(s) >= 3, NEW p
    PROVE  /\ Body(s, p) = SubSeq(s, 3, IF s[Len(s)] = p THEN Len(s) - 1 ELSE Len(s))
           /\ SubSeq(s, 3, Len(s)) = Append(SubSeq(s, 3, Len(s) - 1), s[Len(s)])
           /\ SubSeq(s, 3, Len(s) - 1) \in Seq(Packet)
  <1>1. Len(s) \in Nat /\ s # <<>> /\ 3 \in 1..Len(s) /\ Len(s) \in 3..Len(s)
    BY LenProperties, EmptySeq
  <1>2. \A i \in 1..Len(s) : s[i] \in Packet
    BY ElementOfSeq
  <1>3. SubSeq(s, 3, Len(s) - 1) \in Seq(Packet)
    <2>1. \A i \in 3..Len(s) - 1 : s[i] \in Packet
      BY <1>1, <1>2
    <2>2. Len(s) - 1 \in Int
      BY <1>1
    <2> QED
      BY <2>1, <2>2, SubSeqProperties
  <1>4. SubSeq(s, 3, Len(s)) = SubSeq(s, 3, Len(s) - 1) \o <<s[Len(s)]>>
    BY <1>1, SubSeqRecursiveSecond
  <1>5. s[Len(s)] \in Packet
    BY <1>1, <1>2
  <1>6. Body(s, p) = SubSeq(s, 3, IF s[Len(s)] = p THEN Len(s) - 1 ELSE Len(s))
    BY <1>1 DEF Body, Last
  <1>7. Append(SubSeq(s, 3, Len(s) - 1), s[Len(s)])
          = SubSeq(s, 3, Len(s) - 1) \o <<s[Len(s)]>>
    BY <1>3, <1>5, AppendIsConcat
  <1> QED
    BY <1>3, <1>4, <1>6, <1>7

\* No frame lies behind the headers yet.
LEMMA NoBody ==
    ASSUME NEW p
    PROVE  Body(<<>>, p) = <<>> /\ Body(<<OpusHead>>, p) = <<>>
  <1>1. Len(<<>>) = 0 /\ Len(<<OpusHead>>) = 1
    OBVIOUS
  <1> QED
    BY <1>1, SubSeqEmpty DEF Body, Last

\* The frames of a stream that has ended.
LEMMA FramesOfEnded ==
    ASSUME NEW s \in Seq(Packet), EndedStream(s)
    PROVE  Frames(s) = SubSeq(s, 3, Len(s) - 1) /\ Frames(s) \in Seq(Frame)
  <1>1. Len(s) \in Nat /\ Len(s) >= 3 /\ s[Len(s)] = EndOfSpeech
    BY LenProperties DEF EndedStream
  <1>2. Frames(s) = SubSeq(s, 3, Len(s) - 1)
    BY <1>1, BodyOf DEF Frames
  <1>3. SubSeq(s, 3, Len(s) - 1) \in Seq(Frame)
    <2>1. \A i \in 3..Len(s) - 1 : s[i] \in Frame
      BY DEF EndedStream
    <2>2. Len(s) - 1 \in Int
      BY <1>1
    <2> QED
      BY <2>1, <2>2, SubSeqProperties
  <1> QED
    BY <1>2, <1>3

\* A packet more behind a stream does not change what lies before it.
LEMMA BodyBefore ==
    ASSUME NEW s \in Seq(Packet), Len(s) >= 3, NEW x \in Packet
    PROVE  SubSeq(Append(s, x), 3, Len(Append(s, x)) - 1) = SubSeq(s, 3, Len(s))
  <1>1. Len(s) \in Nat /\ 3 \in 1..Len(s) /\ Len(s) \in 1..Len(s)
    BY LenProperties
  <1>2. Append(s, x) = s \o <<x>> /\ Len(Append(s, x)) - 1 = Len(s) /\ <<x>> \in Seq(Packet)
    BY <1>1, AppendIsConcat, AppendProperties
  <1> QED
    BY <1>1, <1>2, SubSeqOfConcat1

\* The first frame behind the headers.
LEMMA FirstBody ==
    ASSUME NEW b \in 0..MaxFrames, NEW s, s = <<OpusHead>> \o Append(<<OpusTags>>, b)
    PROVE  SubSeq(s, 3, Len(s) - 1) = <<>> /\ SubSeq(s, 3, Len(s)) = <<b>>
  <1>1. <<OpusHead>> \in Seq(Packet) /\ <<OpusTags>> \in Seq(Packet) /\ b \in Packet
    BY Packets
  <1>2. /\ Append(<<OpusTags>>, b) \in Seq(Packet) /\ Len(Append(<<OpusTags>>, b)) = 2
        /\ Append(<<OpusTags>>, b)[2] = b
    BY <1>1, AppendProperties
  <1>3. s \in Seq(Packet) /\ Len(s) = 3 /\ s[3] = b
    <2>1. /\ s \in Seq(Packet) /\ Len(s) = 3
          /\ \A i \in 1..3 : s[i] = IF i <= 1 THEN <<OpusHead>>[i]
                                   ELSE Append(<<OpusTags>>, b)[i - 1]
      BY <1>1, <1>2, ConcatProperties
    <2> QED
      BY <1>2, <2>1
  <1>4. SubSeq(s, 3, Len(s) - 1) = <<>>
    BY <1>3, SubSeqEmpty
  <1>5. SubSeq(s, 3, Len(s)) = Append(SubSeq(s, 3, Len(s) - 1), s[Len(s)])
    BY <1>3, BodyOf
  <1>6. Append(<<>>, b) = <<b>>
    OBVIOUS
  <1> QED
    BY <1>3, <1>4, <1>5, <1>6

\* Everything that is on its way is a stream of packets.
LEMMA StreamType ==
    ASSUME SequencesInv
    PROVE  Stream \in Seq(Packet) /\ (data = <<>> /\ unpaged = <<>> => Stream = service)
  <1>1. service \in Seq(Packet) /\ data \in Seq(Packet) /\ unpaged \in Seq(Packet)
    BY DEF SequencesInv
  <1>2. service \o data \in Seq(Packet)
    BY <1>1, ConcatProperties
  <1>3. Stream \in Seq(Packet)
    BY <1>1, <1>2, ConcatProperties DEF Stream
  <1>4. data = <<>> /\ unpaged = <<>> => Stream = service
    BY <1>1, ConcatEmptySeq DEF Stream
  <1> QED
    BY <1>3, <1>4

LEMMA CallInit == Init => CallInv
  <1> SUFFICES ASSUME Init PROVE CallInv
    OBVIOUS
  <1>1. \A S : <<>> \in Seq(S)
    BY EmptySeq
  <1>2. EndOfSpeech \in 0..MaxFrames
    BY BytedanceAssumption DEF EndOfSpeech
  <1>3. ws_ \in BOOLEAN /\ ogg_streamer_ \in BOOLEAN /\ opened \in BOOLEAN
    BY Zenon DEF Init
  <1> QED
    BY <1>1, <1>2, <1>3 DEF Init, CallInv

\* What every return of detect_opus leaves.
LEMMA Returning ==
    ASSUME CallInv, NEW b, NEW t \in Seq(Frame), Returns(b, t)
    PROVE  /\ pc' = "ready" /\ sentence' \in Seq(Frame) /\ said' \in Seq(Seq(Frame))
  <1>1. <<>> \in Seq(Frame)
    BY EmptySeq
  <1>2. said \in Seq(Seq(Frame))
    BY DEF CallInv
  <1>3. Append(said, t) \in Seq(Seq(Frame))
    BY <1>2, AppendProperties
  <1> QED
    BY <1>1, <1>2, <1>3 DEF Returns

\* A step of detect_opus that only clears the connection keeps what holds of it.
LEMMA ClearedCall ==
    ASSUME CallInv, Clear, UNCHANGED <<buf, heard, opened>>,
           \/ pc' = "crashed" /\ UNCHANGED <<sentence, said>>
           \/ \E t \in Seq(Frame) : Returns(buf, t)
    PROVE  CallInv'
  <1>1. pc' \in {"ready", "crashed"} /\ sentence' \in Seq(Frame) /\ said' \in Seq(Seq(Frame))
    BY Returning DEF CallInv
  <1>2. ws_' \in BOOLEAN /\ ogg_streamer_' \in BOOLEAN
    BY Zenon DEF Clear
  <1>3. opened' \in BOOLEAN
    BY Zenon DEF CallInv
  <1> QED
    BY <1>1, <1>2, <1>3 DEF CallInv, Clear

\* process_buffer keeps what holds of the call.
LEMMA ProcessingCall ==
    ASSUME SequencesInv, CallInv, heard' \in 0..MaxFrames, NEW b \in 0..MaxFrames,
           buf' = b, b \in {heard', EndOfSpeech}, NEW ps \in Seq(Packet), Processes(ps, b),
           ws_state_' \in {"Idle", "Connecting", "Connected"},
           ws_' \in BOOLEAN, ogg_streamer_' \in BOOLEAN, opened' \in BOOLEAN,
           answers' \in Nat
    PROVE  CallInv'
  <1>1. /\ IF b = EndOfSpeech THEN pc' = "ending"
           ELSE pc' = "sending" \/ (pc' = "ready" /\ data' = <<>>)
        /\ b = EndOfSpeech => unpaged' = <<>>
        /\ IF pc' = "ready" THEN Returns(b, <<>>) ELSE UNCHANGED <<sentence, said>>
    BY Processing
  <1>2. sentence' \in Seq(Frame) /\ said' \in Seq(Seq(Frame))
    BY <1>1, Returning, EmptySeq DEF CallInv
  <1> QED
    BY <1>1, <1>2 DEF CallInv

LEMMA CallStep == ASSUME Inv, CallInv, [Next]_vars PROVE CallInv'
  <1>0. SequencesInv /\ heard \in 0..MaxFrames
    BY DEF Inv, SequencesInv
  <1>b. /\ ws_' = ws_ => ws_' \in BOOLEAN
        /\ ogg_streamer_' = ogg_streamer_ => ogg_streamer_' \in BOOLEAN
        /\ opened' = opened => opened' \in BOOLEAN
        /\ TRUE \in BOOLEAN /\ FALSE \in BOOLEAN
    BY Zenon DEF CallInv
  <1> USE DEF Call
  <1>1. ASSUME NEW b \in 0..MaxFrames, pc = "ready", buf' = b, heard' \in 0..MaxFrames,
               b \in {heard', EndOfSpeech}, BeginsToConnect \/ Continues(b)
        PROVE  CallInv'
    <2>1. CASE BeginsToConnect
      <3>1. opened' \in BOOLEAN
        BY <1>b, <2>1 DEF BeginsToConnect
      <3>2. ws_' \in BOOLEAN /\ ogg_streamer_' \in BOOLEAN
        BY <1>b, <2>1 DEF BeginsToConnect
      <3> QED
        BY <1>1, <2>1, <3>1, <3>2 DEF BeginsToConnect, CallInv
    <2>2. CASE Continues(b)
      <3>1. opened' \in BOOLEAN
        BY <1>b, <2>2 DEF Continues
      <3>2. ws_' \in BOOLEAN /\ ogg_streamer_' \in BOOLEAN /\ answers' \in Nat
            /\ ws_state_' \in {"Idle", "Connecting", "Connected"}
        <4>1. UNCHANGED <<ws_state_, ws_, ogg_streamer_, answers>>
          BY <2>2 DEF Continues, Connection
        <4> QED
          BY <1>b, <4>1 DEF CallInv
      <3>3. CASE Processes(unpaged, b)
        BY <1>0, <1>1, <3>1, <3>2, <3>3, ProcessingCall DEF SequencesInv
      <3>4. CASE pc' = "crashed" /\ UNCHANGED <<unpaged, data, sentence, said>>
        BY <1>1, <3>1, <3>2, <3>4 DEF CallInv
      <3> QED
        BY <2>2, <3>3, <3>4 DEF Continues
    <2> QED
      BY <1>1, <2>1, <2>2
  <1>2. CASE DetectFrame
    <2>1. heard + 1 \in 0..MaxFrames
      BY <1>0, <1>2, BytedanceAssumption DEF DetectFrame
    <2> QED
      BY <1>1, <1>2, <2>1 DEF DetectFrame
  <1>3. CASE DetectEnd
    <2>1. EndOfSpeech \in 0..MaxFrames
      BY BytedanceAssumption DEF EndOfSpeech
    <2> QED
      BY <1>0, <1>1, <1>3, <2>1 DEF DetectEnd
  <1>4. CASE StageDone
    <2>1. pc' \in {"resolve", "connect", "tls", "handshake", "greet", "greeting"}
      BY <1>4 DEF StageDone, Stages, StageOf, ToSet, Front
    <2>2. ws_' \in BOOLEAN /\ ogg_streamer_' \in BOOLEAN /\ opened' \in BOOLEAN
      BY <1>b, <1>4 DEF StageDone
    <2> QED
      BY <1>4, <2>1, <2>2 DEF StageDone, CallInv
  <1>5. CASE StageFails
    BY <1>5, ClearedCall, EmptySeq DEF StageFails
  <1>6. CASE Greeted
    <2>1. ws_' \in BOOLEAN /\ ogg_streamer_' \in BOOLEAN /\ opened' \in BOOLEAN
      BY <1>b, <1>6 DEF Greeted
    <2> QED
      BY <1>6, <2>1 DEF Greeted, CallInv
  <1>7. CASE HeaderSent
    <2>1. buf' = buf /\ heard' = heard /\ buf \in 0..MaxFrames /\ buf \in {heard, EndOfSpeech}
      BY <1>7 DEF HeaderSent, Inv, StreamInv, CallInv
    <2>2. <<OpusTags>> \in Seq(Packet)
      BY Packets
    <2>3. /\ ws_' \in BOOLEAN /\ ogg_streamer_' \in BOOLEAN /\ opened' \in BOOLEAN
      BY <1>b, <1>7 DEF HeaderSent
    <2>4. answers' \in Nat /\ ws_state_' \in {"Idle", "Connecting", "Connected"}
      BY <1>7 DEF HeaderSent, Written, CallInv
    <2> QED
      BY <1>0, <1>7, <2>1, <2>2, <2>3, <2>4, ProcessingCall DEF HeaderSent
  <1>8. CASE HeaderLost
    BY <1>8, ClearedCall DEF HeaderLost
  <1>9. CASE FrameSent
    <2>1. ws_' \in BOOLEAN /\ ogg_streamer_' \in BOOLEAN /\ opened' \in BOOLEAN
      BY <1>b, <1>9 DEF FrameSent
    <2>2. pc' = "ready" /\ sentence' \in Seq(Frame) /\ said' \in Seq(Seq(Frame))
      BY <1>9, Returning, EmptySeq DEF FrameSent
    <2> QED
      BY <1>9, <2>1, <2>2 DEF FrameSent, Written, CallInv
  <1>10. CASE FrameLost
    BY <1>10, ClearedCall, EmptySeq DEF FrameLost
  <1>11. CASE EndSent
    <2>1. ws_' \in BOOLEAN /\ ogg_streamer_' \in BOOLEAN /\ opened' \in BOOLEAN
      BY <1>b, <1>11 DEF EndSent
    <2> QED
      BY <1>11, <2>1 DEF EndSent, Written, CallInv
  <1>12. CASE EndLost
    BY <1>12, ClearedCall DEF EndLost
  <1>13. CASE ReadsOn
    <2>1. ws_' \in BOOLEAN /\ ogg_streamer_' \in BOOLEAN /\ opened' \in BOOLEAN
      BY <1>b, <1>13 DEF ReadsOn
    <2> QED
      BY <1>13, <2>1 DEF ReadsOn, CallInv
  <1>14. CASE ReadsResult
    <2>1. ws_' \in BOOLEAN /\ ogg_streamer_' \in BOOLEAN /\ opened' \in BOOLEAN
      BY <1>b, <1>14 DEF ReadsResult
    <2>2. data = <<>> /\ unpaged = <<>> /\ EndedStream(Stream) /\ answers >= 1
      BY <1>14 DEF ReadsResult, CallInv, Inv, StreamInv
    <2>3. service \in Seq(Packet) /\ EndedStream(service)
      BY <1>0, <2>2, StreamType DEF SequencesInv
    <2>4. sentence' \in {Frames(service), <<>>} /\ sentence' \in Seq(Frame)
      BY <1>14, <2>3, FramesOfEnded, EmptySeq DEF ReadsResult
    <2> QED
      BY <1>14, <2>1, <2>2, <2>4 DEF ReadsResult, CallInv
  <1>15. CASE Closed
    BY <1>15, ClearedCall DEF Closed, CallInv
  <1>16. CASE Throws
    <2>1. ws_' \in BOOLEAN /\ ogg_streamer_' \in BOOLEAN /\ opened' \in BOOLEAN
      BY <1>b, <1>16 DEF Throws
    <2> QED
      BY <1>16, <2>1 DEF Throws, CallInv
  <1>17. CASE UNCHANGED vars
    <2>1. ws_' \in BOOLEAN /\ ogg_streamer_' \in BOOLEAN /\ opened' \in BOOLEAN
      BY <1>b, <1>17 DEF vars
    <2> QED
      BY <1>17, <2>1 DEF vars, CallInv
  <1> QED
    BY <1>2, <1>3, <1>4, <1>5, <1>6, <1>7, <1>8, <1>9, <1>10, <1>11, <1>12, <1>13, <1>14,
       <1>15, <1>16, <1>17 DEF Next, Awaits, Ended

\* The type invariant of detect_opus, for any number of frames and end marks.
THEOREM TypeCorrect == Spec => []TypeOK
  <1>1. ASSUME Inv, CallInv PROVE TypeOK
    <2>1. pc \in ToSet(Stages) \union {"ready", "header", "sending", "ending",
                                       "result", "closing", "crashed", "dead"}
      BY <1>1 DEF Inv, SequencesInv, ToSet, Stages
    <2> QED
      BY <1>1, <2>1 DEF Inv, SequencesInv, CallInv, TypeOK, Packet
  <1> QED
    BY <1>1, InvInit, InvStep, CallInit, CallStep, PTL DEF Spec

-----------------------------------------------------------------------------
(* BytedanceV2 is a recogniser *)

\* The frames of earlier calls, at each co_await.
HeldInv ==
    /\ pc \in {"resolve", "connect", "tls", "handshake", "greet", "greeting",
              "header", "crashed"} => Held = <<>>
    /\ pc = "ready" /\ NothingSent => Held = <<>>
    /\ pc = "ready" /\ ~NothingSent =>
         /\ Feeding /\ data = <<>>
         /\ Held = SubSeq(Stream, 3, Len(Stream))
    /\ pc = "sending" =>
         /\ Held = SubSeq(Stream, 3, Len(Stream) - 1)
         /\ SubSeq(Stream, 3, Len(Stream)) = Append(Held, heard)
    /\ pc \in {"ending", "result", "closing"} =>
         Held = SubSeq(Stream, 3, Len(Stream) - 1) /\ Held = Frames(Stream)

\* They follow from what the stream is.
LEMMA HeldIs == Inv /\ CallInv => HeldInv
  <1> SUFFICES ASSUME Inv, CallInv PROVE HeldInv
    OBVIOUS
  <1>1. Stream \in Seq(Packet)
    BY StreamType DEF Inv
  <1>2. NothingSent => Stream = <<>> /\ Held = <<>>
    <2>1. <<>> \o <<>> = <<>>
      BY EmptySeq, ConcatEmptySeq
    <2>2. NothingSent => Stream = <<>>
      BY <2>1 DEF NothingSent, Stream
    <2> QED
      BY <2>2, NoBody DEF Held
  <1>3. pc = "header" => Held = <<>>
    <2>1. <<OpusHead>> \in Seq(Packet)
      BY Packets
    <2>2. <<>> \o <<OpusHead>> = <<OpusHead>> /\ <<OpusHead>> \o <<>> = <<OpusHead>>
      BY <2>1, ConcatEmptySeq
    <2>3. pc = "header" => Stream = <<OpusHead>>
      BY <2>2 DEF Inv, StreamInv, Stream
    <2> QED
      BY <2>3, NoBody DEF Held
  <1>4. Feeding => Len(Stream) >= 3 /\ Stream[Len(Stream)] = heard /\ heard # EndOfSpeech
    BY <1>1, LenProperties DEF Feeding, GrownTo, Frame, EndOfSpeech
  <1>5. CASE pc = "ready"
    <2>1. CASE NothingSent
      BY <1>2, <1>5, <2>1 DEF HeldInv
    <2>2. CASE ~NothingSent
      <3>1. Feeding /\ data = <<>>
        BY <1>5, <2>2 DEF Inv, StreamInv
      <3>2. Held = SubSeq(Stream, 3, Len(Stream))
        BY <1>1, <1>4, <1>5, <3>1, BodyOf DEF Held
      <3> QED
        BY <1>5, <2>2, <3>1, <3>2 DEF HeldInv
    <2> QED
      BY <2>1, <2>2
  <1>6. CASE pc = "sending"
    <2>1. Feeding /\ buf = heard
      BY <1>6 DEF Inv, StreamInv, CallInv
    <2>2. Held = SubSeq(Stream, 3, Len(Stream) - 1)
      BY <1>1, <1>4, <1>6, <2>1, BodyOf DEF Held
    <2>3. SubSeq(Stream, 3, Len(Stream)) = Append(SubSeq(Stream, 3, Len(Stream) - 1), heard)
      BY <1>1, <1>4, <2>1, BodyOf
    <2> QED
      BY <1>6, <2>2, <2>3 DEF HeldInv
  <1>7. CASE pc \in {"ending", "result", "closing"}
    <2>1. EndedStream(Stream) /\ buf = EndOfSpeech
      BY <1>7 DEF Inv, StreamInv
    <2>2. Held = Frames(Stream)
      BY <1>7, <2>1 DEF Held, Frames
    <2> QED
      BY <1>1, <1>7, <2>1, <2>2, FramesOfEnded DEF HeldInv
  <1>8. pc \in {"resolve", "connect", "tls", "handshake", "greet", "greeting", "crashed"}
          => NothingSent
    BY DEF Inv, StreamInv
  <1>9. CASE pc \in {"resolve", "connect", "tls", "handshake", "greet", "greeting",
                    "header", "crashed", "dead"}
    BY <1>2, <1>3, <1>8, <1>9 DEF HeldInv
  <1> QED
    BY <1>5, <1>6, <1>7, <1>9 DEF Inv, SequencesInv

LEMMA HeldAfter == Inv' /\ CallInv' => HeldInv'
  BY HeldIs, PTL

\* The frames after a call that clears the connection.
LEMMA HeldCleared ==
    ASSUME Inv', CallInv', Clear, pc' \in {"ready", "crashed"}
    PROVE  Held' = <<>>
  <1>1. NothingSent'
    BY DEF Clear, NothingSent
  <1> QED
    BY <1>1, HeldAfter DEF HeldInv

\* A packet goes onto a stream that is fed: the frames of earlier calls stay, or,
\* when the call is over at once, its frame is one of them.
LEMMA HeldGrows ==
    ASSUME Inv, CallInv, Inv', CallInv', pc = "ready", NEW b \in 0..MaxFrames, Continues(b),
           buf' = b
    PROVE  /\ pc' \in {"ready", "sending", "ending"}
           /\ Held' = IF pc' = "ready" THEN Append(Held, b) ELSE Held
           /\ IF pc' = "ready" THEN b # EndOfSpeech /\ Returns(b, <<>>)
              ELSE UNCHANGED said
  <1>0. /\ service \in Seq(Packet) /\ unpaged \in Seq(Packet) /\ HeldInv /\ HeldInv'
        /\ b \in Packet
    BY HeldIs, HeldAfter, Packets DEF Inv, SequencesInv
  <1>1. Feeding /\ data = <<>>
    BY DEF Inv, StreamInv, Continues
  <1>2. ~NothingSent
    <2>1. NothingSent => Stream = <<>>
      <3>1. <<>> \o <<>> = <<>>
        BY EmptySeq, ConcatEmptySeq
      <3> QED
        BY <3>1 DEF NothingSent, Stream
    <2>2. Len(<<>>) = 0
      OBVIOUS
    <2> QED
      BY <1>1, <2>1, <2>2 DEF Feeding, GrownTo
  <1>3. Processes(unpaged, b) /\ UNCHANGED <<ws_state_, ogg_streamer_, service>>
    BY <1>1 DEF Continues, Feeding, Connection
  <1>4. /\ data' \in Seq(Packet) /\ unpaged' \in Seq(Packet)
        /\ data' \o unpaged' = Append(unpaged, b)
        /\ IF b = EndOfSpeech THEN pc' = "ending"
           ELSE pc' = "sending" \/ (pc' = "ready" /\ data' = <<>>)
        /\ IF pc' = "ready" THEN Returns(b, <<>>) ELSE UNCHANGED <<sentence, said>>
    BY <1>0, <1>3, Processing
  <1>5. Stream \in Seq(Packet) /\ Stream' = Append(Stream, b)
    BY <1>0, <1>1, <1>3, <1>4, StreamGrows
  <1>6. Len(Stream) \in Nat /\ Len(Stream) >= 3
    BY <1>1, <1>5, LenProperties DEF Feeding, GrownTo
  <1>7. Held = SubSeq(Stream, 3, Len(Stream))
    BY <1>0, <1>2 DEF HeldInv
  <1>8. SubSeq(Stream', 3, Len(Stream') - 1) = Held
    BY <1>0, <1>5, <1>6, <1>7, BodyBefore
  <1>9. SubSeq(Stream', 3, Len(Stream')) = Append(Held, b)
    <2>1. /\ Append(Stream, b) \in Seq(Packet) /\ Len(Append(Stream, b)) = Len(Stream) + 1
          /\ Append(Stream, b)[Len(Stream) + 1] = b
      BY <1>0, <1>5, AppendProperties
    <2>2. SubSeq(Append(Stream, b), 3, Len(Append(Stream, b)))
            = Append(SubSeq(Append(Stream, b), 3, Len(Append(Stream, b)) - 1), b)
      BY <1>6, <2>1, BodyOf
    <2> QED
      BY <1>5, <1>8, <2>2
  <1>10. CASE pc' = "ready"
    <2>1. ~NothingSent'
      <3>1. Append(unpaged, b) # <<>>
        BY <1>0, AppendProperties
      <3>2. <<>> \o <<>> = <<>>
        BY EmptySeq, ConcatEmptySeq
      <3> QED
        BY <1>4, <3>1, <3>2 DEF NothingSent
    <2>2. Held' = SubSeq(Stream', 3, Len(Stream'))
      BY <1>0, <1>10, <2>1 DEF HeldInv
    <2> QED
      BY <1>4, <1>9, <1>10, <2>2
  <1>11. CASE pc' # "ready"
    <2>1. pc' \in {"sending", "ending"}
      BY <1>4, <1>11
    <2>2. Held' = SubSeq(Stream', 3, Len(Stream') - 1)
      BY <1>0, <2>1 DEF HeldInv
    <2> QED
      BY <1>4, <1>8, <1>11, <2>1, <2>2
  <1> QED
    BY <1>10, <1>11

\* Every step of detect_opus is a step of the abstract recogniser, or none of its
\* business: a call counts when it returns.
LEMMA RecogniserStep ==
    Inv /\ CallInv /\ Inv' /\ CallInv' /\ [Next]_vars
      => [Recogniser!Next]_(Recogniser!vars)
  <1> SUFFICES ASSUME Inv, CallInv, Inv', CallInv', [Next]_vars
               PROVE  Recogniser!Next \/ UNCHANGED Recogniser!vars
    OBVIOUS
  <1>0. HeldInv /\ HeldInv' /\ heard \in 0..MaxFrames /\ buf \in 0..MaxFrames
        /\ EndOfSpeech = 0
    BY HeldIs, HeldAfter DEF Inv, SequencesInv, CallInv, EndOfSpeech
  <1> USE DEF Recogniser!vars, Recogniser!Next, Call
  \* Nothing of the abstract state changes.
  <1>1. ASSUME Held' = Held, Returned' = Returned, said' = said
        PROVE  UNCHANGED Recogniser!vars
    BY <1>1
  \* A call with a frame returns.
  <1>2. ASSUME pc # "ready" \/ heard' = heard + 1, buf' # EndOfSpeech, pc' = "ready",
               pc # "ready" => buf = heard /\ UNCHANGED <<heard, buf>>,
               \E t : Returns(buf', t),
               Held' \in {Append(Held, heard'), Held, <<>>}
        PROVE  Recogniser!Feed
    <2>1. Returned' = heard' /\ Returned + 1 = heard'
      BY <1>0, <1>2 DEF Returned
    <2>2. said' = said
      BY <1>2 DEF Returns
    <2> QED
      BY <1>2, <2>1, <2>2 DEF Recogniser!Feed
  \* A call with the end mark returns.
  <1>3. ASSUME NEW t \in {Held, <<>>}, pc # "ready", buf = EndOfSpeech, buf' = buf,
               heard' = heard, Returns(buf, t), Held' = <<>>
        PROVE  Recogniser!Flush
    <2>1. Returned' = Returned
      BY <1>3 DEF Returned
    <2>2. said' = Append(said, t)
      BY <1>3 DEF Returns
    <2> QED
      BY <1>3, <2>1, <2>2 DEF Recogniser!Flush
  <1>4. ASSUME NEW b \in 0..MaxFrames, pc = "ready", buf' = b,
               \/ heard' = heard + 1 /\ b = heard'
               \/ heard' = heard /\ b = EndOfSpeech,
               BeginsToConnect \/ Continues(b)
        PROVE  Recogniser!Next \/ UNCHANGED Recogniser!vars
    <2>1. pc' # "ready" => Returned' = Returned
      BY <1>0, <1>4 DEF Returned
    <2>2. CASE BeginsToConnect
      <3>1. Held' = Held
        <4>1. NothingSent
          BY <1>4, <2>2 DEF Inv, StreamInv, BeginsToConnect, Feeding
        <4> QED
          BY <1>0, <1>4, <2>2, <4>1 DEF HeldInv, BeginsToConnect
      <3> QED
        BY <1>1, <2>1, <2>2, <3>1 DEF BeginsToConnect
    <2>3. CASE Continues(b)
      <3>1. /\ pc' \in {"ready", "sending", "ending"}
            /\ Held' = IF pc' = "ready" THEN Append(Held, b) ELSE Held
            /\ IF pc' = "ready" THEN b # EndOfSpeech /\ Returns(b, <<>>)
               ELSE UNCHANGED said
        BY <1>4, <2>3, HeldGrows
      <3>2. CASE pc' = "ready"
        BY <1>0, <1>2, <1>4, <3>1, <3>2
      <3>3. CASE pc' # "ready"
        BY <1>1, <2>1, <3>1, <3>3
      <3> QED
        BY <3>2, <3>3
    <2> QED
      BY <1>4, <2>2, <2>3
  <1>5. CASE DetectFrame
    <2>1. heard + 1 \in 0..MaxFrames
      BY <1>0, <1>5, BytedanceAssumption DEF DetectFrame
    <2> QED
      BY <1>4, <1>5, <2>1 DEF DetectFrame
  <1>6. CASE DetectEnd
    <2>1. EndOfSpeech \in 0..MaxFrames
      BY <1>0, BytedanceAssumption
    <2> QED
      BY <1>4, <1>6, <2>1 DEF DetectEnd
  <1>7. CASE StageDone \/ Greeted \/ HeaderLost \/ ReadsOn \/ ReadsResult \/ EndSent \/ Throws
    <2>1. Returned' = Returned
      BY <1>7 DEF StageDone, Greeted, HeaderLost, ReadsOn, ReadsResult, EndSent, Throws,
                  Returned, Stages, StageOf, ToSet, Front
    <2>2. said' = said
      BY <1>7 DEF StageDone, Greeted, HeaderLost, ReadsOn, ReadsResult, EndSent, Throws
    <2>3. CASE StageDone \/ Greeted \/ HeaderLost
      <3>1. /\ pc \in {"resolve", "connect", "tls", "handshake", "greet", "greeting", "header"}
            /\ pc' \in {"resolve", "connect", "tls", "handshake", "greet", "greeting", "header",
                       "crashed"}
        BY <2>3 DEF StageDone, Greeted, HeaderLost, Stages, StageOf, ToSet, Front
      <3> QED
        BY <1>0, <1>1, <2>1, <2>2, <3>1 DEF HeldInv
    <2>4. CASE EndSent
      <3>1. Stream' = Stream
        BY <2>4, PagesGo DEF EndSent
      <3> QED
        BY <1>0, <1>1, <2>1, <2>2, <2>4, <3>1 DEF HeldInv, EndSent
    <2>5. CASE ReadsOn \/ ReadsResult \/ Throws
      <3>1. Stream' = Stream /\ buf' = buf /\ pc # "ready" /\ pc' # "ready"
        BY <2>5 DEF ReadsOn, ReadsResult, Throws, Stream
      <3>2. Held' = Held
        BY <3>1 DEF Held
      <3> QED
        BY <1>1, <2>1, <2>2, <3>2
    <2> QED
      BY <1>7, <2>3, <2>4, <2>5
  <1>8. CASE StageFails
    <2>1. /\ Clear /\ UNCHANGED <<buf, heard>> /\ Returns(buf, <<>>) /\ pc' = "ready"
          /\ pc \in {"resolve", "connect", "tls", "handshake", "greet", "greeting"}
      BY <1>8 DEF StageFails, Returns, Stages, ToSet
    <2>2. Held' = <<>>
      BY <2>1, HeldCleared
    <2>3. buf \in {heard, EndOfSpeech}
      BY <2>1 DEF Inv, StreamInv
    <2> QED
      BY <1>0, <1>2, <1>3, <2>1, <2>2, <2>3
  <1>9. CASE HeaderSent
    <2>1. /\ Processes(<<OpusTags>>, buf) /\ UNCHANGED <<buf, heard>> /\ pc = "header"
          /\ buf \in {heard, EndOfSpeech} /\ service = <<>> /\ data = <<OpusHead>>
      BY <1>9 DEF HeaderSent, Inv, StreamInv
    <2>2. <<OpusTags>> \in Seq(Packet) /\ <<OpusHead>> \in Seq(Packet)
      BY Packets
    <2>3. /\ data' \in Seq(Packet) /\ unpaged' \in Seq(Packet)
          /\ data' \o unpaged' = Append(<<OpusTags>>, buf)
          /\ IF buf = EndOfSpeech THEN pc' = "ending"
             ELSE pc' = "sending" \/ (pc' = "ready" /\ data' = <<>>)
          /\ IF pc' = "ready" THEN Returns(buf, <<>>) ELSE UNCHANGED <<sentence, said>>
      BY <1>0, <2>1, <2>2, Processing
    <2>4. Held = <<>>
      BY <1>0, <2>1 DEF HeldInv
    <2>5. service' = <<OpusHead>>
      BY <1>9, <2>1, <2>2, ConcatEmptySeq DEF HeaderSent, Written
    <2>6. Stream' = <<OpusHead>> \o Append(<<OpusTags>>, buf)
      BY <2>2, <2>3, <2>5, ConcatAssociative DEF Stream
    <2>7. /\ SubSeq(Stream', 3, Len(Stream') - 1) = <<>>
          /\ SubSeq(Stream', 3, Len(Stream')) = <<buf>>
      BY <1>0, <2>6, FirstBody
    <2>8. CASE pc' = "ready"
      <3>1. ~NothingSent'
        <4>1. <<OpusHead>> # <<>>
          OBVIOUS
        <4> QED
          BY <2>5, <4>1 DEF NothingSent
      <3>2. Held' = <<buf>>
        BY <1>0, <2>7, <2>8, <3>1 DEF HeldInv
      <3>3. Append(<<>>, buf) = <<buf>>
        OBVIOUS
      <3> QED
        BY <1>0, <1>2, <2>1, <2>3, <2>4, <2>8, <3>2, <3>3
    <2>9. CASE pc' # "ready"
      <3>1. Held' = <<>>
        BY <1>0, <2>3, <2>7, <2>9 DEF HeldInv
      <3>2. Returned' = Returned
        BY <2>1, <2>9 DEF Returned
      <3> QED
        BY <1>1, <2>3, <2>4, <2>9, <3>1, <3>2
    <2> QED
      BY <2>8, <2>9
  <1>10. CASE FrameSent
    <2>1. Stream' = Stream
      BY <1>10, PagesGo DEF FrameSent
    <2>2. /\ pc = "sending" /\ pc' = "ready" /\ buf = heard /\ buf # EndOfSpeech
          /\ UNCHANGED <<buf, heard>> /\ Returns(buf, <<>>)
      BY <1>10 DEF FrameSent, Returns, CallInv, Inv, StreamInv
    <2>3. Held' = Append(Held, heard)
      <3>1. ~NothingSent'
        <4>1. <<>> \o <<>> = <<>> /\ Len(<<>>) = 0
          BY EmptySeq, ConcatEmptySeq
        <4>2. Len(Stream') >= 3
          BY <2>1, <2>2 DEF Inv, StreamInv, Feeding, GrownTo
        <4>3. NothingSent' => Stream' = <<>>
          BY <4>1 DEF NothingSent, Stream
        <4> QED
          BY <4>1, <4>2, <4>3
      <3> QED
        BY <1>0, <2>1, <2>2, <3>1 DEF HeldInv
    <2> QED
      BY <1>2, <2>2, <2>3
  <1>11. CASE FrameLost
    <2>1. /\ pc = "sending" /\ pc' = "ready" /\ buf = heard /\ buf # EndOfSpeech
          /\ UNCHANGED <<buf, heard>> /\ Returns(buf, <<>>) /\ Clear
      BY <1>11 DEF FrameLost, Returns, CallInv, Inv, StreamInv
    <2>2. Held' = <<>>
      BY <2>1, HeldCleared
    <2> QED
      BY <1>2, <2>1, <2>2
  <1>12. CASE EndLost
    <2>1. Held' = <<>>
      BY <1>12, HeldCleared DEF EndLost
    <2>2. Returned' = Returned /\ said' = said
      BY <1>12 DEF EndLost, Returned, Inv, StreamInv
    <2> QED
      BY <2>1, <2>2 DEF Recogniser!Lose
  <1>13. CASE Closed
    <2>1. /\ pc = "closing" /\ buf = EndOfSpeech /\ UNCHANGED <<buf, heard>>
          /\ Returns(buf, sentence) /\ pc' = "ready" /\ Clear
      BY <1>13 DEF Closed, Returns, Inv, StreamInv
    <2>2. Held' = <<>>
      BY <2>1, HeldCleared
    <2>3. Stream = service
      BY <2>1, StreamType DEF CallInv, Inv
    <2>4. sentence \in {Held, <<>>}
      BY <1>0, <2>1, <2>3 DEF HeldInv, CallInv
    <2> QED
      BY <1>3, <2>1, <2>2, <2>4
  <1>14. CASE UNCHANGED vars
    <2>1. Held' = Held /\ Returned' = Returned
      BY <1>14 DEF vars, Held, Returned, Stream
    <2> QED
      BY <1>1, <1>14, <2>1 DEF vars
  <1> QED
    BY <1>5, <1>6, <1>7, <1>8, <1>9, <1>10, <1>11, <1>12, <1>13, <1>14 DEF Next, Awaits, Ended

\* BytedanceV2 keeps what every recogniser promises to asr_loop, whatever breaks
\* at whichever co_await: a text holds frames handed over since the last end mark
\* only, in order, and all since the connection was opened.
THEOREM Implementation == Spec => ImplementsRecogniser
  <1>1. Init => Recogniser!Init
    <2> SUFFICES ASSUME Init PROVE Recogniser!Init
      OBVIOUS
    <2>1. Held = <<>>
      <3>1. <<>> \o <<>> = <<>>
        BY EmptySeq, ConcatEmptySeq
      <3>2. Stream = <<>>
        BY <3>1 DEF Init, Stream
      <3> QED
        BY <3>2, NoBody DEF Held
    <2> QED
      BY <2>1 DEF Init, Recogniser!Init, Returned
  <1> QED
    BY <1>1, InvInit, InvStep, CallInit, CallStep, RecogniserStep, PTL
       DEF Spec, ImplementsRecogniser, Recogniser!Spec

-----------------------------------------------------------------------------
(* Induction and recursion up to a number *)

\* What holds of 0 and passes from each number to the next one holds up to n: else
\* the intervals that reach what it fails for would have no smallest one.
LEMMA UpTo ==
    ASSUME NEW n \in Nat, NEW T, 0 \in T, \A i \in 1..n : i - 1 \in T => i \in T
    PROVE  0..n \subseteq T
  <1>. DEFINE Fails == {i \in 0..n : i \notin T}
              Reach(i) == 0..i
              Reaches == {Reach(i) : i \in Fails}
  <1>1. SUFFICES ASSUME Fails # {} PROVE FALSE
    OBVIOUS
  <1>2. Reaches \subseteq FiniteSubsetsOf(Nat) /\ Reaches # {}
    <2>1. \A i \in Fails : IsFiniteSet(Reach(i)) /\ Reach(i) \subseteq Nat
      BY FS_Interval
    <2>. QED  BY <1>1, <2>1 DEF FiniteSubsetsOf
  <1>3. PICK X \in Reaches : \A Y \in Reaches : <<Y, X>> \notin StrictSubsetOrdering(Nat)
    <2>1. IsWellFoundedOn(StrictSubsetOrdering(Nat), FiniteSubsetsOf(Nat))
      BY FS_StrictSubsetOrderingWellFounded
    <2>. HIDE DEF Reaches
    <2>. QED  BY <1>2, <2>1, WFMin
  <1>4. PICK i \in Fails : X = Reach(i)
    BY <1>3
  <1>5. i \in 1..n /\ i - 1 \in Fails
    OBVIOUS
  <1>6. /\ Reach(i - 1) \subseteq Reach(i) /\ Reach(i - 1) # Reach(i)
        /\ Reach(i - 1) \in SUBSET Nat /\ Reach(i) \in SUBSET Nat
    BY <1>5
  <1>7. Reach(i - 1) \in Reaches
    BY <1>5
  <1>. HIDE DEF Reach, Reaches
  <1>. QED  BY <1>3, <1>4, <1>6, <1>7 DEF StrictSubsetOrdering

\* Rules from each number up to n and a value to the next one.
Rules(n, V) == [(1..n) \X V -> V]
Obeys(f, n, base, rule) ==
    f[0] = base /\ \A i \in 1..n : f[i] = rule[<<i, f[i - 1]>>]

\* A value for 0 and a rule define a function.
LEMMA Recursion ==
    ASSUME NEW n \in Nat, NEW V, NEW base \in V, NEW rule \in Rules(n, V)
    PROVE  \E f \in [0..n -> V] : Obeys(f, n, base, rule)
  <1>. DEFINE Defined(k) == \E f \in [0..k -> V] :
                f[0] = base /\ \A i \in 1..k : f[i] = rule[<<i, f[i - 1]>>]
              T == {k \in 0..n : Defined(k)}
  <1>. USE DEF Rules, Obeys
  <1>1. 0 \in T
    <2>. DEFINE g == [i \in 0..0 |-> base]
    <2>1. g \in [0..0 -> V] /\ g[0] = base /\ \A i \in 1..0 : FALSE
      OBVIOUS
    <2>. HIDE DEF g
    <2>2. Defined(0)
      BY <2>1
    <2>. QED  BY <2>2
  <1>2. ASSUME NEW k \in 1..n, k - 1 \in T PROVE k \in T
    <2>1. PICK f \in [0..k - 1 -> V] :
            f[0] = base /\ \A i \in 1..k - 1 : f[i] = rule[<<i, f[i - 1]>>]
      BY <1>2
    <2>. DEFINE g == [i \in 0..k |-> IF i = k THEN rule[<<k, f[k - 1]>>] ELSE f[i]]
    <2>2. f[k - 1] \in V /\ rule[<<k, f[k - 1]>>] \in V
      <3>1. f[k - 1] \in V
        BY <2>1
      <3>. QED  BY <3>1
    <2>3. g \in [0..k -> V]
      BY <2>1, <2>2
    <2>4. g[0] = base
      BY <2>1
    <2>5. ASSUME NEW i \in 1..k PROVE g[i] = rule[<<i, g[i - 1]>>]
      <3>1. g[i - 1] = f[i - 1]
        OBVIOUS
      <3>2. CASE i = k
        <4>1. g[k] = rule[<<k, f[k - 1]>>]
          OBVIOUS
        <4>. HIDE DEF g
        <4>. QED  BY <3>1, <3>2, <4>1
      <3>3. CASE i # k
        <4>1. g[i] = f[i] /\ i \in 1..k - 1
          BY <3>3
        <4>. QED  BY <2>1, <3>1, <4>1
      <3>. QED  BY <3>2, <3>3
    <2>. HIDE DEF g
    <2>. QED  BY <2>3, <2>4, <2>5
  <1>3. 0..n \subseteq T
    <2>. HIDE DEF T
    <2>. QED  BY <1>1, <1>2, UpTo
  <1>4. n \in 0..n
    OBVIOUS
  <1>. QED  BY <1>3, <1>4

-----------------------------------------------------------------------------
(* Integrate and fire *)

\* Weights, and states of CIF.
Alpha == 0..P!cif_threshold
Accs == [integrate : 0..P!cif_threshold - 1, fired : Nat]

\* What has been integrated: tokens and the rest.
Sum(acc) == P!cif_threshold * acc.fired + acc.integrate

\* Firing keeps the integral.
LEMMA FireKeeps ==
    ASSUME NEW acc \in Accs, NEW alpha \in Alpha
    PROVE  P!Fire(acc, alpha) \in Accs /\ Sum(P!Fire(acc, alpha)) = Sum(acc) + alpha
  <1>. USE DEF P!cif_threshold
  <1>1. /\ acc.integrate \in 0..19 /\ acc.fired \in Nat /\ alpha \in 0..20
        /\ acc = [integrate |-> acc.integrate, fired |-> acc.fired]
    BY DEF Accs, Alpha
  <1>2. CASE alpha + acc.integrate < P!cif_threshold
    <2>1. P!Fire(acc, alpha) = [integrate |-> acc.integrate + alpha, fired |-> acc.fired]
      BY <1>1, <1>2 DEF P!Fire
    <2>2. acc.integrate + alpha \in 0..19
      BY <1>1, <1>2
    <2>. QED  BY <1>1, <2>1, <2>2 DEF Accs, Sum
  <1>3. CASE ~(alpha + acc.integrate < P!cif_threshold)
    <2>1. P!Fire(acc, alpha) = [integrate |-> acc.integrate + (alpha - 20), fired |-> acc.fired + 1]
      BY <1>1, <1>3 DEF P!Fire
    <2>2. acc.integrate + (alpha - 20) \in 0..19
      BY <1>1, <1>3
    <2>. QED  BY <1>1, <2>1, <2>2 DEF Accs, Sum
  <1>. QED  BY <1>2, <1>3

\* Integrate goes from value to value.
LEMMA Integrating ==
    ASSUME NEW alphas \in Seq(Alpha), NEW start \in 0..P!cif_threshold - 1
    PROVE  \E acc \in [0..Len(alphas) -> Accs] :
             /\ acc[0] = [integrate |-> start, fired |-> 0]
             /\ \A i \in 1..Len(alphas) : acc[i] = P!Fire(acc[i - 1], alphas[i])
             /\ P!Integrate(alphas, start) = acc[Len(alphas)]
  <1>1. PICK n \in Nat : n = Len(alphas)
    BY LenProperties
  <1>. DEFINE base == [integrate |-> start, fired |-> 0]
              Follows(h) == h = [i \in 0..n |-> IF i = 0 THEN base ELSE P!Fire(h[i - 1], alphas[i])]
              acc == CHOOSE h : Follows(h)
              rule == [x \in (1..n) \X Accs |-> P!Fire(x[2], alphas[x[1]])]
  <1>2. base \in Accs
    BY DEF Accs
  <1>3. \A i \in 1..n : alphas[i] \in Alpha
    BY <1>1, ElementOfSeq
  <1>4. rule \in [(1..n) \X Accs -> Accs]
    BY <1>3, FireKeeps
  <1>5. PICK f \in [0..n -> Accs] :
          f[0] = base /\ \A i \in 1..n : f[i] = rule[<<i, f[i - 1]>>]
    <2>1. \E f \in [0..n -> Accs] : Obeys(f, n, base, rule)
      <3>1. rule \in Rules(n, Accs)
        BY <1>4 DEF Rules
      <3>. HIDE DEF base, rule
      <3>. QED  BY <1>2, <3>1, Recursion
    <2>. HIDE DEF base, rule
    <2>. QED  BY <2>1 DEF Obeys
  <1>6. ASSUME NEW i \in 1..n PROVE f[i] = P!Fire(f[i - 1], alphas[i])
    <2>1. i - 1 \in 0..n
      OBVIOUS
    <2>2. <<i, f[i - 1]>> \in (1..n) \X Accs
      BY <1>5, <2>1
    <2>3. rule[<<i, f[i - 1]>>] = P!Fire(f[i - 1], alphas[i])
      BY <2>2
    <2>. QED  BY <1>5, <2>3
  <1>7. Follows(f)
    <2>. DEFINE g == [i \in 0..n |-> IF i = 0 THEN base ELSE P!Fire(f[i - 1], alphas[i])]
    <2>1. \A i \in 0..n : g[i] = f[i]
      <3>. HIDE DEF base
      <3>. QED  BY <1>5, <1>6
    <2>2. DOMAIN g = 0..n /\ DOMAIN f = 0..n
      OBVIOUS
    <2>. QED  BY <2>1, <2>2
  <1>8. Follows(acc)
    <2>. HIDE DEF Follows
    <2>. QED  BY <1>7
  <1>9. P!Integrate(alphas, start) = acc[n]
    BY <1>1 DEF P!Integrate
  <1>. HIDE DEF acc, base, rule
  <1>10. acc[0] = base /\ \A i \in 1..n : acc[i] = P!Fire(acc[i - 1], alphas[i])
    BY <1>8
  <1>11. \A i \in 0..n : acc[i] \in Accs
    <2>. DEFINE T == {i \in 0..n : acc[i] \in Accs}
    <2>1. 0 \in T
      BY <1>2, <1>10
    <2>2. ASSUME NEW i \in 1..n, i - 1 \in T PROVE i \in T
      <3>1. acc[i - 1] \in Accs /\ alphas[i] \in Alpha
        BY <1>3, <2>2
      <3>2. P!Fire(acc[i - 1], alphas[i]) \in Accs
        BY <3>1, FireKeeps
      <3>3. i \in 0..n /\ acc[i] = P!Fire(acc[i - 1], alphas[i])
        BY <1>10
      <3>. QED  BY <3>2, <3>3
    <2>3. 0..n \subseteq T
      <3>. HIDE DEF T
      <3>. QED  BY <2>1, <2>2, UpTo
    <2>. QED  BY <2>3
  <1>12. acc \in [0..n -> Accs]
    BY <1>8, <1>11
  <1>. QED  BY <1>1, <1>9, <1>10, <1>12 DEF base

-----------------------------------------------------------------------------
(* Rows and their weights *)

\* The rows, those of zeros among them.
Row == [pos : Int, frames : Seq(1..MaxUnits)]

\* A row weighs what the encoder may give it.
LEMMA Weighs ==
    ASSUME weights \in Weightings, NEW row \in Row
    PROVE  P!Weight(row) \in Alpha
  <1>1. weights \in Seq(Alpha) /\ weights # <<>>
    BY ParaformerAssumption DEF Alpha
  <1>2. PICK n \in Nat \ {0} : n = Len(weights)
    BY <1>1, EmptySeq, LenProperties
  <1>3. row.pos \in Int
    BY DEF Row
  <1>4. (row.pos % n) + 1 \in 1..n
    BY <1>3
  <1>5. weights[(row.pos % n) + 1] \in Alpha
    BY <1>1, <1>2, <1>4, ElementOfSeq
  <1>. QED  BY <1>2, <1>5 DEF P!Weight

\* Total goes from row to row.
LEMMA Totalling ==
    ASSUME weights \in Weightings, NEW rows \in Seq(Row)
    PROVE  \E sum \in [0..Len(rows) -> Nat] :
             /\ sum[0] = 0
             /\ \A i \in 1..Len(rows) : sum[i] = sum[i - 1] + P!Weight(rows[i])
             /\ P!Total(rows) = sum[Len(rows)]
  <1>1. PICK n \in Nat : n = Len(rows)
    BY LenProperties
  <1>. DEFINE Follows(h) ==
                h = [i \in 0..n |-> IF i = 0 THEN 0 ELSE h[i - 1] + P!Weight(rows[i])]
              sum == CHOOSE h : Follows(h)
              rule == [x \in (1..n) \X Nat |-> x[2] + P!Weight(rows[x[1]])]
  <1>3. \A i \in 1..n : P!Weight(rows[i]) \in Nat
    BY <1>1, ElementOfSeq, Weighs DEF Alpha
  <1>4. rule \in Rules(n, Nat)
    BY <1>3 DEF Rules
  <1>5. PICK f \in [0..n -> Nat] : f[0] = 0 /\ \A i \in 1..n : f[i] = rule[<<i, f[i - 1]>>]
    <2>1. \E f \in [0..n -> Nat] : Obeys(f, n, 0, rule)
      <3>. HIDE DEF rule
      <3>. QED  BY <1>4, Recursion
    <2>. HIDE DEF rule
    <2>. QED  BY <2>1 DEF Obeys
  <1>6. ASSUME NEW i \in 1..n PROVE f[i] = f[i - 1] + P!Weight(rows[i])
    <2>1. <<i, f[i - 1]>> \in (1..n) \X Nat
      BY <1>5
    <2>2. rule[<<i, f[i - 1]>>] = f[i - 1] + P!Weight(rows[i])
      BY <2>1
    <2>. QED  BY <1>5, <2>2
  <1>7. Follows(f)
    <2>. DEFINE g == [i \in 0..n |-> IF i = 0 THEN 0 ELSE f[i - 1] + P!Weight(rows[i])]
    <2>1. \A i \in 0..n : g[i] = f[i]
      BY <1>5, <1>6
    <2>2. DOMAIN g = 0..n /\ DOMAIN f = 0..n
      OBVIOUS
    <2>. QED  BY <2>1, <2>2
  <1>8. Follows(sum)
    <2>. HIDE DEF Follows
    <2>. QED  BY <1>7
  <1>9. P!Total(rows) = sum[n]
    BY <1>1 DEF P!Total
  <1>. HIDE DEF sum, rule
  <1>10. sum[0] = 0 /\ \A i \in 1..n : sum[i] = sum[i - 1] + P!Weight(rows[i])
    BY <1>8
  <1>11. \A i \in 0..n : sum[i] \in Nat
    <2>. DEFINE T == {i \in 0..n : sum[i] \in Nat}
    <2>1. 0 \in T
      BY <1>10
    <2>2. ASSUME NEW i \in 1..n, i - 1 \in T PROVE i \in T
      BY <1>3, <1>10, <2>2
    <2>3. 0..n \subseteq T
      <3>. HIDE DEF T
      <3>. QED  BY <2>1, <2>2, UpTo
    <2>. QED  BY <2>3
  <1>12. sum \in [0..n -> Nat]
    BY <1>8, <1>11
  <1>. QED  BY <1>1, <1>9, <1>10, <1>12

\* No rows weigh nothing.
LEMMA TotalOfNone == weights \in Weightings => P!Total(<<>>) = 0
  <1>1. <<>> \in Seq(Row) /\ Len(<<>>) = 0
    BY EmptySeq
  <1>. QED  BY <1>1, Totalling

\* Rows weigh a number.
LEMMA Totals ==
    ASSUME weights \in Weightings, NEW rows \in Seq(Row)
    PROVE  P!Total(rows) \in Nat
  <1>1. PICK n \in Nat : n = Len(rows)
    BY LenProperties
  <1>2. PICK sum \in [0..n -> Nat] : P!Total(rows) = sum[n]
    BY <1>1, Totalling
  <1>3. n \in 0..n
    OBVIOUS
  <1>. QED  BY <1>2, <1>3

\* What one row more adds.
LEMMA TotalOfOneMore ==
    ASSUME weights \in Weightings, NEW rows \in Seq(Row), NEW row \in Row
    PROVE  P!Total(Append(rows, row)) = P!Total(rows) + P!Weight(row)
  <1>2. PICK n \in Nat : n = Len(rows)
    BY LenProperties
  <1>. DEFINE more == Append(rows, row)
  <1>3. more \in Seq(Row) /\ Len(more) = n + 1 /\ more[n + 1] = row
        /\ \A i \in 1..n : more[i] = rows[i]
    BY <1>2, AppendProperties
  <1>. HIDE DEF more
  <1>4. PICK s \in [0..n -> Nat] :
          s[0] = 0 /\ (\A i \in 1..n : s[i] = s[i - 1] + P!Weight(rows[i])) /\ P!Total(rows) = s[n]
    BY <1>2, Totalling
  <1>5. PICK t \in [0..n + 1 -> Nat] :
          /\ t[0] = 0 /\ (\A i \in 1..n + 1 : t[i] = t[i - 1] + P!Weight(more[i]))
          /\ P!Total(more) = t[n + 1]
    BY <1>3, Totalling
  <1>6. 0..n \subseteq {i \in 0..n : s[i] = t[i]}
    <2>. DEFINE T == {i \in 0..n : s[i] = t[i]}
    <2>1. 0 \in T
      BY <1>4, <1>5
    <2>2. ASSUME NEW i \in 1..n, i - 1 \in T PROVE i \in T
      <3>1. i \in 1..n + 1 /\ s[i - 1] = t[i - 1] /\ i \in 0..n
        BY <2>2
      <3>2. s[i] = s[i - 1] + P!Weight(rows[i]) /\ t[i] = t[i - 1] + P!Weight(more[i])
        BY <1>4, <1>5, <3>1
      <3>. QED  BY <1>3, <3>1, <3>2
    <2>. HIDE DEF T
    <2>3. 0..n \subseteq T
      BY <2>1, <2>2, UpTo
    <2>. QED  BY <2>3 DEF T
  <1>7. s[n] = t[n]
    BY <1>6
  <1>8. t[n + 1] = t[n] + P!Weight(more[n + 1])
    <2>1. n + 1 \in 1..n + 1 /\ (n + 1) - 1 = n
      OBVIOUS
    <2>. QED  BY <1>5, <2>1
  <1>. QED  BY <1>3, <1>4, <1>5, <1>7, <1>8 DEF more

\* The least of two numbers.
LEMMA MinOfTwo ==
    ASSUME NEW a \in Int, NEW b \in Int
    PROVE  P!Min({a, b}) = IF a <= b THEN a ELSE b
  <1>1. \E x \in {a, b} : \A y \in {a, b} : x <= y
    OBVIOUS
  <1>2. P!Min({a, b}) \in {a, b} /\ \A y \in {a, b} : P!Min({a, b}) <= y
    BY <1>1 DEF P!Min
  <1>. QED  BY <1>2

\* How far the middle of a chunk of k rows goes.
MiddleEnd(k) == IF k <= 15 THEN k ELSE 15

\* Centre goes from row to row.
LEMMA Hearing ==
    ASSUME NEW chunk \in Seq(Row)
    PROVE  \E hears \in [0..Len(chunk) -> Seq(Row)] :
             /\ hears[0] = <<>>
             /\ \A i \in 1..Len(chunk) :
                  hears[i] = IF P!InCentre(i) THEN Append(hears[i - 1], chunk[i])
                             ELSE hears[i - 1]
             /\ P!Centre(chunk) = hears[Len(chunk)]
  <1>1. PICK n \in Nat : n = Len(chunk)
    BY LenProperties
  <1>. DEFINE part(i) == SubSeq(chunk, 6, MiddleEnd(i))
              hears == [i \in 0..n |-> part(i)]
  <1>2. \A i \in 1..n : chunk[i] \in Row
    BY <1>1, ElementOfSeq
  <1>3. ASSUME NEW i \in 0..n
        PROVE  /\ part(i) \in Seq(Row)
               /\ Len(part(i)) = IF 6 <= MiddleEnd(i) THEN MiddleEnd(i) - 5 ELSE 0
               /\ \A j \in 1..MiddleEnd(i) - 5 : part(i)[j] = chunk[5 + j]
    <2>1. PICK k \in Nat : k = MiddleEnd(i) /\ k <= n
      BY DEF MiddleEnd
    <2>2. \A j \in 6..k : chunk[j] \in Row
      BY <1>2, <2>1
    <2>3. /\ SubSeq(chunk, 6, k) \in Seq(Row)
          /\ Len(SubSeq(chunk, 6, k)) = IF 6 <= k THEN k - 6 + 1 ELSE 0
          /\ \A j \in 1..k - 6 + 1 : SubSeq(chunk, 6, k)[j] = chunk[6 + j - 1]
      BY <2>2, SubSeqProperties
    <2>4. k - 6 + 1 = k - 5 /\ \A j \in 1..k - 5 : 6 + j - 1 = 5 + j
      OBVIOUS
    <2>. QED  BY <2>1, <2>3, <2>4
  <1>4. part(0) = <<>>
    <2>1. 0 \in 0..n /\ ~(6 <= MiddleEnd(0))
      BY DEF MiddleEnd
    <2>2. part(0) \in Seq(Row) /\ Len(part(0)) = 0
      BY <1>3, <2>1
    <2>. HIDE DEF part
    <2>. QED  BY <2>2, EmptySeq
  <1>5. ASSUME NEW i \in 1..n
        PROVE  part(i) = IF P!InCentre(i) THEN Append(part(i - 1), chunk[i]) ELSE part(i - 1)
    <2>1. i \in 0..n /\ i - 1 \in 0..n
      OBVIOUS
    <2>2. CASE ~P!InCentre(i)
      <3>1. CASE i <= 5
        <4>1. ~(6 <= MiddleEnd(i)) /\ ~(6 <= MiddleEnd(i - 1))
          BY <3>1 DEF MiddleEnd
        <4>2. part(i) \in Seq(Row) /\ Len(part(i)) = 0
              /\ part(i - 1) \in Seq(Row) /\ Len(part(i - 1)) = 0
          BY <1>3, <2>1, <4>1
        <4>. HIDE DEF part
        <4>. QED  BY <2>2, <4>2, EmptySeq
      <3>2. CASE i > 15
        <4>1. MiddleEnd(i) = 15 /\ MiddleEnd(i - 1) = 15
          BY <3>2 DEF MiddleEnd
        <4>. QED  BY <2>2, <4>1
      <3>3. i <= 5 \/ i > 15
        BY <2>2 DEF P!InCentre, P!chunk_size
      <3>. QED  BY <3>1, <3>2, <3>3
    <2>3. CASE P!InCentre(i)
      <3>1. i \in 6..15 /\ MiddleEnd(i) = i /\ MiddleEnd(i - 1) = i - 1
        BY <2>3 DEF P!InCentre, P!chunk_size, MiddleEnd
      <3>. DEFINE before == part(i - 1)
      <3>2. /\ before \in Seq(Row) /\ Len(before) = i - 6
            /\ \A j \in 1..i - 6 : before[j] = chunk[5 + j]
        <4>1. (IF 6 <= i - 1 THEN i - 1 - 5 ELSE 0) = i - 6 /\ i - 1 - 5 = i - 6
          BY <3>1
        <4>. HIDE DEF part
        <4>. QED  BY <1>3, <2>1, <3>1, <4>1
      <3>3. /\ part(i) \in Seq(Row) /\ Len(part(i)) = i - 5
            /\ \A j \in 1..i - 5 : part(i)[j] = chunk[5 + j]
        <4>1. (IF 6 <= i THEN i - 5 ELSE 0) = i - 5
          BY <3>1
        <4>. HIDE DEF part
        <4>. QED  BY <1>3, <2>1, <3>1, <4>1
      <3>. HIDE DEF before
      <3>4. /\ Append(before, chunk[i]) \in Seq(Row) /\ Len(Append(before, chunk[i])) = i - 5
            /\ \A j \in 1..i - 5 : Append(before, chunk[i])[j] = chunk[5 + j]
        <4>1. PICK k \in Nat : k = i - 6
          BY <3>1
        <4>2. /\ Append(before, chunk[i]) \in Seq(Row)
              /\ Len(Append(before, chunk[i])) = k + 1
              /\ Append(before, chunk[i])[k + 1] = chunk[i]
              /\ \A j \in 1..k : Append(before, chunk[i])[j] = before[j]
          BY <1>2, <3>2, <4>1, AppendProperties
        <4>3. k + 1 = i - 5 /\ 5 + (k + 1) = i /\ \A j \in 1..i - 5 : j \in 1..k \/ j = k + 1
          BY <4>1
        <4>. QED  BY <3>2, <4>1, <4>2, <4>3
      <3>5. part(i) = Append(before, chunk[i])
        <4>. HIDE DEF part
        <4>. QED  BY <3>3, <3>4, SeqEqual
      <3>. QED  BY <2>3, <3>5 DEF before
    <2>. QED  BY <2>2, <2>3
  <1>6. P!Centre(chunk) = part(n)
    <2>1. P!Min({15, n}) = MiddleEnd(n)
      BY MinOfTwo DEF MiddleEnd
    <2>2. P!chunk_size[1] + 1 = 6 /\ P!chunk_size[1] + P!chunk_size[2] = 15
      BY DEF P!chunk_size
    <2>. QED  BY <1>1, <2>1, <2>2 DEF P!Centre
  <1>7. hears \in [0..n -> Seq(Row)]
    <2>. HIDE DEF part
    <2>. QED  BY <1>3
  <1>8. hears[0] = <<>> /\ P!Centre(chunk) = hears[n]
    <2>1. 0 \in 0..n /\ n \in 0..n
      OBVIOUS
    <2>2. hears[0] = part(0) /\ hears[n] = part(n)
      BY <2>1
    <2>. HIDE DEF hears, part
    <2>. QED  BY <1>4, <1>6, <2>2
  <1>9. ASSUME NEW i \in 1..n
        PROVE  hears[i] = IF P!InCentre(i) THEN Append(hears[i - 1], chunk[i]) ELSE hears[i - 1]
    <2>1. i \in 0..n /\ i - 1 \in 0..n
      OBVIOUS
    <2>2. hears[i] = part(i) /\ hears[i - 1] = part(i - 1)
      BY <2>1
    <2>. HIDE DEF hears, part
    <2>. QED  BY <1>5, <2>2
  <1>. HIDE DEF hears
  <1>. QED  BY <1>1, <1>7, <1>8, <1>9

\* One more at the end of the second sequence is one more at the end of both.
LEMMA OneMore ==
    \A s, t \in Seq(Row) : \A e \in Row : s \o Append(t, e) = Append(s \o t, e)
  <1>. SUFFICES ASSUME NEW s \in Seq(Row), NEW t \in Seq(Row), NEW e \in Row
                PROVE  s \o Append(t, e) = Append(s \o t, e)
    OBVIOUS
  <1>1. <<e>> \in Seq(Row) /\ s \o t \in Seq(Row)
    BY ConcatProperties
  <1>2. Append(t, e) = t \o <<e>> /\ Append(s \o t, e) = (s \o t) \o <<e>>
    BY <1>1, AppendIsConcat
  <1>. QED  BY <1>1, <1>2, ConcatAssociative

\* What has been integrated is a number.
LEMMA SumIsNat == ASSUME NEW x \in Accs PROVE Sum(x) \in Nat
  <1>1. x.fired \in Nat /\ x.integrate \in 0..19
    BY DEF Accs, P!cif_threshold
  <1>2. x.integrate \in Nat
    BY <1>1
  <1>. QED  BY <1>1, <1>2 DEF Sum, P!cif_threshold

\* CIF over a chunk: what it integrates is the weight of the rows in its middle.
LEMMA Searching ==
    ASSUME weights \in Weightings, NEW chunk \in Seq(Row), NEW rows \in Seq(Row), NEW m,
           m.alphas_cache_ \in 0..P!cif_threshold - 1, m.is_last_chunk \in BOOLEAN
    PROVE  /\ P!CifSearch(m, chunk) \in Accs /\ P!Centre(chunk) \in Seq(Row)
           /\ rows \o P!Centre(chunk) \in Seq(Row)
           /\ Sum(P!CifSearch(m, chunk)) + P!Total(rows)
                = m.alphas_cache_ + P!Total(rows \o P!Centre(chunk))
                  + IF m.is_last_chunk THEN P!tail_alphas ELSE 0
  <1>1. PICK n \in Nat : n = Len(chunk)
    BY LenProperties
  <1>2. PICK a \in 0..P!cif_threshold - 1 : a = m.alphas_cache_
    OBVIOUS
  <1>. DEFINE alphas == [i \in DOMAIN chunk |-> IF P!InCentre(i) THEN P!Weight(chunk[i]) ELSE 0]
              tail == IF m.is_last_chunk THEN <<P!tail_alphas>> ELSE <<>>
              all == alphas \o tail
              last1 == IF m.is_last_chunk THEN 1 ELSE 0
              extra == IF m.is_last_chunk THEN P!tail_alphas ELSE 0
  <1>3. DOMAIN chunk = 1..n /\ \A i \in 1..n : chunk[i] \in Row
    BY <1>1, ElementOfSeq
  <1>4. alphas \in Seq(Alpha) /\ Len(alphas) = n
    <2>1. \A i \in 1..n : alphas[i] \in Alpha
      <3>1. \A i \in 1..n : P!Weight(chunk[i]) \in Alpha
        BY <1>3, Weighs
      <3>2. 0 \in Alpha
        BY DEF Alpha, P!cif_threshold
      <3>. QED  BY <1>3, <3>1, <3>2
    <2>2. alphas = [i \in 1..n |-> alphas[i]]
      BY <1>3
    <2>. HIDE DEF alphas
    <2>3. alphas \in [1..n -> Alpha]
      BY <2>1, <2>2
    <2>4. alphas \in Seq(Alpha)
      BY <2>3, SeqDef
    <2>. QED  BY <2>3, <2>4, LenProperties
  <1>5. tail \in Seq(Alpha) /\ Len(tail) = last1
    <2>1. 9 \in Alpha
      BY DEF Alpha, P!cif_threshold
    <2>2. CASE m.is_last_chunk
      <3>1. tail = <<9>> /\ last1 = 1
        BY <2>2 DEF P!tail_alphas
      <3>. HIDE DEF tail
      <3>. QED  BY <2>1, <3>1
    <2>3. CASE ~m.is_last_chunk
      <3>1. tail = <<>> /\ last1 = 0
        BY <2>3
      <3>. HIDE DEF tail
      <3>. QED  BY <3>1, EmptySeq
    <2>. QED  BY <2>2, <2>3
  <1>6. last1 \in {0, 1} /\ (last1 = 0 <=> ~m.is_last_chunk)
    OBVIOUS
  <1>7. /\ all \in Seq(Alpha) /\ Len(all) = n + last1
        /\ \A i \in 1..n : all[i] = alphas[i]
        /\ last1 = 1 => all[n + 1] = P!tail_alphas
    <2>1. all \in Seq(Alpha) /\ Len(all) = n + last1
      <3>. HIDE DEF alphas, tail, last1
      <3>. QED  BY <1>4, <1>5, ConcatProperties
    <2>2. \A i \in 1..n + last1 : all[i] = IF i <= n THEN alphas[i] ELSE tail[i - n]
      <3>. HIDE DEF alphas, tail, last1
      <3>. QED  BY <1>4, <1>5, ConcatProperties
    <2>3. \A i \in 1..n : all[i] = alphas[i]
      <3>. HIDE DEF alphas, tail, all, last1
      <3>. QED  BY <1>6, <2>2
    <2>4. last1 = 1 => all[n + 1] = P!tail_alphas
      <3>1. last1 = 1 => tail[1] = P!tail_alphas
        OBVIOUS
      <3>. HIDE DEF alphas, tail, all, last1
      <3>. QED  BY <2>2, <3>1
    <2>. QED  BY <2>1, <2>3, <2>4
  <1>8. P!CifSearch(m, chunk) = P!Integrate(all, a)
    BY <1>2 DEF P!CifSearch
  <1>9. \A i \in 1..n : alphas[i] = IF P!InCentre(i) THEN P!Weight(chunk[i]) ELSE 0
    BY <1>3
  <1>10. /\ m.is_last_chunk => extra = 9 /\ last1 = 1
         /\ ~m.is_last_chunk => extra = 0 /\ last1 = 0
    BY DEF P!tail_alphas
  <1>. HIDE DEF alphas, tail, all, last1
  <1>11. PICK acc \in [0..n + last1 -> Accs] :
           /\ acc[0] = [integrate |-> a, fired |-> 0]
           /\ \A i \in 1..n + last1 : acc[i] = P!Fire(acc[i - 1], all[i])
           /\ P!Integrate(all, a) = acc[n + last1]
    <2>1. \E acc \in [0..Len(all) -> Accs] :
            /\ acc[0] = [integrate |-> a, fired |-> 0]
            /\ \A i \in 1..Len(all) : acc[i] = P!Fire(acc[i - 1], all[i])
            /\ P!Integrate(all, a) = acc[Len(all)]
      BY <1>7, Integrating
    <2>2. PICK k : k = n + last1
      OBVIOUS
    <2>3. Len(all) = k
      BY <1>7, <2>2
    <2>4. \E acc \in [0..k -> Accs] :
            /\ acc[0] = [integrate |-> a, fired |-> 0]
            /\ \A i \in 1..k : acc[i] = P!Fire(acc[i - 1], all[i])
            /\ P!Integrate(all, a) = acc[k]
      BY <2>1, <2>3
    <2>. QED  BY <2>2, <2>4
  <1>12. PICK hears \in [0..n -> Seq(Row)] :
           /\ hears[0] = <<>>
           /\ \A i \in 1..n : hears[i] = IF P!InCentre(i) THEN Append(hears[i - 1], chunk[i])
                                         ELSE hears[i - 1]
           /\ P!Centre(chunk) = hears[n]
    BY <1>1, Hearing
  <1>13. \A i \in 0..n : /\ acc[i] \in Accs /\ Sum(acc[i]) \in Nat
                         /\ hears[i] \in Seq(Row) /\ rows \o hears[i] \in Seq(Row)
                         /\ P!Total(rows \o hears[i]) \in Nat
    <2>1. \A i \in 0..n : acc[i] \in Accs /\ hears[i] \in Seq(Row)
      <3>1. \A i \in 0..n : i \in 0..n + last1
        BY <1>6
      <3>. QED  BY <1>11, <1>12, <3>1
    <2>2. \A x \in Accs : Sum(x) \in Nat
      BY SumIsNat
    <2>3. \A h \in Seq(Row) : rows \o h \in Seq(Row)
      BY ConcatProperties
    <2>4. \A h \in Seq(Row) : P!Total(h) \in Nat
      BY Totals
    <2>. QED  BY <2>1, <2>2, <2>3, <2>4
  <1>14. P!Total(rows) \in Nat
    BY Totals
  <1>. DEFINE Agree(i) == Sum(acc[i]) + P!Total(rows) = a + P!Total(rows \o hears[i])
              T == {i \in 0..n : Agree(i)}
  <1>15. Agree(0)
    <2>1. Sum(acc[0]) = a
      BY <1>11 DEF Sum, P!cif_threshold
    <2>2. rows \o hears[0] = rows
      BY <1>12, ConcatEmptySeq
    <2>. QED  BY <1>14, <2>1, <2>2
  <1>16. ASSUME NEW i \in 1..n, Agree(i - 1) PROVE Agree(i)
    <2>1. i - 1 \in 0..n /\ i \in 0..n /\ i \in 1..n + last1
      BY <1>6
    <2>2. all[i] \in Alpha /\ all[i] = IF P!InCentre(i) THEN P!Weight(chunk[i]) ELSE 0
      BY <1>7, <1>9, <2>1, ElementOfSeq
    <2>3. Sum(acc[i]) = Sum(acc[i - 1]) + all[i]
      BY <1>11, <1>13, <2>1, <2>2, FireKeeps
    <2>4. P!Total(rows \o hears[i]) = P!Total(rows \o hears[i - 1]) + all[i]
      <3>1. CASE P!InCentre(i)
        <4>1. chunk[i] \in Row /\ hears[i - 1] \in Seq(Row) /\ rows \o hears[i - 1] \in Seq(Row)
          BY <1>3, <1>13, <2>1
        <4>2. rows \o hears[i] = Append(rows \o hears[i - 1], chunk[i])
          <5>1. hears[i] = Append(hears[i - 1], chunk[i])
            BY <1>12, <3>1
          <5>2. rows \o Append(hears[i - 1], chunk[i]) = Append(rows \o hears[i - 1], chunk[i])
            BY <4>1, OneMore
          <5>. QED  BY <5>1, <5>2
        <4>. QED  BY <2>2, <3>1, <4>1, <4>2, TotalOfOneMore
      <3>2. CASE ~P!InCentre(i)
        <4>1. all[i] = 0
          BY <2>2, <3>2
        <4>2. hears[i] = hears[i - 1]
          BY <1>12, <3>2
        <4>. QED  BY <1>13, <2>1, <4>1, <4>2
      <3>. QED  BY <3>1, <3>2
    <2>5. PICK x \in Nat, y \in Nat, z \in Nat, w \in Nat :
            /\ x = Sum(acc[i - 1]) /\ y = P!Total(rows \o hears[i - 1]) /\ z = all[i]
            /\ w = P!Total(rows)
      <3>1. all[i] \in Nat
        <4>1. Alpha \subseteq Nat
          BY DEF Alpha, P!cif_threshold
        <4>. QED  BY <2>2, <4>1
      <3>2. Sum(acc[i - 1]) \in Nat /\ P!Total(rows \o hears[i - 1]) \in Nat
        BY <1>13, <2>1
      <3>. QED  BY <1>14, <3>1, <3>2
    <2>6. a \in Nat
      BY DEF P!cif_threshold
    <2>7. x + w = a + y
      BY <1>16, <2>5
    <2>8. (x + z) + w = a + (y + z)
      BY <2>6, <2>7
    <2>. QED  BY <2>3, <2>4, <2>5, <2>8
  <1>17. Agree(n)
    <2>1. 0..n \subseteq T
      <3>1. 0 \in T
        BY <1>15
      <3>2. ASSUME NEW i \in 1..n, i - 1 \in T PROVE i \in T
        <4>1. Agree(i - 1) /\ i \in 0..n
          BY <3>2
        <4>2. Agree(i)
          <5>. HIDE DEF Agree
          <5>. QED  BY <1>16, <4>1
        <4>. QED  BY <4>1, <4>2
      <3>. HIDE DEF T
      <3>. QED  BY <3>1, <3>2, UpTo
    <2>2. n \in 0..n
      OBVIOUS
    <2>. QED  BY <2>1, <2>2
  <1>18. acc[n + last1] \in Accs /\ Sum(acc[n + last1]) = Sum(acc[n]) + extra
    <2>0. n + last1 \in 0..n + last1 /\ n \in 0..n + last1
      BY <1>6
    <2>1. CASE m.is_last_chunk
      <3>1. n + 1 \in 1..n + last1 /\ (n + 1) - 1 = n
        BY <1>10, <2>1
      <3>2. acc[n + 1] = P!Fire(acc[n], all[n + 1])
        BY <1>11, <3>1
      <3>3. all[n + 1] = 9 /\ 9 \in Alpha
        BY <1>7, <1>10, <2>1 DEF P!tail_alphas, Alpha, P!cif_threshold
      <3>4. acc[n] \in Accs
        BY <1>11, <2>0
      <3>. QED  BY <1>10, <2>1, <3>2, <3>3, <3>4, FireKeeps
    <2>2. CASE ~m.is_last_chunk
      <3>1. n + last1 = n /\ extra = 0 /\ n \in 0..n
        BY <1>10, <2>2
      <3>. HIDE DEF extra
      <3>. QED  BY <1>13, <3>1
    <2>. QED  BY <2>1, <2>2
  <1>19. P!CifSearch(m, chunk) = acc[n + last1]
    BY <1>8, <1>11
  <1>20. P!Centre(chunk) = hears[n] /\ hears[n] \in Seq(Row) /\ rows \o hears[n] \in Seq(Row)
    <2>1. n \in 0..n
      OBVIOUS
    <2>. QED  BY <1>12, <1>13, <2>1
  <1>21. Sum(acc[n + last1]) + P!Total(rows) = a + P!Total(rows \o hears[n]) + extra
    <2>1. n \in 0..n /\ a \in Nat /\ extra \in Nat
      BY <1>10 DEF P!cif_threshold
    <2>2. PICK x \in Nat, y \in Nat, w \in Nat :
            x = Sum(acc[n]) /\ y = P!Total(rows \o hears[n]) /\ w = P!Total(rows)
      BY <1>13, <1>14, <2>1
    <2>. HIDE DEF extra
    <2>. QED  BY <1>17, <1>18, <2>1, <2>2
  <1>. QED  BY <1>2, <1>18, <1>19, <1>20, <1>21

-----------------------------------------------------------------------------
(* Chunks *)

\* The units of audio, and the model as a record.
Unit == 1..MaxUnits
Caches == [reserve_waveforms_ : Nat, input_cache_ : Seq(Unit), lfr_splice_cache_ : Seq(Unit),
           start_idx_cache_ : Nat, is_first_chunk : BOOLEAN, is_last_chunk : BOOLEAN,
           alphas_cache_ : 0..P!cif_threshold - 1, feats_cache_ : Seq(Row), surplus : Nat,
           rows : Seq(Row), faulty : BOOLEAN, crashed : BOOLEAN, text : Nat]

\* The rows of an utterance have seven frames, those of zeros none.
IsWide(row) == row.frames = <<>> \/ Len(row.frames) = P!lfr_m
AreWide(rows) == \A i \in DOMAIN rows : IsWide(rows[i])

\* Unless a session has thrown, text and rest are what the rows weigh, and extra.
Integrated(m, extra) ==
    ~m.faulty => /\ m.surplus = 0
                 /\ P!cif_threshold * m.text + m.alphas_cache_ = P!Total(m.rows) + extra

\* What ForwardChunk leaves alone.
SameFeatures(m, n) ==
    /\ m.reserve_waveforms_ = n.reserve_waveforms_ /\ m.input_cache_ = n.input_cache_
    /\ m.lfr_splice_cache_ = n.lfr_splice_cache_ /\ m.start_idx_cache_ = n.start_idx_cache_
    /\ m.is_first_chunk = n.is_first_chunk

\* A chunk adds the weight of the rows in its middle, and the tail if it is the last.
LEMMA Forwarding ==
    ASSUME weights \in Weightings, NEW m \in Caches, NEW chunk \in Seq(Row), NEW fault,
           NEW r, r = P!ForwardChunk([m |-> m, chunk |-> chunk], fault)
    PROVE  /\ r \in Caches /\ SameFeatures(r, m)
           /\ r.is_last_chunk = m.is_last_chunk /\ r.feats_cache_ = m.feats_cache_
           /\ AreWide(chunk) /\ Integrated(m, 0) =>
                Integrated(r, IF m.is_last_chunk THEN P!tail_alphas ELSE 0)
           /\ ~AreWide(chunk) /\ ~r.faulty => r = m
  <1>. DEFINE a == [m |-> m, chunk |-> chunk]
  <1>1. CASE fault = "encoder"
    <2>1. r = [m EXCEPT !.faulty = TRUE]
      BY <1>1 DEF P!ForwardChunk
    <2>. QED  BY <2>1 DEF Caches, SameFeatures, Integrated
  <1>2. CASE fault # "encoder" /\ ~AreWide(chunk)
    <2>1. r = m
      BY <1>2 DEF P!ForwardChunk, AreWide, IsWide
    <2>. QED  BY <1>2, <2>1 DEF SameFeatures
  <1>3. CASE fault # "encoder" /\ AreWide(chunk)
    <2>. DEFINE cif == P!CifSearch(m, chunk)
                weighed == [m EXCEPT !.alphas_cache_ = cif.integrate,
                                     !.rows = @ \o P!Centre(chunk)]
                extra == IF m.is_last_chunk THEN P!tail_alphas ELSE 0
    <2>1. r = P!Decoded(weighed, cif.fired, fault)
      BY <1>3 DEF P!ForwardChunk, AreWide, IsWide
    <2>2. /\ m.alphas_cache_ \in 0..P!cif_threshold - 1 /\ m.is_last_chunk \in BOOLEAN
          /\ m.rows \in Seq(Row)
      BY DEF Caches
    <2>3. /\ cif \in Accs /\ m.rows \o P!Centre(chunk) \in Seq(Row)
          /\ Sum(cif) + P!Total(m.rows)
                = m.alphas_cache_ + P!Total(m.rows \o P!Centre(chunk)) + extra
      BY <2>2, Searching
    <2>4. extra \in Nat
      BY DEF P!tail_alphas
    <2>. HIDE DEF cif, extra
    <2>5. PICK c \in 0..P!cif_threshold - 1, f \in Nat : c = cif.integrate /\ f = cif.fired
      BY <2>3 DEF Accs
    <2>6. /\ weighed \in Caches /\ SameFeatures(weighed, m)
          /\ weighed.is_last_chunk = m.is_last_chunk /\ weighed.feats_cache_ = m.feats_cache_
          /\ weighed.alphas_cache_ = c /\ weighed.rows = m.rows \o P!Centre(chunk)
          /\ weighed.text = m.text /\ weighed.surplus = m.surplus /\ weighed.faulty = m.faulty
      BY <2>3, <2>5 DEF Caches, SameFeatures
    <2>7. Sum(cif) = P!cif_threshold * f + c
      BY <2>5 DEF Sum
    <2>. HIDE DEF weighed
    <2>8. ASSUME Integrated(m, 0), ~m.faulty
          PROVE  P!cif_threshold * (m.text + f) + c = P!Total(weighed.rows) + extra
      <3>1. PICK x \in Nat, y \in Nat, z \in Nat, w \in Nat :
              x = m.text /\ y = m.alphas_cache_ /\ z = P!Total(m.rows) /\ w = P!Total(weighed.rows)
        <4>1. m.text \in Nat /\ m.alphas_cache_ \in Nat
          <5>1. m.text \in Nat /\ m.alphas_cache_ \in 0..P!cif_threshold - 1
            BY DEF Caches
          <5>2. 0..P!cif_threshold - 1 \subseteq Nat
            BY DEF P!cif_threshold
          <5>. QED  BY <5>1, <5>2
        <4>2. P!Total(m.rows) \in Nat /\ P!Total(weighed.rows) \in Nat
          BY <2>2, <2>3, <2>6, Totals
        <4>. QED  BY <4>1, <4>2
      <3>2. 20 * x + y = z
        BY <2>8, <3>1 DEF Integrated, P!cif_threshold
      <3>3. (20 * f + c) + z = (y + w) + extra
        <4>1. (20 * f + c) + z = y + w + extra
          BY <2>3, <2>6, <2>7, <3>1 DEF P!cif_threshold
        <4>. QED  BY <2>4, <4>1
      <3>4. 20 * (x + f) + c = w + extra
        <4>1. c \in Nat
          BY DEF P!cif_threshold
        <4>. QED  BY <2>4, <3>2, <3>3, <4>1
      <3>. QED  BY <3>1, <3>4 DEF P!cif_threshold
    <2>9. CASE f = 0
      <3>1. r = weighed
        BY <2>1, <2>5, <2>9 DEF P!Decoded
      <3>2. m.text \in Nat
        BY DEF Caches
      <3>3. Integrated(m, 0) => Integrated(r, extra)
        <4>1. Integrated(m, 0) /\ ~m.faulty => m.surplus = 0
          BY DEF Integrated
        <4>2. m.text + f = m.text
          BY <2>9, <3>2
        <4>. QED  BY <2>6, <2>8, <3>1, <4>1, <4>2 DEF Integrated
      <3>. QED  BY <1>3, <2>6, <3>1, <3>3 DEF extra
    <2>12. CASE f # 0 /\ fault = "stray" /\ weighed.surplus > 0
      <3>1. r = [weighed EXCEPT !.crashed = TRUE, !.faulty = TRUE]
        BY <2>1, <2>5, <2>12 DEF P!Decoded
      <3>2. /\ r \in Caches /\ r.faulty /\ SameFeatures(r, m)
            /\ r.is_last_chunk = m.is_last_chunk /\ r.feats_cache_ = m.feats_cache_
        BY <2>6, <3>1 DEF Caches, SameFeatures
      <3>. QED  BY <1>3, <3>2 DEF Integrated
    <2>10. CASE /\ f # 0 /\ ~(fault = "stray" /\ weighed.surplus > 0)
                /\ fault = "decoder" \/ weighed.surplus > 0
      <3>1. r = [weighed EXCEPT !.surplus = @ + 4, !.faulty = TRUE]
        BY <2>1, <2>5, <2>10 DEF P!Decoded
      <3>2. weighed.surplus + 4 \in Nat
        <4>1. weighed.surplus \in Nat
          BY <2>6 DEF Caches
        <4>. QED  BY <4>1
      <3>3. /\ r \in Caches /\ r.faulty /\ SameFeatures(r, m)
            /\ r.is_last_chunk = m.is_last_chunk /\ r.feats_cache_ = m.feats_cache_
        BY <2>6, <3>1, <3>2 DEF Caches, SameFeatures
      <3>. QED  BY <1>3, <3>3 DEF Integrated
    <2>11. CASE f # 0 /\ ~(fault = "decoder" \/ weighed.surplus > 0)
      <3>1. r = [weighed EXCEPT !.text = @ + f]
        BY <2>1, <2>5, <2>11 DEF P!Decoded
      <3>2. weighed.text + f \in Nat /\ weighed.surplus = 0
        <4>1. weighed.text \in Nat /\ weighed.surplus \in Nat
          BY <2>6 DEF Caches
        <4>. QED  BY <2>11, <4>1
      <3>3. /\ r \in Caches /\ SameFeatures(r, m)
            /\ r.is_last_chunk = m.is_last_chunk /\ r.feats_cache_ = m.feats_cache_
            /\ r.text = m.text + f /\ r.alphas_cache_ = c /\ r.rows = weighed.rows
            /\ r.surplus = 0 /\ r.faulty = m.faulty
        BY <2>6, <3>1, <3>2 DEF Caches, SameFeatures
      <3>4. Integrated(m, 0) => Integrated(r, extra)
        BY <2>8, <3>3 DEF Integrated
      <3>. QED  BY <1>3, <3>3, <3>4 DEF extra
    <2>. QED  BY <2>9, <2>10, <2>11, <2>12
  <1>. QED  BY <1>1, <1>2, <1>3

\* Rows of zeros.
LEMMA ZerosAreRows ==
    ASSUME NEW k \in Int
    PROVE  /\ P!Zeros(k) \in Seq(Row) /\ Len(P!Zeros(k)) = IF k > 0 THEN k ELSE 0
           /\ AreWide(P!Zeros(k))
           /\ \A i \in 1..k : P!Zeros(k)[i] = [pos |-> i - k - 1, frames |-> <<>>]
  <1>1. PICK n \in Nat : n = (IF k > 0 THEN k ELSE 0) /\ 1..k = 1..n
    OBVIOUS
  <1>. DEFINE zero(i) == [pos |-> i - k - 1, frames |-> <<>>]
              zeros == [i \in 1..n |-> zero(i)]
  <1>2. P!Zeros(k) = zeros
    BY <1>1 DEF P!Zeros
  <1>3. ASSUME NEW i \in 1..n PROVE zero(i) \in Row /\ IsWide(zero(i))
    <2>1. <<>> \in Seq(1..MaxUnits) /\ i - k - 1 \in Int
      BY EmptySeq
    <2>. QED  BY <2>1 DEF Row, IsWide
  <1>4. zeros \in [1..n -> Row] /\ \A i \in 1..n : zeros[i] = zero(i)
    <2>. HIDE DEF zero
    <2>. QED  BY <1>3
  <1>. HIDE DEF zeros
  <1>5. zeros \in Seq(Row)
    BY <1>4, SeqDef
  <1>6. Len(zeros) = n /\ DOMAIN zeros = 1..n
    BY <1>4, <1>5, LenProperties
  <1>7. AreWide(zeros)
    BY <1>3, <1>4, <1>6 DEF AreWide
  <1>8. \A i \in 1..k : zeros[i] = [pos |-> i - k - 1, frames |-> <<>>]
    BY <1>1, <1>4
  <1>. QED  BY <1>1, <1>2, <1>5, <1>6, <1>7, <1>8

\* The end of a sequence.
LEMMA Ends ==
    ASSUME NEW S, NEW s \in Seq(S), NEW k \in Nat, k <= Len(s)
    PROVE  /\ P!LastOf(s, k) \in Seq(S) /\ Len(P!LastOf(s, k)) = k
           /\ \A i \in 1..k : P!LastOf(s, k)[i] = s[Len(s) - k + i]
  <1>1. PICK n \in Nat : n = Len(s)
    BY LenProperties
  <1>2. P!LastOf(s, k) = SubSeq(s, (n - k) + 1, n)
    BY <1>1 DEF P!LastOf
  <1>3. \A i \in (n - k) + 1..n : s[i] \in S
    BY <1>1, ElementOfSeq
  <1>4. PICK j \in Nat : j = n - k
    <2>1. k <= n
      BY <1>1
    <2>2. n - k \in Nat
      BY <2>1
    <2>. QED  BY <2>2
  <1>5. /\ SubSeq(s, j + 1, n) \in Seq(S)
        /\ Len(SubSeq(s, j + 1, n)) = IF j + 1 <= n THEN (n - (j + 1)) + 1 ELSE 0
        /\ \A i \in 1..(n - (j + 1)) + 1 : SubSeq(s, j + 1, n)[i] = s[((j + 1) + i) - 1]
    BY <1>3, <1>4, SubSeqProperties
  <1>6. /\ n = j + k
        /\ (IF j + 1 <= n THEN (n - (j + 1)) + 1 ELSE 0) = k
        /\ (n - (j + 1)) + 1 = k
        /\ \A i \in 1..k : ((j + 1) + i) - 1 = (n - k) + i
    BY <1>4, <1>1
  <1>7. \A i \in 1..k : SubSeq(s, j + 1, n)[i] = s[(n - k) + i]
    BY <1>5, <1>6
  <1>. QED  BY <1>1, <1>2, <1>4, <1>5, <1>6, <1>7

\* Two sequences of rows one after the other.
LEMMA WideBoth ==
    ASSUME NEW s \in Seq(Row), NEW t \in Seq(Row)
    PROVE  /\ s \o t \in Seq(Row) /\ Len(s \o t) = Len(s) + Len(t)
           /\ AreWide(s \o t) <=> AreWide(s) /\ AreWide(t)
  <1>1. PICK n \in Nat, k \in Nat : n = Len(s) /\ k = Len(t)
    BY LenProperties
  <1>. DEFINE both == s \o t
  <1>2. /\ both \in Seq(Row) /\ Len(both) = n + k
        /\ \A i \in 1..n + k : both[i] = IF i <= n THEN s[i] ELSE t[i - n]
    BY <1>1, ConcatProperties
  <1>3. DOMAIN both = 1..n + k /\ DOMAIN s = 1..n /\ DOMAIN t = 1..k
    BY <1>1, <1>2, LenProperties
  <1>. HIDE DEF both
  <1>4. ASSUME AreWide(both) PROVE AreWide(s) /\ AreWide(t)
    <2>1. ASSUME NEW i \in 1..n PROVE IsWide(s[i])
      <3>1. i \in 1..n + k /\ both[i] = s[i]
        BY <1>2
      <3>. QED  BY <1>3, <1>4, <3>1 DEF AreWide
    <2>2. ASSUME NEW i \in 1..k PROVE IsWide(t[i])
      <3>1. n + i \in 1..n + k /\ ~(n + i <= n) /\ (n + i) - n = i
        OBVIOUS
      <3>2. both[n + i] = t[i]
        BY <1>2, <3>1
      <3>. QED  BY <1>3, <1>4, <3>1, <3>2 DEF AreWide
    <2>. QED  BY <1>3, <2>1, <2>2 DEF AreWide
  <1>5. ASSUME AreWide(s), AreWide(t) PROVE AreWide(both)
    <2>1. ASSUME NEW i \in 1..n + k PROVE IsWide(both[i])
      <3>1. CASE i <= n
        <4>1. i \in 1..n /\ both[i] = s[i]
          BY <1>2, <3>1
        <4>. QED  BY <1>3, <1>5, <4>1 DEF AreWide
      <3>2. CASE ~(i <= n)
        <4>1. i - n \in 1..k /\ both[i] = t[i - n]
          BY <1>2, <3>2
        <4>. QED  BY <1>3, <1>5, <4>1 DEF AreWide
      <3>. QED  BY <3>1, <3>2
    <2>. QED  BY <1>3, <2>1 DEF AreWide
  <1>. QED  BY <1>1, <1>2, <1>4, <1>5 DEF both

\* AddOverlapChunk: the chunk is wide as the new rows are, and as many rows are
\* cached as the next chunk needs.
LEMMA Overlapping ==
    ASSUME NEW m \in Caches, NEW rows \in Seq(Row), NEW fin \in BOOLEAN,
           Len(m.feats_cache_) >= IF fin THEN 5 ELSE 10,
           NEW x, x = P!AddOverlapChunk(m, rows, fin)
    PROVE  /\ x.chunk \in Seq(Row) /\ x.m.feats_cache_ \in Seq(Row)
           /\ x = [m |-> [m EXCEPT !.feats_cache_ = x.m.feats_cache_], chunk |-> x.chunk]
           /\ Len(x.m.feats_cache_) = IF fin THEN 5 ELSE 10
           /\ AreWide(m.feats_cache_) =>
                /\ AreWide(rows) <=> AreWide(x.chunk)
                /\ AreWide(rows) => AreWide(x.m.feats_cache_)
  <1>. DEFINE all == m.feats_cache_ \o rows
              padding == IF fin /\ ~m.is_last_chunk THEN P!Zeros(20 - Len(all)) ELSE <<>>
              cached == IF fin THEN 5 ELSE 10
              kept == P!LastOf(all, cached)
  <1>2. m.feats_cache_ \in Seq(Row) /\ m \in Caches
    BY DEF Caches
  <1>3. PICK n \in Nat, k \in Nat : n = Len(m.feats_cache_) /\ k = Len(rows)
    BY <1>2, LenProperties
  <1>4. /\ all \in Seq(Row) /\ Len(all) = n + k
        /\ AreWide(all) <=> AreWide(m.feats_cache_) /\ AreWide(rows)
    BY <1>2, <1>3, WideBoth
  <1>1. x = [m |-> [m EXCEPT !.feats_cache_ = kept], chunk |-> all \o padding]
    <2>1. /\ P!chunk_size[1] + P!chunk_size[3] = 10 /\ P!chunk_size[1] = 5
          /\ P!chunk_size[1] + P!chunk_size[2] + P!chunk_size[3] - Len(all) = 20 - Len(all)
      <3>1. P!chunk_size[1] = 5 /\ P!chunk_size[2] = 10 /\ P!chunk_size[3] = 5
        BY DEF P!chunk_size
      <3>2. Len(all) \in Int
        BY <1>4
      <3>. HIDE DEF all
      <3>. QED  BY <3>1, <3>2
    <2>. QED  BY <2>1 DEF P!AddOverlapChunk
  <1>5. padding \in Seq(Row) /\ AreWide(padding)
    <2>. HIDE DEF all
    <2>1. 20 - Len(all) \in Int
      BY <1>4
    <2>2. P!Zeros(20 - Len(all)) \in Seq(Row) /\ AreWide(P!Zeros(20 - Len(all)))
      BY <2>1, ZerosAreRows
    <2>3. <<>> \in Seq(Row) /\ AreWide(<<>>)
      BY EmptySeq DEF AreWide
    <2>. QED  BY <2>2, <2>3
  <1>6. cached \in Nat /\ cached <= n + k
    BY <1>3
  <1>. HIDE DEF all, padding, cached
  <1>7. all \o padding \in Seq(Row) /\ (AreWide(all \o padding) <=> AreWide(all))
    BY <1>4, <1>5, WideBoth
  <1>8. /\ kept \in Seq(Row) /\ Len(kept) = cached
        /\ \A i \in 1..cached : kept[i] = all[Len(all) - cached + i]
    BY <1>4, <1>6, Ends
  <1>. HIDE DEF kept
  <1>9. AreWide(all) => AreWide(kept)
    <2>. SUFFICES ASSUME AreWide(all), NEW i \in DOMAIN kept PROVE IsWide(kept[i])
      BY DEF AreWide
    <2>1. i \in 1..cached
      BY <1>8, LenProperties
    <2>2. PICK w \in Nat : w = Len(all) /\ cached <= w
      BY <1>4, <1>6
    <2>3. (w - cached) + i \in 1..w
      BY <1>6, <2>1, <2>2
    <2>4. DOMAIN all = 1..w
      BY <1>4, <2>2, LenProperties
    <2>5. kept[i] = all[(w - cached) + i]
      BY <1>8, <2>1, <2>2
    <2>. QED  BY <2>3, <2>4, <2>5 DEF AreWide
  <1>10. x.chunk = all \o padding /\ x.m = [m EXCEPT !.feats_cache_ = kept]
    BY <1>1
  <1>11. x.m.feats_cache_ = kept
    BY <1>2, <1>10 DEF Caches
  <1>. QED  BY <1>1, <1>4, <1>7, <1>8, <1>9, <1>10, <1>11 DEF cached

\* What a chunk of new rows makes of the model.
Chunked(m, rows, fin, last_chunk, r) ==
    /\ r \in Caches /\ SameFeatures(r, m) /\ r.is_last_chunk = last_chunk
    /\ Len(r.feats_cache_) = IF fin THEN 5 ELSE 10
    /\ AreWide(m.feats_cache_) /\ AreWide(rows) =>
         /\ AreWide(r.feats_cache_)
         /\ Integrated(m, 0) => Integrated(r, IF last_chunk THEN P!tail_alphas ELSE 0)
    /\ AreWide(m.feats_cache_) /\ ~AreWide(rows) /\ ~r.faulty =>
         r.rows = m.rows /\ r.text = m.text

\* A chunk of new rows.
LEMMA NextChunking ==
    ASSUME weights \in Weightings, NEW m \in Caches, NEW rows \in Seq(Row), NEW fin \in BOOLEAN,
           Len(m.feats_cache_) >= IF fin THEN 5 ELSE 10,
           NEW last_chunk \in BOOLEAN, NEW fault,
           NEW r, r = P!NextChunk(m, rows, fin, last_chunk, fault)
    PROVE  Chunked(m, rows, fin, last_chunk, r)
  <1>. DEFINE flagged == [m EXCEPT !.is_last_chunk = last_chunk]
              x == P!AddOverlapChunk(flagged, rows, fin)
  <1>1. /\ flagged \in Caches /\ SameFeatures(flagged, m)
        /\ flagged.is_last_chunk = last_chunk /\ flagged.feats_cache_ = m.feats_cache_
        /\ flagged.text = m.text /\ flagged.rows = m.rows /\ flagged.alphas_cache_ = m.alphas_cache_
        /\ flagged.surplus = m.surplus /\ flagged.faulty = m.faulty
    BY DEF Caches, SameFeatures
  <1>2. r = P!ForwardChunk(x, fault)
    BY DEF P!NextChunk
  <1>. HIDE DEF flagged
  <1>3. /\ x.chunk \in Seq(Row) /\ x.m.feats_cache_ \in Seq(Row)
        /\ x = [m |-> [flagged EXCEPT !.feats_cache_ = x.m.feats_cache_], chunk |-> x.chunk]
        /\ Len(x.m.feats_cache_) = IF fin THEN 5 ELSE 10
        /\ AreWide(m.feats_cache_) =>
             /\ AreWide(rows) <=> AreWide(x.chunk)
             /\ AreWide(rows) => AreWide(x.m.feats_cache_)
    BY <1>1, Overlapping
  <1>. HIDE DEF x
  <1>4. PICK c \in Seq(Row), fc \in Seq(Row) : c = x.chunk /\ fc = x.m.feats_cache_
    BY <1>3
  <1>5. PICK y : y = [flagged EXCEPT !.feats_cache_ = fc]
    OBVIOUS
  <1>6. /\ y \in Caches /\ SameFeatures(y, m)
        /\ y.is_last_chunk = last_chunk /\ y.feats_cache_ = fc
        /\ y.text = m.text /\ y.rows = m.rows
        /\ y.alphas_cache_ = m.alphas_cache_ /\ y.surplus = m.surplus /\ y.faulty = m.faulty
    BY <1>1, <1>5 DEF Caches, SameFeatures
  <1>7. r = P!ForwardChunk([m |-> y, chunk |-> c], fault)
    BY <1>2, <1>3, <1>4, <1>5
  <1>8. /\ r \in Caches /\ SameFeatures(r, y)
        /\ r.is_last_chunk = y.is_last_chunk /\ r.feats_cache_ = y.feats_cache_
        /\ AreWide(c) /\ Integrated(y, 0) =>
             Integrated(r, IF y.is_last_chunk THEN P!tail_alphas ELSE 0)
        /\ ~AreWide(c) /\ ~r.faulty => r = y
    BY <1>6, <1>7, Forwarding
  <1>9. Integrated(m, 0) => Integrated(y, 0)
    BY <1>6 DEF Integrated
  <1>10. SameFeatures(r, m)
    BY <1>6, <1>8 DEF SameFeatures
  <1>. QED  BY <1>3, <1>4, <1>6, <1>8, <1>9, <1>10 DEF Chunked

-----------------------------------------------------------------------------
(* Features *)

\* How many frames there are: each but the first takes two units more.
LEMMA FrameNum ==
    ASSUME NEW w \in Nat
    PROVE  /\ P!ComputeFrameNum(w) \in Nat
           /\ w < 5 => P!ComputeFrameNum(w) = 0
           /\ w >= 5 => 2 * P!ComputeFrameNum(w) \in {w - 3, w - 4}
  BY DEF P!ComputeFrameNum, P!frame_length, P!frame_shift

\* FbankKaldi makes as many frames as fit.
LEMMA Banks ==
    ASSUME NEW waves \in Seq(Unit)
    PROVE  /\ P!FbankKaldi(waves) \in Seq(Unit)
           /\ Len(P!FbankKaldi(waves)) = P!ComputeFrameNum(Len(waves))
  <1>1. PICK w \in Nat : w = Len(waves)
    BY LenProperties
  <1>2. PICK f \in Nat : f = P!ComputeFrameNum(w) /\ (f > 0 => 2 * f <= w - 3)
    BY FrameNum
  <1>3. P!FbankKaldi(waves) = [i \in 1..f |-> waves[(i - 1) * 2 + 1]]
    BY <1>1, <1>2 DEF P!FbankKaldi, P!frame_shift
  <1>4. \A i \in 1..f : waves[(i - 1) * 2 + 1] \in Unit
    <2>1. \A i \in 1..f : (i - 1) * 2 + 1 \in 1..w
      BY <1>2
    <2>. QED  BY <1>1, <2>1, ElementOfSeq
  <1>5. P!FbankKaldi(waves) \in [1..f -> Unit]
    BY <1>3, <1>4
  <1>6. P!FbankKaldi(waves) \in Seq(Unit)
    BY <1>5, SeqDef
  <1>. QED  BY <1>1, <1>2, <1>5, <1>6, LenProperties

\* What is put before the frames.
LEMMA Splicing ==
    ASSUME NEW m \in Caches, NEW frames \in Seq(Unit)
    PROVE  /\ P!Splice(m, frames) \in Seq(Unit)
           /\ Len(P!Splice(m, frames)) =
                IF Len(m.lfr_splice_cache_) > 0 \/ Len(frames) = 0
                THEN Len(m.lfr_splice_cache_) ELSE 3
  <1>1. m.lfr_splice_cache_ \in Seq(Unit)
    BY DEF Caches
  <1>2. PICK c \in Nat, f \in Nat : c = Len(m.lfr_splice_cache_) /\ f = Len(frames)
    BY <1>1, LenProperties
  <1>3. (m.lfr_splice_cache_ # <<>> <=> c > 0) /\ (frames = <<>> <=> f = 0)
    BY <1>1, <1>2, EmptySeq
  <1>4. CASE c > 0 \/ f = 0
    BY <1>1, <1>2, <1>3, <1>4 DEF P!Splice
  <1>5. CASE ~(c > 0 \/ f = 0)
    <2>. DEFINE first == [i \in 1..3 |-> frames[1]]
    <2>1. frames[1] \in Unit
      BY <1>2, <1>5, ElementOfSeq
    <2>2. P!Splice(m, frames) = first
      BY <1>3, <1>5 DEF P!Splice, P!lfr_m
    <2>3. first \in [1..3 -> Unit]
      BY <2>1
    <2>. HIDE DEF first
    <2>4. first \in Seq(Unit) /\ Len(first) = 3
      <3>1. first \in Seq(Unit)
        <4>1. \E k \in Nat : first \in [1..k -> Unit]
          BY <2>3
        <4>. QED  BY <4>1, SeqDef
      <3>. QED  BY <2>3, <3>1, LenProperties
    <2>. QED  BY <1>2, <1>5, <2>2, <2>4
  <1>. QED  BY <1>4, <1>5

\* How many rows there are at the end, and while the utterance goes on.
RowNum(T, fin) ==
    IF fin THEN (T + 2) \div 6
    ELSE Cardinality({i \in 0..(T + 2) \div 6 - 1 : 7 <= T - i * 6})

\* From seven frames on there is a row.
LEMMA RowNumIsNat ==
    ASSUME NEW T \in Nat, NEW fin \in BOOLEAN
    PROVE  /\ RowNum(T, fin) \in Nat
           /\ T >= 7 => RowNum(T, fin) >= 1
  <1>1. (T + 2) \div 6 \in Nat
    OBVIOUS
  <1>2. PICK k \in Nat : k = (T + 2) \div 6
    BY <1>1
  <1>3. k - 1 \in Int /\ (T >= 7 => k >= 1)
    BY <1>2
  <1>. DEFINE full == {i \in 0..k - 1 : 7 <= T - i * 6}
  <1>4. IsFiniteSet(0..k - 1) /\ full \subseteq 0..k - 1
    BY <1>3, FS_Interval
  <1>5. IsFiniteSet(full)
    BY <1>4, FS_Subset
  <1>6. Cardinality(full) \in Nat
    BY <1>5, FS_CardinalityType
  <1>7. T >= 7 => 0 \in full
    BY <1>3
  <1>. HIDE DEF full
  <1>8. T >= 7 => Cardinality(full) >= 1
    <2>1. T >= 7 => Cardinality(full) # 0
      BY <1>5, <1>7, FS_EmptySet
    <2>. QED  BY <1>6, <2>1
  <1>. QED  BY <1>2, <1>3, <1>6, <1>8 DEF RowNum, full

\* Rows of seven frames, six apart, the last one repeated.
Spliced(rows, feats, T, fin) ==
    /\ rows \in Seq(Seq(Unit)) /\ Len(rows) = RowNum(T, fin)
    /\ \A i \in DOMAIN rows :
         /\ Len(rows[i]) = 7
         /\ \A j \in 1..7 : rows[i][j] = feats[IF (i - 1) * 6 + j <= T THEN (i - 1) * 6 + j ELSE T]

\* Each row is made of seven of the frames.
LEMMA LowFrameRate ==
    ASSUME NEW feats \in Seq(Unit), NEW T \in Nat, T = Len(feats), T >= 1, NEW fin \in BOOLEAN
    PROVE  Spliced(P!LfrRows(feats, fin), feats, T, fin)
  <1>1. PICK n \in Nat : n = RowNum(T, fin)
    BY RowNumIsNat
  <1>2. /\ (T - (P!lfr_m - 1) \div 2 + P!lfr_n - 1) \div P!lfr_n = (T + 2) \div 6
        /\ P!lfr_m = 7 /\ P!lfr_n = 6
    <2>1. (7 - 1) \div 2 = 3
      OBVIOUS
    <2>. QED  BY <2>1 DEF P!lfr_m, P!lfr_n
  <1>. DEFINE row(i) == [j \in 1..7 |-> feats[P!Min({(i - 1) * 6 + j, T})]]
              rows == [i \in 1..n |-> row(i)]
  <1>3. P!LfrRows(feats, fin) = rows
    BY <1>1, <1>2 DEF P!LfrRows, RowNum, Cardinality, P!Cardinality
  <1>4. ASSUME NEW i \in 1..n
        PROVE  /\ row(i) \in Seq(Unit) /\ Len(row(i)) = 7
               /\ \A j \in 1..7 : LET k == (i - 1) * 6 + j
                                  IN  row(i)[j] = feats[IF k <= T THEN k ELSE T]
    <2>1. ASSUME NEW j \in 1..7
          PROVE  /\ P!Min({(i - 1) * 6 + j, T}) =
                      (IF (i - 1) * 6 + j <= T THEN (i - 1) * 6 + j ELSE T)
                 /\ (IF (i - 1) * 6 + j <= T THEN (i - 1) * 6 + j ELSE T) \in 1..T
      <3>1. (i - 1) * 6 + j \in Nat /\ (i - 1) * 6 + j >= 1
        OBVIOUS
      <3>2. PICK k \in Nat : k = (i - 1) * 6 + j /\ k >= 1
        BY <3>1
      <3>3. P!Min({k, T}) = IF k <= T THEN k ELSE T
        BY MinOfTwo
      <3>. QED  BY <3>2, <3>3
    <2>2. \A j \in 1..7 : /\ row(i)[j] = feats[IF (i - 1) * 6 + j <= T THEN (i - 1) * 6 + j ELSE T]
                          /\ row(i)[j] \in Unit
      <3>1. \A j \in 1..T : feats[j] \in Unit
        BY ElementOfSeq
      <3>. QED  BY <2>1, <3>1
    <2>3. row(i) = [j \in 1..7 |-> row(i)[j]]
      OBVIOUS
    <2>. HIDE DEF row
    <2>4. row(i) \in [1..7 -> Unit]
      BY <2>2, <2>3
    <2>5. row(i) \in Seq(Unit)
      <3>1. \E k \in Nat : row(i) \in [1..k -> Unit]
        BY <2>4
      <3>. QED  BY <3>1, SeqDef
    <2>. QED  BY <2>2, <2>4, <2>5, LenProperties
  <1>5. rows \in [1..n -> Seq(Unit)] /\ \A i \in 1..n : rows[i] = row(i)
    <2>1. \A i \in 1..n : row(i) \in Seq(Unit)
      BY <1>4
    <2>. HIDE DEF row
    <2>. QED  BY <2>1
  <1>. HIDE DEF row, rows
  <1>6. rows \in Seq(Seq(Unit)) /\ Len(rows) = n /\ DOMAIN rows = 1..n
    <2>1. rows \in Seq(Seq(Unit))
      BY <1>5, SeqDef
    <2>. QED  BY <1>5, <2>1, LenProperties
  <1>7. \A i \in DOMAIN rows :
          /\ Len(rows[i]) = 7
          /\ \A j \in 1..7 : rows[i][j] = feats[IF (i - 1) * 6 + j <= T THEN (i - 1) * 6 + j ELSE T]
    <2>. SUFFICES ASSUME NEW i \in DOMAIN rows
                  PROVE  /\ Len(rows[i]) = 7
                         /\ \A j \in 1..7 : rows[i][j] =
                              feats[IF (i - 1) * 6 + j <= T THEN (i - 1) * 6 + j ELSE T]
      OBVIOUS
    <2>1. i \in 1..n /\ rows[i] = row(i)
      BY <1>5, <1>6
    <2>. QED  BY <1>4, <2>1
  <1>. QED  BY <1>1, <1>3, <1>6, <1>7 DEF Spliced

\* What comes behind an index.
LEMMA Rest ==
    ASSUME NEW S, NEW s \in Seq(S), NEW n \in Nat, n = Len(s), NEW i \in Nat, i <= n
    PROVE  /\ SubSeq(s, i + 1, n) \in Seq(S) /\ Len(SubSeq(s, i + 1, n)) = n - i
           /\ \A j \in 1..n - i : SubSeq(s, i + 1, n)[j] = s[i + j]
  <1>1. \A j \in i + 1..n : s[j] \in S
    <2>1. \A j \in 1..n : s[j] \in S
      BY ElementOfSeq
    <2>. QED  BY <2>1
  <1>2. (IF i + 1 <= n THEN (n - (i + 1)) + 1 ELSE 0) = n - i /\ (n - (i + 1)) + 1 = n - i
    OBVIOUS
  <1>3. /\ SubSeq(s, i + 1, n) \in Seq(S)
        /\ Len(SubSeq(s, i + 1, n)) = IF i + 1 <= n THEN (n - (i + 1)) + 1 ELSE 0
        /\ \A j \in 1..(n - (i + 1)) + 1 : SubSeq(s, i + 1, n)[j] = s[((i + 1) + j) - 1]
    BY <1>1, SubSeqProperties
  <1>4. \A j \in 1..n - i : ((i + 1) + j) - 1 = i + j
    OBVIOUS
  <1>. QED  BY <1>2, <1>3, <1>4

\* What comes behind the first g of w.
Behind(rest, s, g, w) == Len(rest) = w - g /\ \A j \in 1..w - g : rest[j] = s[g + j]

\* What is kept of a sequence when its first g are done with.
LEMMA RestBehind ==
    ASSUME NEW S, NEW s \in Seq(S), NEW w \in Nat, w = Len(s), NEW g \in Nat, g <= w
    PROVE  Behind(SubSeq(s, g + 1, w), s, g, w)
  BY Rest DEF Behind

\* What ExtractFeats makes of the frames: less than a row,
LEMMA NarrowRows ==
    ASSUME NEW frames \in Seq(Unit), NEW feats \in Seq(Unit), NEW fin,
           Len(frames) > 0, Len(feats) < 7, NEW rows, rows = P!WavFeats(frames, feats, fin)
    PROVE  /\ P!IsNarrow(frames, feats) /\ rows \in Seq(Seq(Unit)) /\ Len(rows) = Len(frames)
           /\ \A i \in DOMAIN rows : Len(rows[i]) = 1
  <1>1. PICK f \in Nat : f = Len(frames) /\ f > 0
    BY LenProperties
  <1>2. frames # <<>>
    BY <1>1, EmptySeq
  <1>3. DOMAIN frames = 1..f
    BY <1>1, LenProperties
  <1>4. P!IsNarrow(frames, feats) /\ rows = [i \in 1..f |-> <<frames[i]>>]
    BY <1>2, <1>3 DEF P!IsNarrow, P!WavFeats, P!lfr_m
  <1>5. \A i \in 1..f : <<frames[i]>> \in Seq(Unit) /\ Len(<<frames[i]>>) = 1
    <2>1. \A i \in 1..f : frames[i] \in Unit
      BY <1>1, ElementOfSeq
    <2>. QED  BY <2>1
  <1>6. rows \in [1..f -> Seq(Unit)] /\ \A i \in 1..f : rows[i] = <<frames[i]>>
    BY <1>4, <1>5
  <1>7. rows \in Seq(Seq(Unit)) /\ Len(rows) = f /\ DOMAIN rows = 1..f
    <2>1. \E k \in Nat : rows \in [1..k -> Seq(Unit)]
      BY <1>6
    <2>2. rows \in Seq(Seq(Unit))
      BY <2>1, SeqDef
    <2>. QED  BY <1>6, <2>2, LenProperties
  <1>8. \A i \in DOMAIN rows : Len(rows[i]) = 1
    BY <1>5, <1>6, <1>7
  <1>. QED  BY <1>1, <1>4, <1>7, <1>8

\* nothing,
LEMMA NoRows ==
    ASSUME NEW frames \in Seq(Unit), NEW feats \in Seq(Unit), NEW fin,
           Len(frames) = 0, ~fin \/ Len(feats) = 0, NEW rows, rows = P!WavFeats(frames, feats, fin)
    PROVE  ~P!IsNarrow(frames, feats) /\ rows = <<>>
  <1>1. frames = <<>> /\ (Len(feats) = 0 => feats = <<>>)
    BY EmptySeq
  <1>. QED  BY <1>1 DEF P!IsNarrow, P!WavFeats

\* or rows of seven.
LEMMA WideRows ==
    ASSUME NEW frames \in Seq(Unit), NEW feats \in Seq(Unit), NEW fin \in BOOLEAN,
           \/ Len(frames) > 0 /\ Len(feats) >= 7
           \/ Len(frames) = 0 /\ fin /\ Len(feats) > 0,
           NEW rows, rows = P!WavFeats(frames, feats, fin)
    PROVE  /\ ~P!IsNarrow(frames, feats) /\ rows = P!LfrRows(feats, fin)
           /\ rows \in Seq(Seq(Unit)) /\ Len(rows) = RowNum(Len(feats), fin)
           /\ \A i \in DOMAIN rows : Len(rows[i]) = 7
  <1>1. PICK T \in Nat : T = Len(feats) /\ T >= 1
    <2>1. Len(feats) \in Nat
      BY LenProperties
    <2>. QED  BY <2>1
  <1>2. feats # <<>> /\ (Len(frames) = 0 <=> frames = <<>>)
    BY <1>1, EmptySeq
  <1>3. ~P!IsNarrow(frames, feats) /\ rows = P!LfrRows(feats, fin)
    <2>1. ~P!IsNarrow(frames, feats)
      BY <1>1, <1>2 DEF P!IsNarrow, P!lfr_m
    <2>2. ~(frames = <<>> /\ (~fin \/ feats = <<>>))
      BY <1>2
    <2>. QED  BY <2>1, <2>2 DEF P!WavFeats
  <1>4. /\ P!LfrRows(feats, fin) \in Seq(Seq(Unit)) /\ Len(P!LfrRows(feats, fin)) = RowNum(T, fin)
        /\ \A i \in DOMAIN P!LfrRows(feats, fin) : Len(P!LfrRows(feats, fin)[i]) = 7
    <2>1. Spliced(P!LfrRows(feats, fin), feats, T, fin)
      BY <1>1, LowFrameRate
    <2>. QED  BY <2>1 DEF Spliced
  <1>. QED  BY <1>1, <1>3, <1>4

\* Of reserve_waveforms_ there are two units for each frame that is kept.
Matched(m) == m.reserve_waveforms_ = 2 * Len(m.lfr_splice_cache_)

\* The frames in what is reserved together with the new frames.
LEMMA FramesIn ==
    ASSUME NEW c \in Nat, NEW f \in Nat, f # 0
    PROVE  P!ComputeFrameNum(2 * c + (f - 1) * 2 + 5) = c + f
  <1>1. PICK g \in Nat : f = g + 1
    <2>1. f - 1 \in Nat /\ f = (f - 1) + 1
      OBVIOUS
    <2>. QED  BY <2>1
  <1>2. PICK w \in Nat : w = 2 * c + (f - 1) * 2 + 5 /\ w = 2 * (c + g) + 5
    <2>1. 2 * c + (f - 1) * 2 + 5 = 2 * (c + g) + 5
      BY <1>1
    <2>. QED  BY <2>1
  <1>3. (w - 5) \div 2 = c + g /\ ~(w < 5)
    BY <1>2
  <1>4. P!ComputeFrameNum(w) = (w - 5) \div 2 + 1
    BY <1>3 DEF P!ComputeFrameNum, P!frame_length, P!frame_shift
  <1>. QED  BY <1>1, <1>2, <1>3, <1>4

\* What is reserved goes from the next row's first frame to the last frame.
LEMMA Reserving ==
    ASSUME NEW m \in Caches, Matched(m), NEW c \in Nat, c = Len(m.lfr_splice_cache_),
           NEW f \in Nat, f # 0, NEW idx \in Nat, idx >= 6
    PROVE  P!Reserved(m, f, idx) = 2 * (((IF c > 0 THEN c ELSE 3) + f) - idx)
  <1>1. (P!lfr_m - 1) \div 2 = 3 /\ P!frame_shift = 2 /\ P!frame_length = 5
    BY DEF P!lfr_m, P!frame_shift, P!frame_length
  <1>2. m.reserve_waveforms_ = 2 * c
    BY DEF Matched
  <1>3. P!ComputeFrameNum(2 * c + (f - 1) * 2 + 5) = c + f
    BY FramesIn
  <1>4. 2 * c = 0 <=> c = 0
    OBVIOUS
  <1>. DEFINE minus == IF 2 * c = 0 THEN 3 ELSE 0
              distance == IF idx < minus THEN minus - idx ELSE idx - minus
  <1>5. P!Reserved(m, f, idx) = ((c + f) - distance) * 2
    BY <1>1, <1>2, <1>3 DEF P!Reserved
  <1>6. CASE c > 0
    <2>1. distance = idx
      BY <1>4, <1>6
    <2>. HIDE DEF distance
    <2>. QED  BY <1>5, <1>6, <2>1
  <1>7. CASE c = 0
    <2>1. distance = idx - 3
      BY <1>4, <1>7
    <2>. HIDE DEF distance
    <2>. QED  BY <1>5, <1>7, <2>1
  <1>. QED  BY <1>6, <1>7

\* The frames of a call, with those in front.
FeatsOf(m, frames) == P!Splice(m, frames) \o frames

\* Of m only the caches of audio change.
OnlyAudio(m, k) ==
    k = [m EXCEPT !.input_cache_ = k.input_cache_, !.lfr_splice_cache_ = k.lfr_splice_cache_,
                  !.reserve_waveforms_ = k.reserve_waveforms_]

\* How many of T frames come before the first one of the next row.
NextRow(T, fin) ==
    IF T - 1 <= RowNum(T, fin) * 6 THEN T - 1 ELSE RowNum(T, fin) * 6

\* What the caches of ExtractFeats are then.
Keeps(m, waves, frames, feats, fin, k) ==
    /\ k \in Caches /\ OnlyAudio(m, k)
    /\ k.input_cache_ = SubSeq(waves, 2 * Len(frames) + 1, Len(waves))
    /\ Len(waves) >= 5 => Len(k.input_cache_) >= 3
    /\ Len(frames) > 0 /\ Len(feats) >= 7 =>
         /\ k.lfr_splice_cache_ = SubSeq(feats, NextRow(Len(feats), fin) + 1, Len(feats))
         /\ Len(k.lfr_splice_cache_) >= 1 /\ Matched(k)

\* The caches of ExtractFeats.
LEMMA Keeping ==
    ASSUME NEW m \in Caches, Matched(m), NEW waves \in Seq(Unit),
           NEW frames, frames = P!FbankKaldi(waves), NEW feats, feats = FeatsOf(m, frames), NEW fin \in BOOLEAN,
           NEW k, k = P!Kept(m, waves, frames, feats, P!WavFeats(frames, feats, fin))
    PROVE  Keeps(m, waves, frames, feats, fin, k)
  <1>1. PICK c \in Nat, w \in Nat : c = Len(m.lfr_splice_cache_) /\ w = Len(waves)
    BY LenProperties DEF Caches
  <1>2. PICK f \in Nat : /\ f = P!ComputeFrameNum(w) /\ (f > 0 => 2 * f <= w - 3)
                         /\ (w >= 5 => 2 * f \in {w - 3, w - 4})
    <2>1. PICK f \in Nat : f = P!ComputeFrameNum(w)
      BY FrameNum
    <2>2. (w < 5 => f = 0) /\ (w >= 5 => 2 * f \in {w - 3, w - 4})
      BY <2>1, FrameNum
    <2>. QED  BY <2>1, <2>2
  <1>3. frames \in Seq(Unit) /\ Len(frames) = f
    BY <1>1, <1>2, Banks
  <1>. DEFINE s == IF c > 0 \/ f = 0 THEN c ELSE 3
  <1>4. P!Splice(m, frames) \in Seq(Unit) /\ Len(P!Splice(m, frames)) = s
    BY <1>1, <1>3, Splicing
  <1>5. PICK T \in Nat : T = Len(feats) /\ T = s + f /\ feats \in Seq(Unit)
    <2>1. s \in Nat
      OBVIOUS
    <2>. HIDE DEF s
    <2>2. feats \in Seq(Unit) /\ Len(feats) = s + f
      BY <1>3, <1>4, ConcatProperties DEF FeatsOf
    <2>3. s + f \in Nat
      BY <2>1
    <2>. QED  BY <2>2, <2>3
  <1>. DEFINE rows == P!WavFeats(frames, feats, fin)
              idx == P!SpliceIdx(feats, rows)
              cache == SubSeq(waves, 2 * f + 1, w)
              splice == IF P!IsNarrow(frames, feats) \/ rows = <<>> THEN feats
                        ELSE SubSeq(feats, idx + 1, T)
              reserve == IF frames = <<>> THEN m.reserve_waveforms_
                         ELSE IF P!IsNarrow(frames, feats) THEN m.reserve_waveforms_ + f * 2
                         ELSE P!Reserved(m, f, idx)
  <1>6. k = [m EXCEPT !.input_cache_ = cache, !.lfr_splice_cache_ = splice,
                      !.reserve_waveforms_ = reserve]
    <2>1. f * 2 = 2 * f
      OBVIOUS
    <2>. QED  BY <1>1, <1>3, <1>5, <2>1 DEF P!Kept, Caches, P!frame_shift
  <1>7. Len(feats) >= Len(frames)
    BY <1>3, <1>5
  <1>8. /\ cache \in Seq(Unit) /\ Len(cache) = w - 2 * f
        /\ w >= 5 => Len(cache) >= 3
    <2>1. \A i \in 2 * f + 1..w : i \in 1..w
      OBVIOUS
    <2>2. \A i \in 2 * f + 1..w : waves[i] \in Unit
      BY <1>1, <2>1, ElementOfSeq
    <2>3. cache \in Seq(Unit) /\ Len(cache) = IF 2 * f + 1 <= w THEN (w - (2 * f + 1)) + 1 ELSE 0
      BY <2>2, SubSeqProperties
    <2>4. 2 * f <= w
      BY <1>2
    <2>5. (IF 2 * f + 1 <= w THEN (w - (2 * f + 1)) + 1 ELSE 0) = w - 2 * f
      BY <2>4
    <2>6. w >= 5 => w - 2 * f >= 3
      BY <1>2
    <2>. QED  BY <2>3, <2>5, <2>6
  <1>9. frames = <<>> <=> f = 0
    BY <1>3, EmptySeq
  <1>10. m.reserve_waveforms_ \in Nat
    BY DEF Caches
  <1>11. CASE f = 0 \/ T < 7
    <2>1. reserve \in Nat
      <3>1. CASE f = 0
        BY <1>9, <1>10, <3>1
      <3>2. CASE f # 0 /\ T < 7
        <4>1. P!IsNarrow(frames, feats)
          BY <1>5, <1>9, <3>2 DEF P!IsNarrow, P!lfr_m
        <4>2. reserve = m.reserve_waveforms_ + f * 2
          BY <1>9, <3>2, <4>1
        <4>3. PICK r \in Nat : r = m.reserve_waveforms_
          BY <1>10
        <4>. HIDE DEF reserve
        <4>. QED  BY <4>2, <4>3
      <3>. QED  BY <1>11, <3>1, <3>2
    <2>2. splice \in Seq(Unit)
      <3>1. ASSUME ~P!IsNarrow(frames, feats), rows # <<>> PROVE SubSeq(feats, idx + 1, T) \in Seq(Unit)
        <4>1. f = 0 /\ fin /\ T > 0
          <5>1. CASE f # 0 /\ T < 7
            <6>1. Len(frames) > 0 /\ Len(feats) < 7
              BY <1>3, <1>5, <5>1
            <6>2. P!IsNarrow(frames, feats)
              BY <1>3, <1>5, <6>1, NarrowRows
            <6>. QED  BY <3>1, <6>2
          <5>2. CASE f = 0 /\ (~fin \/ T = 0)
            BY <1>3, <1>5, <3>1, <5>2, NoRows
          <5>. QED  BY <1>11, <5>1, <5>2
        <4>2. rows \in Seq(Seq(Unit))
          BY <1>3, <1>5, <4>1, WideRows
        <4>. HIDE DEF rows
        <4>3. PICK n \in Nat : n = Len(rows)
          BY <4>2, LenProperties
        <4>4. idx = P!Min({T - 1, n * 6})
          BY <1>5, <4>3 DEF P!SpliceIdx, P!lfr_n
        <4>5. idx \in Nat /\ idx <= T - 1
          BY <4>1, <4>4, MinOfTwo
        <4>. HIDE DEF idx
        <4>6. PICK j \in Nat : j = idx /\ j <= T
          <5>1. idx <= T
            BY <4>5
          <5>. QED  BY <4>5, <5>1
        <4>7. SubSeq(feats, j + 1, T) \in Seq(Unit)
          BY <1>5, <4>6, Rest
        <4>. QED  BY <4>6, <4>7
      <3>. QED  BY <1>5, <3>1
    <2>. HIDE DEF reserve, splice, cache
    <2>3. k \in Caches /\ k.input_cache_ = cache /\ k.lfr_splice_cache_ = splice
          /\ k.reserve_waveforms_ = reserve
      BY <1>6, <1>8, <2>1, <2>2 DEF Caches
    <2>4. ~(Len(frames) > 0 /\ Len(feats) >= 7)
      BY <1>3, <1>5, <1>11
    <2>5. OnlyAudio(m, k)
      BY <1>6, <2>3 DEF OnlyAudio
    <2>6. k.input_cache_ = SubSeq(waves, 2 * Len(frames) + 1, Len(waves))
      BY <1>1, <1>3, <2>3 DEF cache
    <2>7. Len(waves) >= 5 => Len(k.input_cache_) >= 3
      BY <1>1, <1>8, <2>3
    <2>. QED  BY <2>3, <2>4, <2>5, <2>6, <2>7 DEF Keeps
  <1>12. CASE f # 0 /\ T >= 7
    <2>1. /\ ~P!IsNarrow(frames, feats) /\ rows = P!LfrRows(feats, fin)
          /\ Len(rows) = RowNum(T, fin) /\ rows \in Seq(Seq(Unit))
      <3>1. Len(frames) > 0 /\ Len(feats) >= 7
        BY <1>3, <1>5, <1>12
      <3>2. PICK wf : wf = P!WavFeats(frames, feats, fin)
        OBVIOUS
      <3>3. /\ ~P!IsNarrow(frames, feats) /\ wf = P!LfrRows(feats, fin)
            /\ wf \in Seq(Seq(Unit)) /\ Len(wf) = RowNum(Len(feats), fin)
        <4>1. \/ Len(frames) > 0 /\ Len(feats) >= 7
              \/ Len(frames) = 0 /\ fin /\ Len(feats) > 0
          BY <3>1
        <4>2. frames \in Seq(Unit) /\ feats \in Seq(Unit)
          BY <1>3, <1>5
        <4>. QED  BY <3>2, <4>1, <4>2, WideRows
      <3>. QED  BY <1>5, <3>2, <3>3
    <2>2. PICK n \in Nat : n = RowNum(T, fin) /\ n >= 1
      BY <1>12, RowNumIsNat
    <2>3. rows # <<>>
      BY <2>1, <2>2, EmptySeq
    <2>. HIDE DEF rows
    <2>4. idx = IF T - 1 <= n * 6 THEN T - 1 ELSE n * 6
      <3>1. idx = P!Min({T - 1, n * 6})
        BY <1>5, <2>1, <2>2 DEF P!SpliceIdx, P!lfr_n
      <3>2. P!Min({T - 1, n * 6}) = IF T - 1 <= n * 6 THEN T - 1 ELSE n * 6
        BY MinOfTwo
      <3>. QED  BY <3>1, <3>2
    <2>5. idx \in Nat /\ idx >= 6 /\ idx <= T - 1
      BY <1>12, <2>2, <2>4
    <2>. HIDE DEF idx
    <2>6. PICK j \in Nat : j = idx /\ j >= 6 /\ j <= T - 1
      BY <2>5
    <2>7. splice = SubSeq(feats, j + 1, T)
      BY <2>1, <2>3, <2>6
    <2>8. SubSeq(feats, j + 1, T) \in Seq(Unit) /\ Len(SubSeq(feats, j + 1, T)) = T - j
      <3>1. j <= T
        BY <2>6
      <3>2. SubSeq(feats, j + 1, T) \in Seq(Unit)
        BY <1>5, <3>1, Rest
      <3>3. Behind(SubSeq(feats, j + 1, T), feats, j, T)
        BY <1>5, <3>1, RestBehind
      <3>. QED  BY <3>2, <3>3 DEF Behind
    <2>9. reserve = 2 * (T - j)
      <3>1. P!Reserved(m, f, j) = 2 * (((IF c > 0 THEN c ELSE 3) + f) - j)
        BY <1>1, <1>12, <2>6, Reserving
      <3>2. T = (IF c > 0 THEN c ELSE 3) + f
        BY <1>5, <1>12
      <3>. QED  BY <1>9, <1>12, <2>1, <2>6, <3>1, <3>2
    <2>10. PICK d \in Nat : d = T - j /\ d >= 1
      <3>1. T - j \in Nat
        BY <2>6
      <3>. QED  BY <2>6, <3>1
    <2>. HIDE DEF reserve, splice, cache
    <2>11. reserve = 2 * d /\ reserve \in Nat
      BY <2>9, <2>10
    <2>12. k \in Caches /\ k.input_cache_ = cache /\ k.lfr_splice_cache_ = splice
           /\ k.reserve_waveforms_ = reserve
      BY <1>6, <1>8, <2>7, <2>8, <2>11 DEF Caches
    <2>13. OnlyAudio(m, k)
      BY <1>6, <2>12 DEF OnlyAudio
    <2>14. k.input_cache_ = SubSeq(waves, 2 * Len(frames) + 1, Len(waves))
      BY <1>1, <1>3, <2>12 DEF cache
    <2>15. Len(waves) >= 5 => Len(k.input_cache_) >= 3
      BY <1>1, <1>8, <2>12
    <2>16. idx = NextRow(Len(feats), fin)
      BY <1>5, <2>2, <2>4 DEF NextRow
    <2>17. /\ k.lfr_splice_cache_ = SubSeq(feats, idx + 1, Len(feats))
           /\ Len(k.lfr_splice_cache_) = d /\ k.reserve_waveforms_ = 2 * d
      BY <1>5, <2>6, <2>7, <2>8, <2>10, <2>11, <2>12
    <2>18. Len(k.lfr_splice_cache_) >= 1 /\ Matched(k)
      BY <2>10, <2>17 DEF Matched
    <2>. QED  BY <2>12, <2>13, <2>14, <2>15, <2>16, <2>17, <2>18 DEF Keeps
  <1>13. (f = 0 \/ T < 7) \/ (f # 0 /\ T >= 7)
    OBVIOUS
  <1>. QED  BY <1>11, <1>12, <1>13, Zenon

\* What ExtractFeats returns.
Extracted(m, new, frames, feats, fin, x) ==
    /\ frames \in Seq(Unit) /\ feats \in Seq(Unit)
    /\ x.wav_feats = P!WavFeats(frames, feats, fin) /\ x.wav_feats \in Seq(Seq(Unit))
    /\ x = [m |-> x.m, wav_feats |-> x.wav_feats]
    /\ x.m \in Caches /\ OnlyAudio(m, x.m)
    /\ fin => x.m = P!ResetCache(m)
    /\ ~fin => x.m = P!Kept(m, m.input_cache_ \o new, frames, feats, x.wav_feats)

\* ExtractFeats: the rows, and only the caches of audio change.
LEMMA Extracting ==
    ASSUME NEW m \in Caches, Matched(m), NEW new \in Seq(Unit), NEW fin \in BOOLEAN,
           NEW frames, frames = P!FbankKaldi(m.input_cache_ \o new),
           NEW feats, feats = FeatsOf(m, frames), NEW x, x = P!ExtractFeats(m, new, fin)
    PROVE  Extracted(m, new, frames, feats, fin, x)
  <1>1. m.input_cache_ \in Seq(Unit)
    BY DEF Caches
  <1>2. PICK waves \in Seq(Unit) : waves = m.input_cache_ \o new
    BY <1>1, ConcatProperties
  <1>3. frames \in Seq(Unit) /\ frames = P!FbankKaldi(waves)
    BY <1>2, Banks
  <1>4. P!Splice(m, frames) \in Seq(Unit)
    BY <1>3, Splicing
  <1>5. feats \in Seq(Unit)
    BY <1>3, <1>4, ConcatProperties DEF FeatsOf
  <1>6. PICK wf : wf = P!WavFeats(frames, feats, fin)
    OBVIOUS
  <1>7. PICK k : k = P!Kept(m, waves, frames, feats, wf)
    OBVIOUS
  <1>8. x = [m |-> IF fin THEN P!ResetCache(k) ELSE k, wav_feats |-> wf]
    BY <1>2, <1>3, <1>6, <1>7 DEF P!ExtractFeats, FeatsOf
  <1>9. /\ k \in Caches
        /\ OnlyAudio(m, k)
    <2>1. k = P!Kept(m, waves, frames, feats, P!WavFeats(frames, feats, fin))
      BY <1>6, <1>7
    <2>. QED  BY <1>3, <2>1, Keeping DEF Keeps
  <1>10. wf \in Seq(Seq(Unit))
    <2>1. Len(frames) \in Nat /\ Len(feats) \in Nat
      BY <1>3, <1>5, LenProperties
    <2>2. \/ Len(frames) > 0 /\ Len(feats) < 7
          \/ Len(frames) = 0 /\ (~fin \/ Len(feats) = 0)
          \/ \/ Len(frames) > 0 /\ Len(feats) >= 7
             \/ Len(frames) = 0 /\ fin /\ Len(feats) > 0
      BY <2>1
    <2>3. CASE Len(frames) > 0 /\ Len(feats) < 7
      BY <1>3, <1>5, <1>6, <2>3, NarrowRows
    <2>4. CASE Len(frames) = 0 /\ (~fin \/ Len(feats) = 0)
      BY <1>3, <1>5, <1>6, <2>4, NoRows, EmptySeq
    <2>5. CASE \/ Len(frames) > 0 /\ Len(feats) >= 7
               \/ Len(frames) = 0 /\ fin /\ Len(feats) > 0
      BY <1>3, <1>5, <1>6, <2>5, WideRows
    <2>. QED  BY <2>2, <2>3, <2>4, <2>5
  <1>11. P!ResetCache(k) \in Caches /\ P!ResetCache(k) = P!ResetCache(m)
    <2>1. <<>> \in Seq(Unit)
      BY EmptySeq
    <2>2. PICK a, b, c : k = [m EXCEPT !.input_cache_ = a, !.lfr_splice_cache_ = b,
                                       !.reserve_waveforms_ = c]
      BY <1>9 DEF OnlyAudio
    <2>3. P!ResetCache(k) = P!ResetCache(m)
      BY <2>2 DEF P!ResetCache, Caches
    <2>4. P!ResetCache(m) \in Caches
      BY <2>1 DEF P!ResetCache, Caches
    <2>. QED  BY <2>3, <2>4
  <1>12. OnlyAudio(m, P!ResetCache(m))
    BY DEF P!ResetCache, Caches, OnlyAudio
  <1>13. CASE fin
    <2>1. x = [m |-> P!ResetCache(m), wav_feats |-> wf]
      BY <1>8, <1>11, <1>13
    <2>2. x.m = P!ResetCache(m) /\ x.wav_feats = wf
      BY <2>1
    <2>. QED  BY <1>3, <1>5, <1>6, <1>10, <1>11, <1>12, <1>13, <2>1, <2>2 DEF Extracted
  <1>14. CASE ~fin
    <2>1. x = [m |-> k, wav_feats |-> wf]
      BY <1>8, <1>14
    <2>2. x.m = k /\ x.wav_feats = wf
      BY <2>1
    <2>. QED  BY <1>2, <1>3, <1>5, <1>6, <1>7, <1>9, <1>10, <1>14, <2>1, <2>2 DEF Extracted
  <1>. QED  BY <1>13, <1>14

\* What GetPosEmb returns.
Embedded(m, rows, p) ==
    /\ p = [m |-> p.m, wav_feats |-> p.wav_feats]
    /\ p.m = [m EXCEPT !.start_idx_cache_ = @ + Len(rows)] /\ p.m \in Caches
    /\ p.wav_feats \in Seq(Row) /\ Len(p.wav_feats) = Len(rows)
    /\ \A i \in 1..Len(rows) :
         p.wav_feats[i] = [pos |-> m.start_idx_cache_ + i - 1, frames |-> rows[i]]
    /\ (\A i \in DOMAIN rows : Len(rows[i]) = 7) => AreWide(p.wav_feats)
    /\ \A i \in DOMAIN rows : Len(rows[i]) \notin {0, 7} => ~AreWide(p.wav_feats)

\* GetPosEmb: what comes out is rows.
LEMMA Embedding ==
    ASSUME NEW m \in Caches, NEW rows \in Seq(Seq(Unit)),
           NEW p, p = P!GetPosEmb([m |-> m, wav_feats |-> rows])
    PROVE  Embedded(m, rows, p)
  <1>1. PICK n \in Nat : n = Len(rows) /\ DOMAIN rows = 1..n
    BY LenProperties
  <1>2. PICK s \in Nat : s = m.start_idx_cache_
    BY DEF Caches
  <1>. DEFINE row(i) == [pos |-> s + i - 1, frames |-> rows[i]]
              all == [i \in 1..n |-> row(i)]
              after == [m EXCEPT !.start_idx_cache_ = @ + Len(rows)]
  <1>3. p = [m |-> after, wav_feats |-> all]
    BY <1>1, <1>2 DEF P!GetPosEmb
  <1>4. ASSUME NEW i \in 1..n
        PROVE  /\ row(i) \in Row
               /\ Len(rows[i]) = 7 => IsWide(row(i))
               /\ Len(rows[i]) \notin {0, 7} => ~IsWide(row(i))
    <2>1. s + i - 1 \in Int
      OBVIOUS
    <2>2. rows[i] \in Seq(Unit)
      BY <1>1, ElementOfSeq
    <2>3. row(i) \in Row
      BY <2>1, <2>2 DEF Row, Unit
    <2>4. row(i).frames = rows[i] /\ Len(<<>>) = 0
      BY EmptySeq
    <2>. HIDE DEF row
    <2>. QED  BY <2>3, <2>4 DEF IsWide, P!lfr_m
  <1>5. all \in [1..n -> Row] /\ \A i \in 1..n : all[i] = row(i)
    <2>1. \A i \in 1..n : row(i) \in Row
      BY <1>4
    <2>. HIDE DEF row
    <2>. QED  BY <2>1
  <1>6. after \in Caches
    <2>1. s + n \in Nat
      OBVIOUS
    <2>2. after = [m EXCEPT !.start_idx_cache_ = s + n]
      BY <1>1, <1>2 DEF Caches
    <2>. QED  BY <2>1, <2>2 DEF Caches
  <1>. HIDE DEF all, after
  <1>7. all \in Seq(Row) /\ Len(all) = n /\ DOMAIN all = 1..n
    <2>1. \E k \in Nat : all \in [1..k -> Row]
      BY <1>5
    <2>2. all \in Seq(Row)
      BY <2>1, SeqDef
    <2>. QED  BY <1>5, <2>2, LenProperties
  <1>8. (\A i \in DOMAIN rows : Len(rows[i]) = 7) => AreWide(all)
    BY <1>1, <1>4, <1>5, <1>7 DEF AreWide
  <1>9. \A i \in DOMAIN rows : Len(rows[i]) \notin {0, 7} => ~AreWide(all)
    BY <1>1, <1>4, <1>5, <1>7 DEF AreWide
  <1>10. p.m = after /\ p.wav_feats = all
    BY <1>3
  <1>11. \A i \in 1..Len(rows) : all[i] = [pos |-> m.start_idx_cache_ + i - 1, frames |-> rows[i]]
    BY <1>1, <1>2, <1>5
  <1>12. p.m = [m EXCEPT !.start_idx_cache_ = @ + Len(rows)]
    BY <1>10 DEF after
  <1>. QED  BY <1>1, <1>3, <1>6, <1>7, <1>8, <1>9, <1>10, <1>11, <1>12 DEF Embedded

\* A new model is a model.
LEMMA NewIsModel == P!NewModel \in Caches
  <1>1. <<>> \in Seq(Unit) /\ <<>> \in Seq(Row)
    BY EmptySeq
  <1>2. 0 \in 0..P!cif_threshold - 1
    BY DEF P!cif_threshold
  <1>3. P!Zeros(10) \in Seq(Row)
    BY ZerosAreRows
  <1>. QED  BY <1>1, <1>2, <1>3 DEF P!NewModel, Caches

\* Two models are the same when their parts are.
LEMMA SameModel ==
    ASSUME NEW m \in Caches, NEW n \in Caches,
           m.reserve_waveforms_ = n.reserve_waveforms_, m.input_cache_ = n.input_cache_,
           m.lfr_splice_cache_ = n.lfr_splice_cache_, m.start_idx_cache_ = n.start_idx_cache_,
           m.is_first_chunk = n.is_first_chunk, m.is_last_chunk = n.is_last_chunk,
           m.alphas_cache_ = n.alphas_cache_, m.feats_cache_ = n.feats_cache_,
           m.surplus = n.surplus, m.rows = n.rows, m.faulty = n.faulty,
           m.crashed = n.crashed, m.text = n.text
    PROVE  m = n
  <1>. DEFINE parts(x) ==
           [reserve_waveforms_ |-> x.reserve_waveforms_, input_cache_ |-> x.input_cache_,
            lfr_splice_cache_ |-> x.lfr_splice_cache_, start_idx_cache_ |-> x.start_idx_cache_,
            is_first_chunk |-> x.is_first_chunk, is_last_chunk |-> x.is_last_chunk,
            alphas_cache_ |-> x.alphas_cache_, feats_cache_ |-> x.feats_cache_,
            surplus |-> x.surplus, rows |-> x.rows,
            faulty |-> x.faulty, crashed |-> x.crashed,
            text |-> x.text]
  <1>1. \A x \in Caches : x = parts(x)
    BY DEF Caches
  <1>2. parts(m) = parts(n)
    OBVIOUS
  <1>. HIDE DEF parts
  <1>. QED  BY <1>1, <1>2

\* InitCache and ResetCache leave what was weighed and said.
LEMMA Resetting ==
    ASSUME NEW m \in Caches
    PROVE  /\ P!InitCache(P!ResetCache(m)) =
                [P!NewModel EXCEPT !.rows = m.rows, !.faulty = m.faulty, !.crashed = m.crashed,
                                   !.text = m.text]
           /\ P!NewModel \in Caches
  <1>1. P!chunk_size[1] + P!chunk_size[3] = 10
    BY DEF P!chunk_size
  <1>2. P!Zeros(10) \in Seq(Row)
    BY ZerosAreRows
  <1>3. PICK z \in Seq(Row) : z = P!Zeros(10)
    BY <1>2
  <1>4. P!NewModel \in Caches
    BY NewIsModel
  <1>5. P!InitCache(P!ResetCache(m)) =
          [P!NewModel EXCEPT !.rows = m.rows, !.faulty = m.faulty, !.crashed = m.crashed,
                             !.text = m.text]
    <2>. DEFINE r == P!ResetCache(m)
                n == P!InitCache(r)
                o == [P!NewModel EXCEPT !.rows = m.rows, !.faulty = m.faulty,
                                        !.crashed = m.crashed, !.text = m.text]
    <2>1. r \in Caches
      <3>1. <<>> \in Seq(Unit)
        BY EmptySeq
      <3>. QED  BY <3>1 DEF P!ResetCache, Caches
    <2>2. /\ r.reserve_waveforms_ = 0 /\ r.input_cache_ = <<>> /\ r.lfr_splice_cache_ = <<>>
          /\ r.rows = m.rows /\ r.faulty = m.faulty /\ r.crashed = m.crashed /\ r.text = m.text
      BY DEF P!ResetCache, Caches
    <2>3. n = [r EXCEPT !.start_idx_cache_ = 0, !.is_first_chunk = TRUE,
                        !.is_last_chunk = FALSE, !.alphas_cache_ = 0,
                        !.feats_cache_ = z, !.surplus = 0]
      BY <1>1, <1>3 DEF P!InitCache
    <2>. HIDE DEF r, n
    <2>4. /\ n.reserve_waveforms_ = 0 /\ n.input_cache_ = <<>> /\ n.lfr_splice_cache_ = <<>>
          /\ n.start_idx_cache_ = 0 /\ n.is_first_chunk = TRUE /\ n.is_last_chunk = FALSE
          /\ n.alphas_cache_ = 0 /\ n.feats_cache_ = z /\ n.surplus = 0
          /\ n.rows = m.rows /\ n.faulty = m.faulty /\ n.crashed = m.crashed /\ n.text = m.text
      BY <2>1, <2>2, <2>3 DEF Caches
    <2>5. n \in Caches
      <3>1. z \in Seq(Row) /\ 0 \in 0..P!cif_threshold - 1 /\ 0 \in Nat
        BY DEF P!cif_threshold
      <3>. QED  BY <2>1, <2>3, <3>1 DEF Caches
    <2>6. o \in Caches
      <3>1. m.rows \in Seq(Row) /\ m.faulty \in BOOLEAN /\ m.crashed \in BOOLEAN /\ m.text \in Nat
        BY DEF Caches
      <3>. QED  BY <1>4, <3>1 DEF Caches
    <2>7. /\ o.reserve_waveforms_ = 0 /\ o.input_cache_ = <<>> /\ o.lfr_splice_cache_ = <<>>
          /\ o.start_idx_cache_ = 0 /\ o.is_first_chunk = TRUE /\ o.is_last_chunk = FALSE
          /\ o.alphas_cache_ = 0 /\ o.feats_cache_ = z /\ o.surplus = 0
          /\ o.rows = m.rows /\ o.faulty = m.faulty /\ o.crashed = m.crashed /\ o.text = m.text
      BY <1>3 DEF P!NewModel
    <2>. HIDE DEF o
    <2>8. n = o
      BY <2>4, <2>5, <2>6, <2>7, SameModel
    <2>. QED  BY <2>8 DEF r, n, o
  <1>. QED  BY <1>4, <1>5

-----------------------------------------------------------------------------
(* Forward *)

\* The caches between two calls.
TenRows(m) == Len(m.feats_cache_) = 10
HasAudio(m) == Len(m.input_cache_) >= 3 /\ Len(m.lfr_splice_cache_) >= 1

\* What ExtractFeats and GetPosEmb leave alone.
SameRest(m, n) ==
    /\ m.is_first_chunk = n.is_first_chunk /\ m.is_last_chunk = n.is_last_chunk
    /\ m.alphas_cache_ = n.alphas_cache_ /\ m.feats_cache_ = n.feats_cache_
    /\ m.surplus = n.surplus /\ m.rows = n.rows /\ m.faulty = n.faulty
    /\ m.crashed = n.crashed /\ m.text = n.text

\* The units that a call has: those that were kept, and the new ones.
UnitsOf(m, new) == Len(m.input_cache_) + Len(new)

\* How many frames w units make, and how many with those in front.
Counted(frames, feats, c, w) ==
    /\ frames \in Seq(Unit) /\ feats \in Seq(Unit)
    /\ Len(frames) = P!ComputeFrameNum(w)
    /\ Len(feats) = Len(frames) + IF c > 0 \/ Len(frames) = 0 THEN c ELSE 3

\* The frames that a call has: those of the audio, and those in front of them.
LEMMA FramesOfCall ==
    ASSUME NEW m \in Caches, NEW new \in Seq(Unit),
           NEW frames, frames = P!FbankKaldi(m.input_cache_ \o new),
           NEW feats, feats = FeatsOf(m, frames),
           NEW c \in Nat, c = Len(m.lfr_splice_cache_),
           NEW w \in Nat, w = UnitsOf(m, new)
    PROVE  Counted(frames, feats, c, w)
  <1>1. m.input_cache_ \in Seq(Unit)
    BY DEF Caches
  <1>2. PICK waves \in Seq(Unit) : waves = m.input_cache_ \o new /\ Len(waves) = w
    BY <1>1, ConcatProperties DEF UnitsOf
  <1>3. frames \in Seq(Unit) /\ Len(frames) = P!ComputeFrameNum(w)
    BY <1>2, Banks
  <1>4. PICK f \in Nat : f = Len(frames)
    BY <1>3, LenProperties
  <1>. DEFINE s == IF c > 0 \/ f = 0 THEN c ELSE 3
  <1>5. P!Splice(m, frames) \in Seq(Unit) /\ Len(P!Splice(m, frames)) = s
    BY <1>3, <1>4, Splicing
  <1>6. s \in Nat
    OBVIOUS
  <1>. HIDE DEF s
  <1>7. feats \in Seq(Unit) /\ Len(feats) = s + f
    BY <1>3, <1>4, <1>5, ConcatProperties DEF FeatsOf
  <1>8. Len(feats) = f + s
    BY <1>6, <1>7
  <1>. QED  BY <1>3, <1>4, <1>7, <1>8 DEF s, Counted

\* With frames enough for a row, all rows have seven frames.
LEMMA WideCall ==
    ASSUME NEW m \in Caches, Matched(m), NEW new \in Seq(Unit), NEW fin \in BOOLEAN,
           NEW frames, frames = P!FbankKaldi(m.input_cache_ \o new),
           NEW feats, feats = FeatsOf(m, frames), Len(frames) > 0, Len(feats) >= 7,
           NEW p, p = P!GetPosEmb(P!ExtractFeats(m, new, fin))
    PROVE  /\ p.m \in Caches /\ SameRest(p.m, m)
           /\ p.wav_feats \in Seq(Row) /\ AreWide(p.wav_feats) /\ Len(p.wav_feats) >= 1
           /\ ~fin => Matched(p.m) /\ HasAudio(p.m)
  <1>1. PICK x : x = P!ExtractFeats(m, new, fin)
    OBVIOUS
  <1>2. /\ frames \in Seq(Unit) /\ feats \in Seq(Unit)
        /\ x.wav_feats = P!WavFeats(frames, feats, fin) /\ x.wav_feats \in Seq(Seq(Unit))
        /\ x = [m |-> x.m, wav_feats |-> x.wav_feats]
        /\ x.m \in Caches
        /\ ~fin => x.m = P!Kept(m, m.input_cache_ \o new, frames, feats, x.wav_feats)
        /\ OnlyAudio(m, x.m)
    <2>1. Extracted(m, new, frames, feats, fin, x)
      BY <1>1, Extracting
    <2>. QED  BY <2>1 DEF Extracted
  <1>3. PICK n \in Caches, rows \in Seq(Seq(Unit)) : n = x.m /\ rows = x.wav_feats
    BY <1>2
  <1>4. Len(rows) = RowNum(Len(feats), fin) /\ \A i \in DOMAIN rows : Len(rows[i]) = 7
    BY <1>2, <1>3, WideRows
  <1>5. Len(rows) >= 1
    <2>1. Len(feats) \in Nat
      BY <1>2, LenProperties
    <2>. QED  BY <1>4, <2>1, RowNumIsNat
  <1>6. p = P!GetPosEmb([m |-> n, wav_feats |-> rows])
    BY <1>1, <1>2, <1>3
  <1>7. /\ p.m = [n EXCEPT !.start_idx_cache_ = @ + Len(rows)] /\ p.m \in Caches
        /\ p.wav_feats \in Seq(Row) /\ Len(p.wav_feats) = Len(rows)
        /\ (\A i \in DOMAIN rows : Len(rows[i]) = 7) => AreWide(p.wav_feats)
    <2>1. Embedded(n, rows, p)
      BY <1>6, Embedding
    <2>. QED  BY <2>1 DEF Embedded
  <1>8. SameRest(n, m)
    BY <1>2, <1>3 DEF OnlyAudio, SameRest, Caches
  <1>9. /\ SameRest(p.m, n) /\ p.m.input_cache_ = n.input_cache_
        /\ p.m.lfr_splice_cache_ = n.lfr_splice_cache_
        /\ p.m.reserve_waveforms_ = n.reserve_waveforms_
    BY <1>7 DEF SameRest, Caches
  <1>10. SameRest(p.m, m)
    BY <1>8, <1>9 DEF SameRest
  <1>11. ASSUME ~fin PROVE Matched(n) /\ HasAudio(n)
    <2>1. m.input_cache_ \in Seq(Unit)
      BY DEF Caches
    <2>2. PICK waves \in Seq(Unit) : waves = m.input_cache_ \o new
      BY <2>1, ConcatProperties
    <2>3. frames = P!FbankKaldi(waves)
      BY <2>2
    <2>4. n = P!Kept(m, waves, frames, feats, P!WavFeats(frames, feats, fin))
      BY <1>2, <1>3, <1>11, <2>2
    <2>5. /\ Len(waves) >= 5 => Len(n.input_cache_) >= 3
          /\ Len(frames) > 0 /\ Len(feats) >= 7 =>
               Len(n.lfr_splice_cache_) >= 1 /\ Matched(n)
      <3>1. Keeps(m, waves, frames, feats, fin, n)
        BY <2>3, <2>4, Keeping
      <3>. QED  BY <3>1 DEF Keeps
    <2>6. Len(waves) >= 5
      <3>1. PICK w \in Nat : w = Len(waves)
        BY LenProperties
      <3>2. Len(frames) = P!ComputeFrameNum(w)
        BY <2>3, <3>1, Banks
      <3>3. ~(w < 5)
        BY <3>2, FrameNum
      <3>. QED  BY <3>1, <3>3
    <2>. QED  BY <2>5, <2>6 DEF HasAudio
  <1>12. Matched(n) /\ HasAudio(n) => Matched(p.m) /\ HasAudio(p.m)
    BY <1>9 DEF Matched, HasAudio
  <1>. QED  BY <1>4, <1>5, <1>7, <1>10, <1>11, <1>12

\* A model that has only been told that there was a first chunk.
IsAnew(m) ==
    m = [P!NewModel EXCEPT !.is_first_chunk = m.is_first_chunk, !.crashed = m.crashed]

\* The model between two calls: what it has weighed is what it says, and either it
\* has audio for the next row or it is new.
Going(m) ==
    /\ m \in Caches /\ Matched(m) /\ TenRows(m) /\ AreWide(m.feats_cache_)
    /\ ~m.is_last_chunk /\ Integrated(m, 0)
    /\ m.is_first_chunk => IsAnew(m)
    /\ HasAudio(m) \/ IsAnew(m)

\* The model at the end of an utterance.
Finished(m) ==
    /\ m \in Caches
    /\ m = [P!NewModel EXCEPT !.is_first_chunk = m.is_first_chunk, !.rows = m.rows,
                            !.faulty = m.faulty, !.crashed = m.crashed, !.text = m.text]
    /\ ~m.faulty => m.text = (P!Total(m.rows) + P!tail_alphas) \div P!cif_threshold

\* What a new model is like.
LEMMA Anew ==
    ASSUME weights \in Weightings, NEW m, m.is_first_chunk \in BOOLEAN, m.crashed \in BOOLEAN,
           IsAnew(m)
    PROVE  /\ Going(m) /\ m.lfr_splice_cache_ = <<>> /\ m.input_cache_ = <<>>
           /\ m.rows = <<>> /\ m.text = 0 /\ ~m.faulty
  <1>1. P!NewModel \in Caches
    BY NewIsModel
  <1>2. m \in Caches
    BY <1>1 DEF IsAnew, Caches
  <1>3. PICK z \in Seq(Row) : z = P!Zeros(10) /\ Len(z) = 10 /\ AreWide(z)
    <2>1. PICK k \in Int : k = 10 /\ k > 0
      OBVIOUS
    <2>2. P!Zeros(k) \in Seq(Row) /\ Len(P!Zeros(k)) = 10 /\ AreWide(P!Zeros(k))
      BY <2>1, ZerosAreRows
    <2>. QED  BY <2>1, <2>2
  <1>4. /\ m.reserve_waveforms_ = 0 /\ m.lfr_splice_cache_ = <<>> /\ m.input_cache_ = <<>>
        /\ m.feats_cache_ = z /\ m.is_last_chunk = FALSE /\ m.surplus = 0
        /\ m.text = 0 /\ m.alphas_cache_ = 0 /\ m.rows = <<>> /\ m.faulty = FALSE
    BY <1>1, <1>3 DEF IsAnew, P!NewModel
  <1>5. Matched(m)
    <2>1. Len(m.lfr_splice_cache_) = 0
      BY <1>4
    <2>2. m.reserve_waveforms_ = 2 * 0
      BY <1>4
    <2>. QED  BY <2>1, <2>2 DEF Matched
  <1>6. TenRows(m) /\ AreWide(m.feats_cache_)
    BY <1>3, <1>4 DEF TenRows
  <1>7. Integrated(m, 0)
    <2>1. P!Total(m.rows) = 0
      BY <1>4, TotalOfNone
    <2>2. P!cif_threshold * m.text + m.alphas_cache_ = 0
      BY <1>4 DEF P!cif_threshold
    <2>. QED  BY <1>4, <2>1, <2>2 DEF Integrated
  <1>. QED  BY <1>2, <1>4, <1>5, <1>6, <1>7 DEF Going

\* The rows at the end of rows.
LEMMA WideEnd ==
    ASSUME NEW rows \in Seq(Row), AreWide(rows), NEW k \in Nat, k <= Len(rows)
    PROVE  P!LastOf(rows, k) \in Seq(Row) /\ AreWide(P!LastOf(rows, k))
  <1>1. /\ P!LastOf(rows, k) \in Seq(Row) /\ Len(P!LastOf(rows, k)) = k
        /\ \A i \in 1..k : P!LastOf(rows, k)[i] = rows[Len(rows) - k + i]
    BY Ends
  <1>2. PICK end \in Seq(Row) : end = P!LastOf(rows, k)
    BY <1>1
  <1>3. PICK n \in Nat : n = Len(rows) /\ k <= n
    BY LenProperties
  <1>4. ASSUME NEW i \in DOMAIN end PROVE IsWide(end[i])
    <2>1. i \in 1..k
      BY <1>1, <1>2, LenProperties
    <2>2. (n - k) + i \in 1..n
      BY <1>3, <2>1
    <2>3. (n - k) + i \in DOMAIN rows
      BY <1>3, <2>2, LenProperties
    <2>4. end[i] = rows[(n - k) + i]
      BY <1>1, <1>2, <1>3, <2>1
    <2>. QED  BY <2>3, <2>4 DEF AreWide
  <1>. QED  BY <1>2, <1>4 DEF AreWide

\* The tokens of what has been integrated.
LEMMA Tokens ==
    ASSUME weights \in Weightings, NEW m \in Caches, Integrated(m, P!tail_alphas), ~m.faulty
    PROVE  m.text = (P!Total(m.rows) + P!tail_alphas) \div P!cif_threshold
  <1>1. PICK t \in Nat, a \in 0..19 : t = m.text /\ a = m.alphas_cache_
    BY DEF Caches, P!cif_threshold
  <1>2. PICK w \in Nat : w = P!Total(m.rows)
    <2>1. m.rows \in Seq(Row)
      BY DEF Caches
    <2>. QED  BY <2>1, Totals
  <1>3. 20 * t + a = w + 9
    BY <1>1, <1>2 DEF Integrated, P!cif_threshold, P!tail_alphas
  <1>4. t = (w + 9) \div 20
    BY <1>3
  <1>. QED  BY <1>1, <1>2, <1>4 DEF P!cif_threshold, P!tail_alphas

\* InitCache and ResetCache after the last chunk finish the utterance.
LEMMA Finishing ==
    ASSUME weights \in Weightings, NEW m \in Caches,
           ~m.faulty => m.text = (P!Total(m.rows) + P!tail_alphas) \div P!cif_threshold,
           NEW r, r = P!InitCache(P!ResetCache(m))
    PROVE  Finished(r)
  <1>1. /\ r = [P!NewModel EXCEPT !.rows = m.rows, !.faulty = m.faulty, !.crashed = m.crashed,
                                  !.text = m.text]
        /\ P!NewModel \in Caches
    BY Resetting
  <1>2. /\ m.rows \in Seq(Row) /\ m.faulty \in BOOLEAN /\ m.crashed \in BOOLEAN
        /\ m.text \in Nat
    BY DEF Caches
  <1>3. PICK rows \in Seq(Row), faulty \in BOOLEAN, crashed \in BOOLEAN, text \in Nat :
          rows = m.rows /\ faulty = m.faulty /\ crashed = m.crashed /\ text = m.text
    BY <1>2
  <1>4. r = [P!NewModel EXCEPT !.rows = rows, !.faulty = faulty, !.crashed = crashed,
                               !.text = text]
    BY <1>1, <1>3
  <1>5. /\ r \in Caches /\ r.rows = rows /\ r.faulty = faulty /\ r.crashed = crashed
        /\ r.text = text /\ r.is_first_chunk = P!NewModel.is_first_chunk
    BY <1>1, <1>4 DEF Caches
  <1>6. r = [P!NewModel EXCEPT !.is_first_chunk = r.is_first_chunk, !.rows = r.rows,
                               !.faulty = r.faulty, !.crashed = r.crashed, !.text = r.text]
    <2>1. P!NewModel = [P!NewModel EXCEPT !.is_first_chunk = r.is_first_chunk]
      BY <1>1, <1>5 DEF Caches
    <2>. QED  BY <1>4, <1>5, <2>1
  <1>7. ~r.faulty => r.text = (P!Total(r.rows) + P!tail_alphas) \div P!cif_threshold
    BY <1>3, <1>5
  <1>. QED  BY <1>5, <1>6, <1>7 DEF Finished

\* The last chunk, of what was looked ahead at or of new rows, finishes it too.
LEMMA LastChunk ==
    ASSUME weights \in Weightings, NEW m \in Caches, NEW rows \in Seq(Row),
           Len(m.feats_cache_) >= 5, AreWide(m.feats_cache_), Integrated(m, 0),
           AreWide(rows) \/ (m.rows = <<>> /\ m.text = 0), NEW fault,
           NEW r, r = P!InitCache(P!ResetCache(P!NextChunk(m, rows, TRUE, TRUE, fault)))
    PROVE  Finished(r)
  <1>1. PICK n : n = P!NextChunk(m, rows, TRUE, TRUE, fault)
    OBVIOUS
  <1>2. /\ n \in Caches
        /\ AreWide(rows) => Integrated(n, P!tail_alphas)
        /\ ~AreWide(rows) /\ ~n.faulty => n.rows = m.rows /\ n.text = m.text
    <2>1. PICK fin \in BOOLEAN, end \in BOOLEAN : fin = TRUE /\ end = TRUE
      OBVIOUS
    <2>2. n = P!NextChunk(m, rows, fin, end, fault) /\ Len(m.feats_cache_) >= IF fin THEN 5 ELSE 10
      BY <1>1, <2>1
    <2>3. /\ n \in Caches
          /\ AreWide(m.feats_cache_) /\ AreWide(rows) =>
               (Integrated(m, 0) => Integrated(n, IF end THEN P!tail_alphas ELSE 0))
          /\ AreWide(m.feats_cache_) /\ ~AreWide(rows) /\ ~n.faulty =>
               n.rows = m.rows /\ n.text = m.text
      <3>1. Chunked(m, rows, fin, end, n)
        BY <2>2, NextChunking
      <3>. QED  BY <3>1 DEF Chunked
    <2>. QED  BY <2>1, <2>3
  <1>3. ~n.faulty => n.text = (P!Total(n.rows) + P!tail_alphas) \div P!cif_threshold
    <2>1. CASE AreWide(rows)
      BY <1>2, <2>1, Tokens
    <2>2. CASE ~AreWide(rows)
      <3>1. ~n.faulty => n.rows = <<>> /\ n.text = 0
        BY <1>2, <2>2
      <3>2. P!Total(<<>>) = 0
        BY TotalOfNone
      <3>3. 0 = (0 + P!tail_alphas) \div P!cif_threshold
        BY DEF P!tail_alphas, P!cif_threshold
      <3>. QED  BY <3>1, <3>2, <3>3
    <2>. QED  BY <2>1, <2>2
  <1>. QED  BY <1>1, <1>2, <1>3, Finishing

\* With next to no audio left, the rows that were looked ahead at finish it.
LEMMA LastLookedAhead ==
    ASSUME weights \in Weightings, NEW m, Going(m), NEW fault,
           NEW r, r = P!LastRows(m, fault)
    PROVE  Finished(r)
  <1>. DEFINE flagged == [m EXCEPT !.is_last_chunk = TRUE]
              n == P!ForwardChunk([m |-> flagged, chunk |-> m.feats_cache_], fault)
  <1>1. /\ flagged \in Caches /\ m.feats_cache_ \in Seq(Row) /\ AreWide(m.feats_cache_)
        /\ flagged.is_last_chunk = TRUE /\ Integrated(flagged, 0)
    BY DEF Going, Caches, Integrated
  <1>. HIDE DEF flagged
  <1>2. n \in Caches /\ Integrated(n, P!tail_alphas)
    BY <1>1, Forwarding
  <1>3. r = P!InitCache(P!ResetCache(n))
    BY DEF P!LastRows, flagged
  <1>. HIDE DEF n
  <1>4. ~n.faulty => n.text = (P!Total(n.rows) + P!tail_alphas) \div P!cif_threshold
    BY <1>2, Tokens
  <1>. QED  BY <1>2, <1>3, <1>4, Finishing

\* The model that a call goes on with.
LEMMA NoLongerFirst ==
    ASSUME NEW m, Going(m), NEW n, n = [m EXCEPT !.is_first_chunk = FALSE]
    PROVE  /\ n \in Caches /\ Matched(n) /\ TenRows(n) /\ AreWide(n.feats_cache_)
           /\ ~n.is_last_chunk /\ Integrated(n, 0) /\ n.is_first_chunk = FALSE
           /\ n.rows = m.rows /\ n.text = m.text /\ n.faulty = m.faulty
           /\ n.crashed = m.crashed
           /\ n.input_cache_ = m.input_cache_ /\ n.lfr_splice_cache_ = m.lfr_splice_cache_
  <1>1. m \in Caches
    BY DEF Going
  <1>2. /\ n \in Caches /\ n.is_first_chunk = FALSE
        /\ n.reserve_waveforms_ = m.reserve_waveforms_ /\ n.feats_cache_ = m.feats_cache_
        /\ n.is_last_chunk = m.is_last_chunk /\ n.alphas_cache_ = m.alphas_cache_
        /\ n.surplus = m.surplus /\ n.crashed = m.crashed
        /\ n.rows = m.rows /\ n.text = m.text /\ n.faulty = m.faulty
        /\ n.input_cache_ = m.input_cache_ /\ n.lfr_splice_cache_ = m.lfr_splice_cache_
    BY <1>1 DEF Caches
  <1>3. Matched(n) /\ TenRows(n) /\ AreWide(n.feats_cache_) /\ ~n.is_last_chunk
    BY <1>2 DEF Going, Matched, TenRows
  <1>4. Integrated(n, 0)
    BY <1>2 DEF Going, Integrated
  <1>. QED  BY <1>2, <1>3, <1>4

\* Enough audio makes frames enough for a row.
LEMMA EnoughAudio ==
    ASSUME NEW m \in Caches, NEW new \in Seq(Unit),
           NEW frames, frames = P!FbankKaldi(m.input_cache_ \o new),
           NEW feats, feats = FeatsOf(m, frames),
           \/ Len(new) >= 12 /\ (HasAudio(m) \/ m.lfr_splice_cache_ = <<>>)
           \/ Len(new) >= 18
    PROVE  Len(frames) > 0 /\ Len(feats) >= 7
  <1>1. m.lfr_splice_cache_ \in Seq(Unit) /\ m.input_cache_ \in Seq(Unit)
    BY DEF Caches
  <1>2. PICK c \in Nat, i \in Nat, u \in Nat :
          c = Len(m.lfr_splice_cache_) /\ i = Len(m.input_cache_) /\ u = Len(new)
    BY <1>1, LenProperties
  <1>3. PICK w \in Nat : w = i + u
    OBVIOUS
  <1>4. PICK f \in Nat : f = P!ComputeFrameNum(w) /\ (w >= 5 => 2 * f \in {w - 3, w - 4})
    BY FrameNum
  <1>5. /\ Len(frames) = f
        /\ Len(feats) = f + IF c > 0 \/ f = 0 THEN c ELSE 3
    <2>1. w = UnitsOf(m, new)
      BY <1>2, <1>3 DEF UnitsOf
    <2>2. /\ Len(frames) = P!ComputeFrameNum(w)
          /\ Len(feats) = Len(frames) + IF c > 0 \/ Len(frames) = 0 THEN c ELSE 3
      <3>1. Counted(frames, feats, c, w)
        BY <1>2, <2>1, FramesOfCall
      <3>. QED  BY <3>1 DEF Counted
    <2>. QED  BY <1>4, <2>2
  <1>6. CASE u >= 18
    <2>1. f >= 7
      BY <1>3, <1>4, <1>6
    <2>2. f + (IF c > 0 \/ f = 0 THEN c ELSE 3) >= 7
      BY <2>1
    <2>. QED  BY <1>5, <2>1, <2>2
  <1>7. CASE u >= 12 /\ i >= 3 /\ c >= 1
    <2>1. f >= 6
      BY <1>3, <1>4, <1>7
    <2>2. f + (IF c > 0 \/ f = 0 THEN c ELSE 3) >= 7
      BY <1>7, <2>1
    <2>. QED  BY <1>5, <2>1, <2>2
  <1>8. CASE u >= 12 /\ c = 0
    <2>1. f >= 4
      BY <1>3, <1>4, <1>8
    <2>2. f + (IF c > 0 \/ f = 0 THEN c ELSE 3) >= 7
      BY <1>8, <2>1
    <2>. QED  BY <1>5, <2>1, <2>2
  <1>9. m.lfr_splice_cache_ = <<>> => c = 0
    BY <1>2
  <1>. QED  BY <1>2, <1>6, <1>7, <1>8, <1>9 DEF HasAudio

\* While the utterance goes on a call leaves the model ready for the next one.
LEMMA GoesOn ==
    ASSUME weights \in Weightings, NEW m, Going(m), NEW new \in Seq(Unit), Len(new) >= 18,
           NEW fault, NEW fault2, NEW r, r = P!Forward(m, new, FALSE, fault, fault2)
    PROVE  Going(r)
  <1>. DEFINE n == [m EXCEPT !.is_first_chunk = FALSE]
              p == P!GetPosEmb(P!ExtractFeats(n, new, FALSE))
  <1>1. /\ n \in Caches /\ Matched(n) /\ TenRows(n) /\ AreWide(n.feats_cache_)
        /\ ~n.is_last_chunk /\ Integrated(n, 0) /\ n.is_first_chunk = FALSE
    BY NoLongerFirst
  <1>2. r = P!Chunks(p, FALSE, fault, fault2)
    BY DEF P!Forward
  <1>. HIDE DEF n
  <1>3. PICK fin \in BOOLEAN, end \in BOOLEAN : fin = FALSE /\ end = FALSE
    OBVIOUS
  <1>4. /\ p.m \in Caches /\ SameRest(p.m, n)
        /\ p.wav_feats \in Seq(Row) /\ AreWide(p.wav_feats) /\ Len(p.wav_feats) >= 1
        /\ Matched(p.m) /\ HasAudio(p.m)
    <2>1. PICK frames, feats : frames = P!FbankKaldi(n.input_cache_ \o new) /\ feats = FeatsOf(n, frames)
      OBVIOUS
    <2>2. Len(frames) > 0 /\ Len(feats) >= 7
      BY <1>1, <2>1, EnoughAudio
    <2>3. p = P!GetPosEmb(P!ExtractFeats(n, new, fin))
      BY <1>3
    <2>. HIDE DEF p
    <2>. QED  BY <1>1, <1>3, <2>1, <2>2, <2>3, WideCall
  <1>. HIDE DEF p
  <1>5. r = P!NextChunk(p.m, p.wav_feats, fin, end, fault)
    <2>1. ~(Len(p.wav_feats) = 0)
      BY <1>4
    <2>2. P!Chunks(p, FALSE, fault, fault2) = P!NextChunk(p.m, p.wav_feats, FALSE, FALSE, fault)
      BY <2>1, Zenon DEF P!Chunks
    <2>. QED  BY <1>2, <1>3, <2>2
  <1>6. /\ TenRows(p.m) /\ AreWide(p.m.feats_cache_) /\ p.m.is_first_chunk = FALSE
        /\ Integrated(p.m, 0)
    BY <1>1, <1>4 DEF SameRest, TenRows, Integrated
  <1>7. PICK pm \in Caches, rows \in Seq(Row) : pm = p.m /\ rows = p.wav_feats
    BY <1>4
  <1>8. r = P!NextChunk(pm, rows, fin, end, fault) /\ Len(pm.feats_cache_) >= IF fin THEN 5 ELSE 10
    <2>1. Len(pm.feats_cache_) = 10
      BY <1>6, <1>7 DEF TenRows
    <2>2. PICK l \in Nat : l = Len(pm.feats_cache_) /\ l = 10
      BY <2>1
    <2>3. l >= IF fin THEN 5 ELSE 10
      BY <2>2
    <2>4. r = P!NextChunk(pm, rows, fin, end, fault)
      BY <1>5, <1>7
    <2>. QED  BY <2>2, <2>3, <2>4
  <1>9. /\ r \in Caches /\ SameFeatures(r, pm) /\ r.is_last_chunk = end
        /\ Len(r.feats_cache_) = IF fin THEN 5 ELSE 10
        /\ AreWide(pm.feats_cache_) /\ AreWide(rows) =>
             /\ AreWide(r.feats_cache_)
             /\ Integrated(pm, 0) => Integrated(r, IF end THEN P!tail_alphas ELSE 0)
    <2>1. Chunked(pm, rows, fin, end, r)
      BY <1>8, NextChunking
    <2>. QED  BY <2>1 DEF Chunked
  <1>10. TenRows(r) /\ AreWide(r.feats_cache_) /\ Integrated(r, 0) /\ ~r.is_last_chunk
    BY <1>3, <1>4, <1>6, <1>7, <1>9 DEF TenRows
  <1>11. Matched(r) /\ HasAudio(r) /\ r.is_first_chunk = FALSE
    BY <1>4, <1>6, <1>7, <1>9 DEF SameFeatures, Matched, HasAudio
  <1>. QED  BY <1>9, <1>10, <1>11 DEF Going

\* A call without a whole row: less than seven frames come out one by one, and of
\* less than one frame nothing does.
LEMMA ShortCall ==
    ASSUME NEW m \in Caches, Matched(m), m.lfr_splice_cache_ = <<>>, m.input_cache_ = <<>>,
           NEW new \in Seq(Unit),
           NEW frames, frames = P!FbankKaldi(m.input_cache_ \o new),
           NEW feats, feats = FeatsOf(m, frames), ~(Len(frames) > 0 /\ Len(feats) >= 7),
           NEW p, p = P!GetPosEmb(P!ExtractFeats(m, new, TRUE))
    PROVE  /\ p.m \in Caches /\ SameRest(p.m, m) /\ p.wav_feats \in Seq(Row)
           /\ Len(p.wav_feats) <= 3 /\ (Len(p.wav_feats) # 0 => ~AreWide(p.wav_feats))
           /\ Len(p.wav_feats) = 0 =>
                p.m = [P!ResetCache(m) EXCEPT !.start_idx_cache_ = m.start_idx_cache_]
  <1>1. PICK fin \in BOOLEAN : fin = TRUE
    OBVIOUS
  <1>2. PICK x : x = P!ExtractFeats(m, new, fin)
    OBVIOUS
  <1>3. /\ frames \in Seq(Unit) /\ feats \in Seq(Unit)
        /\ x.wav_feats = P!WavFeats(frames, feats, fin) /\ x.wav_feats \in Seq(Seq(Unit))
        /\ x = [m |-> x.m, wav_feats |-> x.wav_feats]
        /\ x.m \in Caches /\ x.m = P!ResetCache(m)
    <2>1. Extracted(m, new, frames, feats, fin, x)
      BY <1>2, Extracting
    <2>. QED  BY <1>1, <2>1 DEF Extracted
  <1>4. PICK n \in Caches, rows \in Seq(Seq(Unit)) : n = x.m /\ rows = x.wav_feats
    BY <1>3
  <1>5. PICK f \in Nat : f = Len(frames) /\ Len(feats) = IF f = 0 THEN 0 ELSE f + 3
    <2>1. PICK w \in Nat : w = UnitsOf(m, new)
      <3>1. Len(m.input_cache_) \in Nat /\ Len(new) \in Nat
        BY LenProperties DEF Caches
      <3>. QED  BY <3>1 DEF UnitsOf
    <2>2. PICK c \in Nat : c = Len(m.lfr_splice_cache_) /\ c = 0
      OBVIOUS
    <2>3. Counted(frames, feats, c, w)
      BY <2>1, <2>2, FramesOfCall
    <2>4. PICK f \in Nat : f = Len(frames)
      BY <1>3, LenProperties
    <2>5. PICK k : k = Len(feats) /\ k = f + IF c > 0 \/ f = 0 THEN c ELSE 3
      BY <2>3, <2>4 DEF Counted
    <2>6. k = IF f = 0 THEN 0 ELSE f + 3
      BY <2>2, <2>5
    <2>. QED  BY <2>4, <2>5, <2>6
  <1>6. Len(rows) = f /\ f <= 3
    <2>1. CASE f = 0
      <3>1. Len(frames) = 0 /\ Len(feats) = 0
        BY <1>5, <2>1
      <3>2. rows = <<>>
        BY <1>3, <1>4, <3>1, NoRows
      <3>. QED  BY <2>1, <3>2
    <2>2. CASE f > 0
      <3>1. Len(frames) > 0 /\ Len(feats) < 7 /\ f <= 3
        BY <1>5, <2>2
      <3>2. Len(rows) = Len(frames)
        BY <1>3, <1>4, <3>1, NarrowRows
      <3>. QED  BY <1>5, <3>1, <3>2
    <2>. QED  BY <2>1, <2>2
  <1>7. p = P!GetPosEmb([m |-> n, wav_feats |-> rows])
    BY <1>1, <1>2, <1>3, <1>4
  <1>8. /\ p.m = [n EXCEPT !.start_idx_cache_ = @ + Len(rows)] /\ p.m \in Caches
        /\ p.wav_feats \in Seq(Row) /\ Len(p.wav_feats) = Len(rows)
        /\ \A i \in DOMAIN rows : Len(rows[i]) \notin {0, 7} => ~AreWide(p.wav_feats)
    <2>1. Embedded(n, rows, p)
      BY <1>7, Embedding
    <2>. QED  BY <2>1 DEF Embedded
  <1>9. SameRest(p.m, m)
    <2>1. SameRest(n, m)
      BY <1>3, <1>4 DEF P!ResetCache, SameRest, Caches
    <2>2. SameRest(p.m, n)
      BY <1>8 DEF SameRest, Caches
    <2>. QED  BY <2>1, <2>2 DEF SameRest
  <1>10. ASSUME Len(rows) = 0
         PROVE  p.m = [P!ResetCache(m) EXCEPT !.start_idx_cache_ = m.start_idx_cache_]
    <2>1. PICK s \in Nat : s = n.start_idx_cache_
      BY DEF Caches
    <2>2. s + Len(rows) = s
      BY <1>10
    <2>3. p.m = [n EXCEPT !.start_idx_cache_ = s]
      <3>1. p.m = [n EXCEPT !.start_idx_cache_ = s + Len(rows)]
        BY <1>8, <2>1 DEF Caches
      <3>. QED  BY <2>2, <3>1
    <2>4. m.start_idx_cache_ = s
      BY <1>3, <1>4, <2>1 DEF P!ResetCache, Caches
    <2>. QED  BY <1>3, <1>4, <2>3, <2>4
  <1>11. ASSUME Len(rows) # 0 PROVE ~AreWide(p.wav_feats)
    <2>1. f > 0 /\ Len(feats) < 7 /\ Len(frames) > 0
      BY <1>5, <1>6, <1>11
    <2>2. \A i \in DOMAIN rows : Len(rows[i]) = 1
      BY <1>3, <1>4, <2>1, NarrowRows
    <2>3. 1 \in DOMAIN rows
      <3>1. PICK g \in Nat : g = Len(rows) /\ DOMAIN rows = 1..g
        BY LenProperties
      <3>. QED  BY <1>11, <3>1
    <2>4. PICK i, g : i \in DOMAIN rows /\ g = Len(rows[i]) /\ g = 1
      BY <2>2, <2>3
    <2>5. g \notin {0, 7}
      BY <2>4
    <2>. QED  BY <1>8, <2>4, <2>5
  <1>. QED  BY <1>6, <1>8, <1>9, <1>10, <1>11

\* A new model is as after an utterance without a word.
LEMMA AnewIsFinished ==
    ASSUME weights \in Weightings, P!NewModel \in Caches, NEW crashed \in BOOLEAN,
           NEW m, m = [P!NewModel EXCEPT !.is_first_chunk = FALSE, !.crashed = crashed]
    PROVE  Finished(m)
  <1>1. /\ m \in Caches /\ m.rows = <<>> /\ m.text = 0 /\ m.faulty = FALSE
        /\ m.is_first_chunk = FALSE /\ m.crashed = crashed
    BY DEF Caches, P!NewModel
  <1>2. m = [P!NewModel EXCEPT !.is_first_chunk = FALSE, !.rows = <<>>, !.faulty = FALSE,
                               !.crashed = crashed, !.text = 0]
    <2>1. P!NewModel.rows = <<>> /\ P!NewModel.faulty = FALSE /\ P!NewModel.text = 0
      BY DEF P!NewModel
    <2>. QED  BY <2>1 DEF Caches
  <1>3. P!Total(m.rows) = 0
    BY <1>1, TotalOfNone
  <1>4. 0 = (0 + P!tail_alphas) \div P!cif_threshold
    BY DEF P!tail_alphas, P!cif_threshold
  <1>. QED  BY <1>1, <1>2, <1>3, <1>4 DEF Finished

\* The last n rows, in one chunk or in two: r.
EndsIn(m, rows, n, fault, fault2, r) ==
    /\ n <= 5 => r = P!InitCache(P!ResetCache(P!NextChunk(m, rows, TRUE, TRUE, fault)))
    /\ ~(n <= 5) => r = P!InitCache(P!ResetCache(
                          P!NextChunk(P!NextChunk(m, rows, TRUE, FALSE, fault),
                                    P!LastOf(rows, n - 5), TRUE, TRUE, fault2)))

LEMMA EndChunks ==
    ASSUME NEW p, NEW m, m = p.m, NEW rows \in Seq(Row), rows = p.wav_feats,
           NEW n \in Nat, n = Len(rows), n >= 1,
           NEW fault, NEW fault2, NEW r, r = P!Chunks(p, TRUE, fault, fault2)
    PROVE  EndsIn(m, rows, n, fault, fault2, r)
  <1>1. n # 0
    OBVIOUS
  <1>2. PICK room : room = P!chunk_size[2] - P!chunk_size[3] /\ room = 5
    BY DEF P!chunk_size
  <1>3. PICK b : b = (TRUE /\ n <= room)
    OBVIOUS
  <1>4. r = P!InitCache(P!ResetCache(
              IF n <= room THEN P!NextChunk(m, rows, TRUE, b, fault)
              ELSE P!NextChunk(P!NextChunk(m, rows, TRUE, b, fault),
                             P!LastOf(rows, n - room), TRUE, TRUE, fault2)))
    BY <1>1, <1>2, <1>3, Zenon DEF P!Chunks
  <1>5. (n <= room => b = TRUE) /\ (~(n <= room) => b = FALSE)
    BY <1>3
  <1>. QED  BY <1>2, <1>4, <1>5 DEF EndsIn

\* The last rows finish the utterance, in one chunk or two.
LEMMA OneOrTwoChunks ==
    ASSUME weights \in Weightings, NEW p, p.m \in Caches, p.wav_feats \in Seq(Row),
           Len(p.wav_feats) >= 1, TenRows(p.m), AreWide(p.m.feats_cache_), Integrated(p.m, 0),
           \/ AreWide(p.wav_feats)
           \/ Len(p.wav_feats) <= 5 /\ p.m.rows = <<>> /\ p.m.text = 0,
           NEW fault, NEW fault2, NEW r, r = P!Chunks(p, TRUE, fault, fault2)
    PROVE  Finished(r)
  <1>1. PICK m \in Caches, rows \in Seq(Row) : m = p.m /\ rows = p.wav_feats
    OBVIOUS
  <1>2. PICK n \in Nat : n = Len(rows) /\ n >= 1
    <2>1. PICK n \in Nat : n = Len(rows)
      BY LenProperties
    <2>. QED  BY <1>1, <2>1
  <1>4. EndsIn(m, rows, n, fault, fault2, r)
    BY <1>1, <1>2, EndChunks
  <1>5. TenRows(m) /\ AreWide(m.feats_cache_) /\ Integrated(m, 0)
    BY <1>1
  <1>6. PICK l \in Nat : l = Len(m.feats_cache_) /\ l = 10
    BY <1>5 DEF TenRows
  <1>7. CASE n <= 5
    <2>1. r = P!InitCache(P!ResetCache(P!NextChunk(m, rows, TRUE, TRUE, fault)))
      BY <1>4, <1>7 DEF EndsIn
    <2>2. Len(m.feats_cache_) >= 5
      BY <1>6
    <2>3. AreWide(rows) \/ (m.rows = <<>> /\ m.text = 0)
      BY <1>1, Zenon
    <2>. QED  BY <1>5, <2>1, <2>2, <2>3, LastChunk
  <1>8. CASE ~(n <= 5)
    <2>1. PICK a : a = P!NextChunk(m, rows, TRUE, FALSE, fault)
      OBVIOUS
    <2>2. r = P!InitCache(P!ResetCache(P!NextChunk(a, P!LastOf(rows, n - 5), TRUE, TRUE, fault2)))
      BY <1>4, <1>8, <2>1 DEF EndsIn
    <2>3. AreWide(rows)
      BY <1>1, <1>2, <1>8
    <2>4. PICK k \in Nat : k = n - 5 /\ k <= n
      BY <1>8
    <2>5. P!LastOf(rows, k) \in Seq(Row) /\ AreWide(P!LastOf(rows, k))
      BY <1>2, <2>3, <2>4, WideEnd
    <2>6. PICK fin \in BOOLEAN, end \in BOOLEAN : fin = TRUE /\ end = FALSE
      OBVIOUS
    <2>7. Len(m.feats_cache_) >= IF fin THEN 5 ELSE 10
      <3>1. l >= IF fin THEN 5 ELSE 10
        BY <1>6
      <3>. QED  BY <1>6, <3>1
    <2>8. Chunked(m, rows, fin, end, a)
      BY <2>1, <2>6, <2>7, NextChunking
    <2>9. /\ a \in Caches /\ Len(a.feats_cache_) = 5 /\ AreWide(a.feats_cache_)
          /\ Integrated(a, 0)
      BY <1>5, <2>3, <2>6, <2>8 DEF Chunked
    <2>10. PICK end_rows \in Seq(Row) : end_rows = P!LastOf(rows, k) /\ AreWide(end_rows)
      BY <2>5
    <2>11. r = P!InitCache(P!ResetCache(P!NextChunk(a, end_rows, TRUE, TRUE, fault2)))
      BY <2>2, <2>4, <2>10
    <2>12. Len(a.feats_cache_) >= 5
      BY <2>9
    <2>13. AreWide(end_rows) \/ (a.rows = <<>> /\ a.text = 0)
      BY <2>10
    <2>14. a \in Caches /\ AreWide(a.feats_cache_) /\ Integrated(a, 0)
      BY <2>9
    <2>. QED  BY <2>11, <2>12, <2>13, <2>14, LastChunk
  <1>. QED  BY <1>7, <1>8

\* With the end mark the utterance is finished.
LEMMA Ending ==
    ASSUME weights \in Weightings, NEW m, Going(m), NEW new \in Seq(Unit),
           NEW fault, NEW fault2, NEW r, r = P!Forward(m, new, TRUE, fault, fault2)
    PROVE  Finished(r)
  <1>. DEFINE n == [m EXCEPT !.is_first_chunk = FALSE]
              p == P!GetPosEmb(P!ExtractFeats(n, new, TRUE))
  <1>1. /\ n \in Caches /\ Matched(n) /\ TenRows(n) /\ AreWide(n.feats_cache_)
        /\ ~n.is_last_chunk /\ Integrated(n, 0) /\ n.is_first_chunk = FALSE
        /\ n.rows = m.rows /\ n.text = m.text /\ n.faulty = m.faulty
        /\ n.input_cache_ = m.input_cache_ /\ n.lfr_splice_cache_ = m.lfr_splice_cache_
    BY NoLongerFirst
  <1>2. CASE Len(new) < P!ShortTail /\ ~m.is_first_chunk
    <2>1. r = P!LastRows(m, fault)
      BY <1>2 DEF P!Forward
    <2>. QED  BY <2>1, LastLookedAhead
  <1>3. CASE ~(Len(new) < P!ShortTail /\ ~m.is_first_chunk)
    <2>1. r = P!Chunks(p, TRUE, fault, fault2)
      BY <1>3 DEF P!Forward
    <2>2. PICK frames, feats : frames = P!FbankKaldi(n.input_cache_ \o new) /\ feats = FeatsOf(n, frames)
      OBVIOUS
    <2>3. m.is_first_chunk => IsAnew(m)
      BY DEF Going
    <2>4. m.is_first_chunk \in BOOLEAN /\ m.crashed \in BOOLEAN
      BY DEF Going, Caches
    <2>5. IsAnew(m) => /\ m.lfr_splice_cache_ = <<>> /\ m.input_cache_ = <<>>
                       /\ m.rows = <<>> /\ m.text = 0 /\ ~m.faulty
      BY <2>4, Anew
    <2>6. PICK fin \in BOOLEAN : fin = TRUE
      OBVIOUS
    <2>. HIDE DEF n
    <2>7. p = P!GetPosEmb(P!ExtractFeats(n, new, fin))
      BY <2>6
    <2>. HIDE DEF p
    <2>8. SameRest(p.m, n) =>
            /\ TenRows(p.m) /\ AreWide(p.m.feats_cache_) /\ Integrated(p.m, 0)
            /\ p.m.rows = m.rows /\ p.m.text = m.text
      BY <1>1 DEF SameRest, TenRows, Integrated
    <2>9. CASE Len(frames) > 0 /\ Len(feats) >= 7
      <3>1. /\ p.m \in Caches /\ SameRest(p.m, n)
            /\ p.wav_feats \in Seq(Row) /\ AreWide(p.wav_feats) /\ Len(p.wav_feats) >= 1
        BY <1>1, <2>2, <2>7, <2>9, WideCall
      <3>. QED  BY <2>1, <2>8, <3>1, OneOrTwoChunks
    <2>10. CASE ~(Len(frames) > 0 /\ Len(feats) >= 7)
      <3>1. IsAnew(m)
        <4>1. SUFFICES ASSUME ~IsAnew(m) PROVE FALSE
          OBVIOUS
        <4>2. HasAudio(m) /\ ~m.is_first_chunk
          BY <2>3, <4>1 DEF Going
        <4>3. HasAudio(n)
          BY <1>1, <4>2 DEF HasAudio
        <4>4. PICK u \in Nat : u = Len(new)
          BY LenProperties
        <4>5. u >= 12
          BY <1>3, <4>2, <4>4 DEF P!ShortTail
        <4>6. Len(new) >= 12
          BY <4>4, <4>5
        <4>. QED  BY <1>1, <2>2, <2>10, <4>3, <4>6, EnoughAudio
      <3>2. /\ n.lfr_splice_cache_ = <<>> /\ n.input_cache_ = <<>>
            /\ m.rows = <<>> /\ m.text = 0 /\ ~m.faulty
        BY <1>1, <2>5, <3>1
      <3>3. /\ p.m \in Caches /\ SameRest(p.m, n) /\ p.wav_feats \in Seq(Row)
            /\ Len(p.wav_feats) <= 3
            /\ Len(p.wav_feats) = 0 =>
                 p.m = [P!ResetCache(n) EXCEPT !.start_idx_cache_ = n.start_idx_cache_]
        BY <1>1, <2>2, <2>6, <2>7, <2>10, <3>2, ShortCall
      <3>4. PICK k \in Nat : k = Len(p.wav_feats) /\ k <= 3
        BY <3>3, LenProperties
      <3>5. CASE k = 0
        <4>1. r = p.m
          <5>1. Len(p.wav_feats) = 0
            BY <3>4, <3>5
          <5>. QED  BY <2>1, <5>1, Zenon DEF P!Chunks
        <4>2. PICK crashed \in BOOLEAN : crashed = m.crashed
          BY <2>4
        <4>3. /\ n = [P!NewModel EXCEPT !.is_first_chunk = FALSE, !.crashed = crashed]
              /\ P!NewModel \in Caches
          <5>1. m = [P!NewModel EXCEPT !.is_first_chunk = m.is_first_chunk, !.crashed = crashed]
            BY <3>1, <4>2 DEF IsAnew
          <5>2. P!NewModel \in Caches
            BY <1>1, Resetting
          <5>3. n = [m EXCEPT !.is_first_chunk = FALSE]
            BY DEF n
          <5>4. PICK first \in BOOLEAN :
                  m = [P!NewModel EXCEPT !.is_first_chunk = first, !.crashed = crashed]
            BY <2>4, <5>1
          <5>. QED  BY <5>2, <5>3, <5>4 DEF Caches
        <4>4. p.m = n
          <5>1. p.m = [P!ResetCache(n) EXCEPT !.start_idx_cache_ = n.start_idx_cache_]
            BY <3>3, <3>4, <3>5
          <5>2. n = [reserve_waveforms_ |-> 0, input_cache_ |-> <<>>, lfr_splice_cache_ |-> <<>>,
                     start_idx_cache_ |-> 0, is_first_chunk |-> FALSE, is_last_chunk |-> FALSE,
                     alphas_cache_ |-> 0, feats_cache_ |-> P!Zeros(10), surplus |-> 0,
                     rows |-> <<>>, faulty |-> FALSE, crashed |-> crashed, text |-> 0]
            BY <4>3 DEF P!NewModel
          <5>. QED  BY <5>1, <5>2 DEF P!ResetCache
        <4>. QED  BY <4>1, <4>3, <4>4, AnewIsFinished
      <3>6. CASE k >= 1
        <4>1. Len(p.wav_feats) >= 1 /\ Len(p.wav_feats) <= 5
          BY <3>4, <3>6
        <4>. QED  BY <2>1, <2>8, <3>2, <3>3, <4>1, OneOrTwoChunks
      <3>7. k = 0 \/ k >= 1
        BY <3>4
      <3>. QED  BY <3>5, <3>6, <3>7
    <2>. QED  BY <2>9, <2>10
  <1>. QED  BY <1>2, <1>3

-----------------------------------------------------------------------------
(* The recogniser *)

\* What is counted.
Counts ==
    /\ duration \in Durations /\ weights \in Weightings
    /\ decoded_length_ \in 0..P!ChunkUnits - 1 /\ decoded_length_ <= units
    /\ units \in 0..MaxUnits /\ began \in 0..units
    /\ flushes \in 0..MaxFlushes /\ faults \in 0..MaxFaults

\* The inductive invariant.
Stays == Counts /\ Going(model) /\ P!TokensFollowTheIntegral

\* The units in pcm_ have been decoded.
LEMMA PcmIsDecoded ==
    ASSUME NEW n \in Nat, NEW upTo \in 0..MaxUnits, n <= upTo
    PROVE  P!Pcm(n, upTo) \in Seq(Unit) /\ Len(P!Pcm(n, upTo)) = n
  <1>1. MaxUnits \in Nat
    BY ParaformerAssumption
  <1>2. \A i \in 1..n : upTo - n + i \in Unit
    BY <1>1 DEF Unit
  <1>3. P!Pcm(n, upTo) \in [1..n -> Unit]
    BY <1>2 DEF P!Pcm
  <1>4. P!Pcm(n, upTo) \in Seq(Unit)
    <2>1. \E k \in Nat : P!Pcm(n, upTo) \in [1..k -> Unit]
      BY <1>3
    <2>. QED  BY <2>1, SeqDef
  <1>. QED  BY <1>3, <1>4, LenProperties

\* It holds at first.
LEMMA StaysInit == P!Init => Stays
  <1>. SUFFICES ASSUME P!Init PROVE Stays
    OBVIOUS
  <1>1. Counts
    BY BytedanceAssumption, ParaformerAssumption DEF P!Init, Counts, P!ChunkUnits
  <1>2. Going(model)
    <2>1. P!NewModel.is_first_chunk = TRUE
      BY DEF P!NewModel
    <2>2. IsAnew(P!NewModel)
      <3>1. P!NewModel = [P!NewModel EXCEPT !.is_first_chunk = TRUE]
        BY <2>1, NewIsModel DEF Caches
      <3>2. P!NewModel = [P!NewModel EXCEPT !.is_first_chunk = P!NewModel.is_first_chunk,
                                            !.crashed = P!NewModel.crashed]
        BY NewIsModel DEF Caches
      <3>. QED  BY <3>2 DEF IsAnew
    <2>3. weights \in Weightings /\ model = P!NewModel
      BY DEF P!Init
    <2>4. PICK m : m = P!NewModel
      OBVIOUS
    <2>5. Going(m)
      <3>1. /\ m.is_first_chunk \in BOOLEAN /\ m.crashed \in BOOLEAN /\ IsAnew(m)
            /\ weights \in Weightings
        BY <2>1, <2>2, <2>3, <2>4, NewIsModel DEF Caches
      <3>. QED  BY <3>1, Anew
    <2>. QED  BY <2>3, <2>4, <2>5
  <1>3. P!TokensFollowTheIntegral
    BY DEF P!Init, P!TokensFollowTheIntegral
  <1>. QED  BY <1>1, <1>2, <1>3 DEF Stays

\* What Going and a total say of a model and of rows does not depend on the step.
LEMMA SameWeights ==
    ASSUME weights' = weights
    PROVE  /\ \A m : Going(m) => Going(m)'
           /\ \A rows : P!Total(rows)' = P!Total(rows)
  <1>1. \A rows : P!Total(rows)' = P!Total(rows)
    BY DEF P!Total, P!Weight
  <1>2. \A m : Going(m) => Going(m)'
    BY <1>1 DEF Going, Integrated
  <1>. QED  BY <1>1, <1>2

\* A packet: the model goes on every 120 units.
LEMMA FrameStep ==
    ASSUME Stays, P!DetectFrame
    PROVE  Stays'
  <1>1. weights' = weights /\ weights \in Weightings
    BY DEF Stays, Counts, P!DetectFrame
  <1>2. PICK d \in Nat, l \in Nat, u \in Nat :
          /\ d = duration /\ l = decoded_length_ /\ u = units /\ l <= u /\ u + d <= MaxUnits
          /\ MaxUnits \in Nat
    BY ParaformerAssumption DEF Stays, Counts, P!DetectFrame, P!ChunkUnits
  <1>3. units' = u + d /\ u + d \in 0..MaxUnits
    BY <1>2 DEF P!DetectFrame
  <1>4. /\ duration' = duration /\ began' = began /\ flushes' = flushes /\ last' = last
    BY DEF P!DetectFrame
  <1>5. P!TokensFollowTheIntegral'
    <2>1. \A rows : P!Total(rows)' = P!Total(rows)
      BY <1>1, SameWeights
    <2>. QED  BY <1>4, <2>1 DEF Stays, P!TokensFollowTheIntegral
  <1>6. CASE l + d < P!ChunkUnits
    <2>1. decoded_length_' = l + d /\ model' = model /\ faults' = faults
      BY <1>2, <1>6 DEF P!DetectFrame
    <2>2. Counts'
      BY <1>1, <1>2, <1>3, <1>4, <1>6, <2>1 DEF Stays, Counts, P!ChunkUnits
    <2>3. Going(model)'
      BY <1>1, <2>1, SameWeights DEF Stays, Going, Integrated, P!Total, P!Weight
    <2>. QED  BY <1>5, <2>2, <2>3 DEF Stays
  <1>7. CASE ~(l + d < P!ChunkUnits)
    <2>1. PICK fault \in P!Faults :
            /\ decoded_length_' = 0
            /\ model' = P!Forward(model, P!Pcm(l + d, u + d), FALSE, fault, "none")
            /\ faults' = IF fault \in P!Exceptions THEN faults + 1 ELSE faults
      BY <1>2, <1>3, <1>7 DEF P!DetectFrame
    <2>2. PICK n \in Nat, t \in 0..MaxUnits : n = l + d /\ t = u + d /\ n <= t /\ n >= 18
      BY <1>2, <1>3, <1>7 DEF P!ChunkUnits
    <2>3. PICK new \in Seq(Unit) : new = P!Pcm(l + d, u + d) /\ Len(new) >= 18
      BY <2>2, PcmIsDecoded
    <2>4. PICK m : m = model'
      OBVIOUS
    <2>5. Going(m)
      BY <1>1, <2>1, <2>3, <2>4, GoesOn DEF Stays
    <2>6. Going(model)'
      BY <1>1, <2>4, <2>5 DEF Going, Integrated, P!Total, P!Weight
    <2>7. faults' \in 0..MaxFaults
      BY <2>1, ParaformerAssumption DEF Stays, Counts, P!Exceptions
    <2>8. Counts'
      BY <1>1, <1>2, <1>3, <1>4, <2>1, <2>7 DEF Stays, Counts, P!ChunkUnits
    <2>. QED  BY <1>5, <2>6, <2>8 DEF Stays
  <1>. QED  BY <1>6, <1>7

\* The end mark: what is returned are the tokens of the whole utterance, and the
\* model is as it was made.
LEMMA EndStep ==
    ASSUME Stays, P!DetectEnd
    PROVE  Stays' /\ P!FlushForgets
  <1>1. weights' = weights /\ weights \in Weightings
    BY DEF Stays, Counts, P!DetectEnd
  <1>2. PICK fault, fault2, m :
          /\ fault \in P!Faults /\ fault2 \in P!Faults
          /\ m = P!Forward(model, P!Pcm(decoded_length_, units), TRUE, fault, fault2)
          /\ faults' = IF {fault, fault2} \intersect P!Exceptions = {} THEN faults
                       ELSE faults + 1
          /\ last' = [units |-> units - began, rows |-> m.rows,
                      text |-> m.text, faulty |-> m.faulty]
          /\ model' = [m EXCEPT !.text = 0, !.rows = <<>>, !.faulty = FALSE]
    BY DEF P!DetectEnd
  <1>3. PICK new \in Seq(Unit) : new = P!Pcm(decoded_length_, units)
    <2>1. PICK l \in Nat, u \in 0..MaxUnits : l = decoded_length_ /\ u = units /\ l <= u
      BY DEF Stays, Counts, P!ChunkUnits
    <2>. QED  BY <2>1, PcmIsDecoded
  <1>4. Finished(m)
    BY <1>1, <1>2, <1>3, Ending DEF Stays
  <1>5. PICK first \in BOOLEAN, rows \in Seq(Row), faulty \in BOOLEAN, crashed \in BOOLEAN,
             text \in Nat :
          /\ m = [P!NewModel EXCEPT !.is_first_chunk = first, !.rows = rows, !.faulty = faulty,
                                    !.crashed = crashed, !.text = text]
          /\ m.rows = rows /\ m.faulty = faulty /\ m.text = text
    <2>1. /\ m.is_first_chunk \in BOOLEAN /\ m.rows \in Seq(Row) /\ m.faulty \in BOOLEAN
          /\ m.crashed \in BOOLEAN /\ m.text \in Nat
      BY <1>4 DEF Finished, Caches
    <2>2. m = [P!NewModel EXCEPT !.is_first_chunk = m.is_first_chunk, !.rows = m.rows,
                                 !.faulty = m.faulty, !.crashed = m.crashed, !.text = m.text]
      BY <1>4 DEF Finished
    <2>. QED  BY <2>1, <2>2, Zenon
  <1>6. PICK n : n = [P!NewModel EXCEPT !.is_first_chunk = first, !.crashed = crashed]
    OBVIOUS
  <1>7. /\ n.is_first_chunk = first /\ n.crashed = crashed /\ IsAnew(n)
        /\ ~crashed => [n EXCEPT !.is_first_chunk = TRUE] = P!NewModel
    <2>1. n.is_first_chunk = first /\ n.crashed = crashed
      BY <1>6, NewIsModel DEF Caches
    <2>2. P!NewModel.is_first_chunk = TRUE /\ P!NewModel.crashed = FALSE
      BY DEF P!NewModel
    <2>3. ~crashed => [n EXCEPT !.is_first_chunk = TRUE] = P!NewModel
      BY <1>6, <2>2, NewIsModel DEF Caches
    <2>. QED  BY <1>6, <2>1, <2>3 DEF IsAnew
  <1>8. model' = n
    <2>1. P!NewModel.rows = <<>> /\ P!NewModel.faulty = FALSE /\ P!NewModel.text = 0
      BY DEF P!NewModel
    <2>2. [m EXCEPT !.text = 0, !.rows = <<>>, !.faulty = FALSE] = n
      BY <1>5, <1>6, <2>1, NewIsModel DEF Caches
    <2>. QED  BY <1>2, <2>2
  <1>9. Going(model)'
    <2>1. Going(n)
      BY <1>1, <1>7, Anew
    <2>. QED  BY <1>1, <1>8, <2>1 DEF Going, Integrated, P!Total, P!Weight
  <1>10. faults' \in 0..MaxFaults
    <2>1. MaxFaults \in Nat /\ faults \in 0..MaxFaults
      BY ParaformerAssumption DEF Stays, Counts
    <2>2. {fault, fault2} \intersect P!Exceptions # {} => faults < MaxFaults
      BY DEF P!Exceptions
    <2>3. faults' = faults \/ (faults' = faults + 1 /\ faults < MaxFaults)
      BY <1>2, <2>2
    <2>. QED  BY <2>1, <2>3
  <1>11. Counts'
    <2>1. /\ duration' = duration /\ units' = units /\ began' = units
          /\ decoded_length_' = 0 /\ flushes < MaxFlushes /\ flushes' = flushes + 1
      BY DEF P!DetectEnd
    <2>2. /\ duration \in Durations /\ units \in 0..MaxUnits /\ flushes \in 0..MaxFlushes
          /\ MaxFlushes \in Nat /\ MaxUnits \in Nat
      BY BytedanceAssumption, ParaformerAssumption DEF Stays, Counts
    <2>3. /\ 0 \in 0..P!ChunkUnits - 1 /\ 0 <= units /\ units \in 0..units
          /\ flushes + 1 \in 0..MaxFlushes
      BY <2>1, <2>2 DEF P!ChunkUnits
    <2>. QED  BY <1>1, <1>10, <2>1, <2>2, <2>3 DEF Counts
  <1>12. P!TokensFollowTheIntegral'
    <2>1. \A r : P!Total(r)' = P!Total(r)
      BY <1>1, SameWeights
    <2>2. ~faulty => text = (P!Total(rows) + P!tail_alphas) \div P!cif_threshold
      BY <1>4, <1>5 DEF Finished
    <2>3. last'.rows = rows /\ last'.text = text /\ last'.faulty = faulty
      BY <1>2, <1>5
    <2>. QED  BY <1>1, <2>1, <2>2, <2>3 DEF P!TokensFollowTheIntegral, P!Total, P!Weight
  <1>13. P!FlushForgets
    BY <1>7, <1>8 DEF P!FlushForgets
  <1>. QED  BY <1>9, <1>11, <1>12, <1>13 DEF Stays

\* A step keeps the invariant, and no step but an end mark counts as one.
LEMMA StaysStep ==
    ASSUME Stays, [P!Next]_P!vars
    PROVE  Stays' /\ P!FlushForgets
  <1>1. CASE P!DetectFrame
    BY <1>1, FrameStep DEF P!DetectFrame, P!FlushForgets
  <1>2. CASE P!DetectEnd
    BY <1>2, EndStep
  <1>3. CASE UNCHANGED P!vars
    BY <1>3 DEF P!vars, Stays, Counts, Going, Integrated, P!Total, P!Weight, P!TokensFollowTheIntegral,
                P!FlushForgets
  <1>. QED  BY <1>1, <1>2, <1>3 DEF P!Next, P!Ended

\* So it always holds.
LEMMA StaysHolds == P!Spec => []Stays
  <1>1. Stays /\ [P!Next]_P!vars => Stays'
    BY StaysStep
  <1>. QED  BY <1>1, StaysInit, PTL DEF P!Spec

-----------------------------------------------------------------------------
(* The rows that are weighed *)

\* One sequence after the other.
Joined(S, s, t, h, c, j) ==
    /\ j \in Seq(S) /\ Len(j) = h + c
    /\ \A i \in 1..h : j[i] = s[i]
    /\ \A i \in 1..c : j[h + i] = t[i]

\* What is in it.
LEMMA Both ==
    ASSUME NEW S, NEW s \in Seq(S), NEW t \in Seq(S), NEW h \in Nat, h = Len(s),
           NEW c \in Nat, c = Len(t)
    PROVE  Joined(S, s, t, h, c, s \o t)
  <1>1. /\ s \o t \in Seq(S) /\ Len(s \o t) = h + c
        /\ \A i \in 1..h + c : (s \o t)[i] = IF i <= h THEN s[i] ELSE t[i - h]
    BY ConcatProperties
  <1>2. ASSUME NEW i \in 1..c PROVE (s \o t)[h + i] = t[i]
    <2>1. h + i \in 1..h + c /\ ~(h + i <= h) /\ h + i - h = i
      OBVIOUS
    <2>. QED  BY <1>1, <2>1
  <1>3. ASSUME NEW i \in 1..h PROVE (s \o t)[i] = s[i]
    <2>1. i \in 1..h + c /\ i <= h
      OBVIOUS
    <2>. QED  BY <1>1, <2>1
  <1>. QED  BY <1>1, <1>2, <1>3 DEF Joined

\* The first M rows, one after another, five rows of zeros first.
Uttered(rows, M, n, b) ==
    Len(rows) = M /\ \A i \in 1..M : rows[i] = P!RowOf(i - 6, n, b)

\* What is in the middle of a chunk are the rows from place q + 6 on.
Window(chunk, q, n, b) ==
    \A i \in 6..MiddleEnd(Len(chunk)) : chunk[i] = P!RowOf(q + i, n, b)

\* The middle of a chunk that goes on where the rows end adds its rows to them.
LEMMA Weighing ==
    ASSUME NEW chunk \in Seq(Row), NEW k \in Nat, k = Len(chunk), k >= 5, NEW q \in Int,
           NEW n, NEW b, Window(chunk, q, n, b),
           NEW rows \in Seq(Row), Uttered(rows, q + 11, n, b)
    PROVE  Uttered(rows \o P!Centre(chunk), q + (6 + MiddleEnd(k)), n, b)
  <1>1. PICK e \in Nat : e = MiddleEnd(k) /\ e >= 5 /\ e <= k
    BY DEF MiddleEnd
  <1>2. PICK c \in Nat, M \in Nat : c = e - 5 /\ e = c + 5 /\ M = q + 11 /\ M = Len(rows)
    <2>1. PICK M \in Nat : M = Len(rows)
      BY LenProperties
    <2>. QED  BY <1>1, <2>1 DEF Uttered
  <1>3. PICK centre : centre = P!Centre(chunk) /\ centre = SubSeq(chunk, 6, e)
    <2>1. P!Min({15, k}) = MiddleEnd(k)
      BY MinOfTwo DEF MiddleEnd
    <2>2. P!chunk_size[1] + 1 = 6 /\ P!chunk_size[1] + P!chunk_size[2] = 15
      BY DEF P!chunk_size
    <2>. QED  BY <1>1, <2>1, <2>2 DEF P!Centre
  <1>4. /\ centre \in Seq(Row) /\ Len(centre) = c
        /\ \A j \in 1..c : centre[j] = chunk[5 + j]
    <2>1. \A j \in 6..e : chunk[j] \in Row
      BY <1>1, ElementOfSeq
    <2>2. /\ SubSeq(chunk, 6, e) \in Seq(Row)
          /\ Len(SubSeq(chunk, 6, e)) = IF 6 <= e THEN e - 6 + 1 ELSE 0
          /\ \A j \in 1..e - 6 + 1 : SubSeq(chunk, 6, e)[j] = chunk[6 + j - 1]
      BY <2>1, SubSeqProperties
    <2>3. /\ e - 6 + 1 = c /\ (IF 6 <= e THEN e - 6 + 1 ELSE 0) = c
          /\ \A j \in 1..c : 6 + j - 1 = 5 + j
      BY <1>1, <1>2
    <2>. QED  BY <1>3, <2>2, <2>3
  <1>5. PICK all : all = rows \o centre /\ Joined(Row, rows, centre, M, c, all)
    BY <1>2, <1>4, Both
  <1>6. ASSUME NEW i \in 1..M + c PROVE all[i] = P!RowOf(i - 6, n, b)
    <2>1. CASE i <= M
      <3>1. i \in 1..M
        BY <2>1
      <3>2. all[i] = rows[i]
        BY <1>5, <3>1 DEF Joined
      <3>3. rows[i] = P!RowOf(i - 6, n, b)
        BY <1>2, <3>1 DEF Uttered
      <3>. QED  BY <3>2, <3>3
    <2>2. CASE i > M
      <3>1. PICK j \in 1..c : i = M + j
        <4>1. i - M \in 1..c /\ i = M + (i - M)
          BY <2>2
        <4>. QED  BY <4>1
      <3>2. all[i] = chunk[5 + j]
        BY <1>4, <1>5, <3>1 DEF Joined
      <3>3. PICK x \in 6..e : x = 5 + j /\ q + x = i - 6
        <4>1. 5 + j \in 6..e /\ q + (5 + j) = i - 6
          BY <1>2, <3>1
        <4>. QED  BY <4>1
      <3>4. chunk[x] = P!RowOf(q + x, n, b)
        BY <1>1, <3>3 DEF Window
      <3>. QED  BY <3>2, <3>3, <3>4
    <2>. QED  BY <2>1, <2>2
  <1>7. Len(all) = M + c
    BY <1>5 DEF Joined
  <1>8. M + c = q + (6 + MiddleEnd(k))
    BY <1>1, <1>2
  <1>9. Uttered(all, M + c, n, b)
    BY <1>6, <1>7 DEF Uttered
  <1>. QED  BY <1>3, <1>5, <1>8, <1>9

\* ForwardChunk: unless a session throws, the rows in the middle of the chunk are
\* weighed.
LEMMA ChunkWeighs ==
    ASSUME weights \in Weightings, NEW m \in Caches, NEW chunk \in Seq(Row), AreWide(chunk),
           NEW k \in Nat, k = Len(chunk), k >= 5, NEW q \in Int, NEW n, NEW b,
           Window(chunk, q, n, b), NEW fault,
           NEW r, r = P!ForwardChunk([m |-> m, chunk |-> chunk], fault), ~r.faulty,
           ~m.faulty => Uttered(m.rows, q + 11, n, b)
    PROVE  ~m.faulty /\ Uttered(r.rows, q + (6 + MiddleEnd(k)), n, b)
  <1>. DEFINE cif == P!CifSearch(m, chunk)
              weighed == [m EXCEPT !.alphas_cache_ = cif.integrate, !.rows = @ \o P!Centre(chunk)]
  <1>1. fault # "encoder"
    <2>1. fault = "encoder" => r = [m EXCEPT !.faulty = TRUE]
      BY DEF P!ForwardChunk
    <2>. QED  BY <2>1 DEF Caches
  <1>2. r = P!Decoded(weighed, cif.fired, fault)
    BY <1>1 DEF P!ForwardChunk, AreWide, IsWide
  <1>. HIDE DEF cif
  <1>3. weighed.faulty = m.faulty /\ weighed.rows = m.rows \o P!Centre(chunk)
    BY DEF Caches
  <1>4. m.rows \in Seq(Row)
    BY DEF Caches
  <1>5. r.rows = weighed.rows /\ r.faulty = weighed.faulty
    <2>1. DOMAIN weighed = DOMAIN m
      OBVIOUS
    <2>2. {"text", "faulty", "rows", "surplus", "crashed"} \subseteq DOMAIN m
      BY DEF Caches
    <2>. HIDE DEF weighed
    <2>. QED  BY <1>2, <2>1, <2>2 DEF P!Decoded
  <1>6. ~m.faulty
    BY <1>3, <1>5
  <1>7. Uttered(m.rows \o P!Centre(chunk), q + (6 + MiddleEnd(k)), n, b)
    <2>1. Uttered(m.rows, q + 11, n, b)
      BY <1>6
    <2>. QED  BY <1>4, <2>1, Weighing
  <1>. QED  BY <1>3, <1>5, <1>6, <1>7

-----------------------------------------------------------------------------
(* What chunks are made of *)

\* How long a chunk of h cached and c new rows is.
ChunkLen(h, c, fin, last_chunk) == IF fin /\ ~last_chunk /\ h + c < 20 THEN 20 ELSE h + c

\* A chunk: what was cached and the new rows, whatever comes after them.
Overlaid(cache, rows, h, c, chunk) ==
    \A i \in DOMAIN chunk :
      i <= h + c => chunk[i] = IF i <= h THEN cache[i] ELSE rows[i - h]

\* What AddOverlapChunk makes of them: x.
Overlays(m, rows, fin, h, c, x) ==
    /\ Len(x.chunk) = ChunkLen(h, c, fin, m.is_last_chunk)
    /\ Overlaid(m.feats_cache_, rows, h, c, x.chunk)
    /\ ~fin /\ c = 10 => \A i \in 1..10 : x.m.feats_cache_[i] = rows[i]

\* How many rows of zeros that takes.
Pads(h, c, fin, last_chunk, z) ==
    z \in Nat /\ h + c + z = ChunkLen(h, c, fin, last_chunk)

\* An end that is short of 20 rows is filled up with zeros.
LEMMA Padding ==
    ASSUME NEW h \in Nat, NEW c \in Nat, NEW fin \in BOOLEAN, NEW last_chunk \in BOOLEAN, NEW z,
           z = IF (fin /\ ~last_chunk) /\ 20 - (h + c) > 0 THEN 20 - (h + c) ELSE 0
    PROVE  Pads(h, c, fin, last_chunk, z)
  BY DEF Pads, ChunkLen

\* What AddOverlapChunk puts together, and what it caches of ten new rows.
LEMMA Overlaying ==
    ASSUME NEW m \in Caches, NEW rows \in Seq(Row), NEW fin \in BOOLEAN,
           NEW h \in Nat, h = Len(m.feats_cache_), NEW c \in Nat, c = Len(rows),
           h >= IF fin THEN 5 ELSE 10, NEW x, x = P!AddOverlapChunk(m, rows, fin)
    PROVE  Overlays(m, rows, fin, h, c, x)
  <1>. DEFINE all == m.feats_cache_ \o rows
              cached == IF fin THEN 5 ELSE 10
              kept == P!LastOf(all, cached)
              more == fin /\ ~m.is_last_chunk
              padding == IF more THEN P!Zeros(20 - Len(all)) ELSE <<>>
              d == 20 - (h + c)
              z == IF more /\ d > 0 THEN d ELSE 0
  <1>1. m.feats_cache_ \in Seq(Row)
    BY DEF Caches
  <1>2. /\ all \in Seq(Row) /\ Len(all) = h + c
        /\ \A i \in 1..h : all[i] = m.feats_cache_[i]
        /\ \A i \in 1..c : all[h + i] = rows[i]
    <2>1. Joined(Row, m.feats_cache_, rows, h, c, all)
      BY <1>1, Both
    <2>. HIDE DEF all
    <2>. QED  BY <2>1 DEF Joined
  <1>3. x.m = [m EXCEPT !.feats_cache_ = kept] /\ x.chunk = all \o padding
    <2>1. /\ P!chunk_size[1] + P!chunk_size[3] = 10 /\ P!chunk_size[1] = 5
          /\ P!chunk_size[1] + P!chunk_size[2] + P!chunk_size[3] - Len(all) = 20 - Len(all)
      <3>1. P!chunk_size[1] = 5 /\ P!chunk_size[2] = 10 /\ P!chunk_size[3] = 5
        BY DEF P!chunk_size
      <3>2. Len(all) \in Int
        BY <1>2
      <3>. HIDE DEF all
      <3>. QED  BY <3>1, <3>2
    <2>. QED  BY <2>1 DEF P!AddOverlapChunk
  <1>. HIDE DEF all
  <1>4. padding \in Seq(Row) /\ Len(padding) = z
    <2>1. CASE more
      <3>1. d \in Int /\ padding = P!Zeros(d)
        BY <1>2, <2>1
      <3>2. z = IF d > 0 THEN d ELSE 0
        BY <2>1
      <3>. HIDE DEF padding, z, d
      <3>3. P!Zeros(d) \in Seq(Row) /\ Len(P!Zeros(d)) = z
        BY <3>1, <3>2, ZerosAreRows
      <3>. QED  BY <3>1, <3>3
    <2>2. CASE ~more
      <3>1. padding = <<>> /\ z = 0
        BY <2>2
      <3>. HIDE DEF padding, z
      <3>. QED  BY <3>1, EmptySeq
    <2>. QED  BY <2>1, <2>2
  <1>5. z \in Nat /\ h + c + z = ChunkLen(h, c, fin, m.is_last_chunk)
    <2>1. PICK l \in BOOLEAN : l = m.is_last_chunk
      BY DEF Caches
    <2>2. PICK y : y = z
      OBVIOUS
    <2>3. y = IF (fin /\ ~l) /\ 20 - (h + c) > 0 THEN 20 - (h + c) ELSE 0
      BY <2>1, <2>2
    <2>. HIDE DEF padding, z
    <2>4. Pads(h, c, fin, l, y)
      BY <2>3, Padding
    <2>. QED  BY <2>1, <2>2, <2>4 DEF Pads
  <1>. HIDE DEF padding, more, d, z
  <1>6. /\ x.chunk \in Seq(Row) /\ Len(x.chunk) = h + c + z
        /\ \A i \in 1..h + c : x.chunk[i] = all[i]
    <2>1. PICK a \in Seq(Row), p \in Seq(Row), k \in Nat, y \in Nat :
            /\ a = all /\ p = padding /\ k = h + c /\ y = z
            /\ Len(a) = k /\ Len(p) = y
      BY <1>2, <1>4, <1>5
    <2>2. Joined(Row, a, p, k, y, a \o p)
      BY <2>1, Both
    <2>3. x.chunk = a \o p
      BY <1>3, <2>1
    <2>4. /\ x.chunk \in Seq(Row) /\ Len(x.chunk) = k + y
          /\ \A i \in 1..k : x.chunk[i] = a[i]
      BY <2>2, <2>3 DEF Joined
    <2>. QED  BY <2>1, <2>4
  <1>7. Overlaid(m.feats_cache_, rows, h, c, x.chunk)
    <2>. SUFFICES ASSUME NEW i \in DOMAIN x.chunk, i <= h + c
                  PROVE  x.chunk[i] = IF i <= h THEN m.feats_cache_[i] ELSE rows[i - h]
      BY DEF Overlaid
    <2>1. i \in 1..h + c + z
      BY <1>6, LenProperties
    <2>2. CASE i <= h
      <3>1. i \in 1..h /\ i \in 1..h + c
        BY <2>1, <2>2
      <3>. QED  BY <1>2, <1>6, <2>2, <3>1
    <2>3. CASE i > h
      <3>1. PICK j \in 1..c : i = h + j /\ j = i - h
        <4>1. i - h \in 1..c /\ i = h + (i - h)
          BY <2>1, <2>3
        <4>. QED  BY <4>1
      <3>2. i \in 1..h + c /\ ~(i <= h)
        BY <2>1, <2>3
      <3>. QED  BY <1>2, <1>6, <2>3, <3>1, <3>2
    <2>. QED  BY <2>1, <2>2, <2>3
  <1>8. ASSUME ~fin, c = 10, NEW i \in 1..10 PROVE x.m.feats_cache_[i] = rows[i]
    <2>1. cached = 10
      BY <1>8
    <2>2. kept[i] = all[h + i]
      <3>1. PICK a \in Seq(Row), k \in Nat : a = all /\ k = Len(a) /\ k = h + 10
        BY <1>2, <1>8
      <3>2. 10 \in Nat /\ 10 <= Len(a)
        BY <3>1
      <3>3. \A j \in 1..10 : P!LastOf(a, 10)[j] = a[Len(a) - 10 + j]
        BY <3>2, Ends
      <3>4. k - 10 + i = h + i
        BY <3>1
      <3>5. P!LastOf(a, 10)[i] = a[h + i]
        BY <3>1, <3>3, <3>4
      <3>. QED  BY <2>1, <3>1, <3>5
    <2>3. x.m.feats_cache_ = kept
      BY <1>3 DEF Caches
    <2>. QED  BY <1>2, <1>8, <2>2, <2>3
  <1>. QED  BY <1>5, <1>6, <1>7, <1>8 DEF Overlays

\* What NextChunk weighs and caches.
NextWeighed(m, rows, fin, last_chunk, h, c, q, n, b, r) ==
    /\ ~fin /\ c = 10 => \A i \in 1..10 : r.feats_cache_[i] = rows[i]
    /\ ~r.faulty /\ (~m.faulty => Uttered(m.rows, q + 11, n, b)) =>
         /\ ~m.faulty
         /\ Uttered(r.rows, q + (6 + MiddleEnd(ChunkLen(h, c, fin, last_chunk))), n, b)

\* NextChunk: it weighs what it should when the cached rows and the new ones follow
\* each other and none is left out.
LEMMA NextWeighs ==
    ASSUME weights \in Weightings, NEW m \in Caches, NEW rows \in Seq(Row), NEW fin \in BOOLEAN,
           NEW last_chunk \in BOOLEAN, NEW fault,
           NEW h \in Nat, h = Len(m.feats_cache_), NEW c \in Nat, c = Len(rows),
           h >= IF fin THEN 5 ELSE 10, AreWide(m.feats_cache_), AreWide(rows),
           NEW q \in Int, NEW n, NEW b,
           h + c >= 15 \/ ChunkLen(h, c, fin, last_chunk) = h + c,
           \A i \in 6..h : m.feats_cache_[i] = P!RowOf(q + i, n, b),
           \A i \in 1..c : rows[i] = P!RowOf(q + (h + i), n, b),
           NEW r, r = P!NextChunk(m, rows, fin, last_chunk, fault)
    PROVE  NextWeighed(m, rows, fin, last_chunk, h, c, q, n, b, r)
  <1>. DEFINE flagged == [m EXCEPT !.is_last_chunk = last_chunk]
              x == P!AddOverlapChunk(flagged, rows, fin)
              L == ChunkLen(h, c, fin, last_chunk)
  <1>1. /\ flagged \in Caches /\ flagged.is_last_chunk = last_chunk
        /\ flagged.feats_cache_ = m.feats_cache_
        /\ flagged.rows = m.rows /\ flagged.faulty = m.faulty
    BY DEF Caches
  <1>2. r = P!ForwardChunk(x, fault)
    BY DEF P!NextChunk
  <1>. HIDE DEF flagged
  <1>3. /\ x.chunk \in Seq(Row) /\ x.m.feats_cache_ \in Seq(Row)
        /\ x = [m |-> [flagged EXCEPT !.feats_cache_ = x.m.feats_cache_], chunk |-> x.chunk]
        /\ AreWide(x.chunk)
    BY <1>1, Overlapping
  <1>4. /\ Len(x.chunk) = L /\ Overlaid(m.feats_cache_, rows, h, c, x.chunk)
        /\ ~fin /\ c = 10 => \A i \in 1..10 : x.m.feats_cache_[i] = rows[i]
    <2>1. h = Len(flagged.feats_cache_)
      BY <1>1
    <2>2. Overlays(flagged, rows, fin, h, c, x)
      BY <1>1, <2>1, Overlaying
    <2>. HIDE DEF x
    <2>. QED  BY <1>1, <2>2 DEF Overlays
  <1>. HIDE DEF x
  <1>5. PICK k \in Seq(Row), fc \in Seq(Row) : k = x.chunk /\ fc = x.m.feats_cache_
    BY <1>3
  <1>6. PICK y : y = [flagged EXCEPT !.feats_cache_ = fc]
    OBVIOUS
  <1>7. /\ y \in Caches /\ y.feats_cache_ = fc /\ y.rows = m.rows /\ y.faulty = m.faulty
    BY <1>1, <1>6 DEF Caches
  <1>8. r = P!ForwardChunk([m |-> y, chunk |-> k], fault)
    BY <1>2, <1>3, <1>5, <1>6
  <1>9. r.feats_cache_ = fc
    BY <1>7, <1>8, Forwarding
  <1>10. L \in Nat /\ L >= 5
    BY DEF ChunkLen
  <1>11. Window(k, q, n, b)
    <2>1. MiddleEnd(L) <= L /\ MiddleEnd(L) <= h + c
      BY <1>10 DEF MiddleEnd
    <2>2. PICK e \in Nat : e = MiddleEnd(L) /\ e <= L /\ e <= h + c
      BY <1>10, <2>1 DEF MiddleEnd
    <2>. HIDE DEF L
    <2>. SUFFICES ASSUME NEW i \in 6..e PROVE k[i] = P!RowOf(q + i, n, b)
      BY <1>4, <1>5, <2>2 DEF Window
    <2>3. k[i] = IF i <= h THEN m.feats_cache_[i] ELSE rows[i - h]
      <3>1. i \in DOMAIN k
        BY <1>4, <1>5, <1>10, <2>2, LenProperties
      <3>2. i <= h + c
        BY <2>2
      <3>. QED  BY <1>4, <1>5, <3>1, <3>2 DEF Overlaid
    <2>4. CASE i <= h
      <3>1. i \in 6..h
        BY <2>4
      <3>. QED  BY <2>3, <2>4, <3>1
    <2>5. CASE i > h
      <3>1. PICK j \in 1..c : j = i - h /\ i = h + j
        <4>1. i - h \in 1..c /\ i = h + (i - h)
          BY <2>2, <2>5
        <4>. QED  BY <4>1
      <3>2. ~(i <= h)
        BY <2>5
      <3>. QED  BY <2>3, <3>1, <3>2
    <2>. QED  BY <2>4, <2>5
  <1>12. ASSUME ~r.faulty, ~m.faulty => Uttered(m.rows, q + 11, n, b)
         PROVE  ~m.faulty /\ Uttered(r.rows, q + (6 + MiddleEnd(L)), n, b)
    <2>1. AreWide(k) /\ L \in Nat /\ L >= 5 /\ L = Len(k)
      BY <1>3, <1>4, <1>5, <1>10
    <2>2. ~y.faulty => Uttered(y.rows, q + 11, n, b)
      BY <1>7, <1>12
    <2>. HIDE DEF L
    <2>3. ~y.faulty /\ Uttered(r.rows, q + (6 + MiddleEnd(L)), n, b)
      BY <1>7, <1>8, <1>11, <1>12, <2>1, <2>2, ChunkWeighs
    <2>. QED  BY <1>7, <2>3
  <1>. QED  BY <1>4, <1>5, <1>9, <1>12 DEF NextWeighed

-----------------------------------------------------------------------------
(* What the rows are made of *)

\* What k calls of 120 units after unit b have left for the next one.
Audio(m, k, b) ==
    IF k = 0 THEN m.input_cache_ = <<>> /\ m.lfr_splice_cache_ = <<>>
    ELSE /\ Len(m.input_cache_) = 4 /\ Len(m.lfr_splice_cache_) = 1
         /\ \A i \in 1..4 : m.input_cache_[i] = (b + 120 * k) - 4 + i
         /\ m.lfr_splice_cache_[1] = (b + 120 * k) - 5

\* The units that follow.
Follows(new, k, b) == \A i \in DOMAIN new : new[i] = (b + 120 * k) + i

\* The frame at place u of a call, the first one thrice.
FrameAt(u, k, b) == (b + 1) + 2 * (IF 60 * k + u >= 4 THEN (60 * k + u) - 4 ELSE 0)

\* The units of a call: e that were kept and r new ones.
Waves(waves, e, r, k, b) ==
    /\ waves \in Seq(Unit) /\ Len(waves) = e + r /\ e = IF k = 0 THEN 0 ELSE 4
    /\ \A i \in 1..e + r : waves[i] = ((b + 120 * k) - e) + i

\* The frames of these units, two units apart.
FramesOf(frames, e, f, k, b) ==
    \A i \in 1..f : frames[i] = ((b + 120 * k) - e) + (2 * i - 1)

\* The frames of a call with those in front.
FeatsGoOn(feats, r, k, b) ==
    /\ feats \in Seq(Unit) /\ P!ComputeFrameNum(120 * k + r) = (60 * k + Len(feats)) - 3
    /\ \A u \in DOMAIN feats : feats[u] = FrameAt(u, k, b)

\* The units of a call are without a gap.
LEMMA Hearkening ==
    ASSUME NEW m \in Caches, NEW k \in Nat, NEW b \in Nat, Audio(m, k, b),
           NEW new \in Seq(Unit), NEW r \in Nat, r = Len(new), Follows(new, k, b)
    PROVE  \E e \in Nat : Waves(m.input_cache_ \o new, e, r, k, b)
  <1>1. PICK ic \in Seq(Unit), e \in Nat : ic = m.input_cache_ /\ e = Len(ic)
    <2>1. m.input_cache_ \in Seq(Unit)
      BY DEF Caches
    <2>. QED  BY <2>1, LenProperties
  <1>2. PICK waves : waves = ic \o new /\ Joined(Unit, ic, new, e, r, waves)
    BY <1>1, Both
  <1>3. e = IF k = 0 THEN 0 ELSE 4
    BY <1>1, EmptySeq DEF Audio
  <1>4. ASSUME NEW i \in 1..e + r PROVE waves[i] = ((b + 120 * k) - e) + i
    <2>1. CASE i <= e
      <3>1. k # 0 /\ e = 4 /\ i \in 1..4
        BY <1>3, <2>1
      <3>2. ic[i] = (b + 120 * k) - 4 + i
        BY <1>1, <3>1 DEF Audio
      <3>3. waves[i] = ic[i]
        BY <1>2, <3>1 DEF Joined
      <3>4. PICK o \in Int : o = b + 120 * k
        OBVIOUS
      <3>5. o - 4 + i = (o - e) + i
        BY <3>1
      <3>. QED  BY <3>2, <3>3, <3>4, <3>5
    <2>2. CASE i > e
      <3>1. PICK j \in 1..r : i = e + j
        <4>1. i - e \in 1..r /\ i = e + (i - e)
          BY <2>2
        <4>. QED  BY <4>1
      <3>2. j \in DOMAIN new
        BY <3>1, LenProperties
      <3>3. waves[i] = new[j]
        BY <1>2, <3>1 DEF Joined
      <3>4. PICK o \in Int : o = b + 120 * k
        OBVIOUS
      <3>5. o + j = (o - e) + i
        <4>1. \A x, y, z \in Int : x + z = (x - y) + (y + z)
          OBVIOUS
        <4>. QED  BY <3>1, <4>1
      <3>6. new[j] = o + j
        BY <3>2, <3>4 DEF Follows
      <3>. QED  BY <3>3, <3>4, <3>5, <3>6
    <2>. QED  BY <2>1, <2>2
  <1>5. waves \in Seq(Unit) /\ Len(waves) = e + r
    BY <1>2 DEF Joined
  <1>. QED  BY <1>1, <1>2, <1>3, <1>4, <1>5 DEF Waves

\* The frames of a call are those of its units, two apart.
LEMMA FramesFollow ==
    ASSUME NEW k \in Nat, NEW b \in Nat, NEW e \in Nat, NEW r \in Nat, NEW waves,
           Waves(waves, e, r, k, b), NEW f \in Nat, f = P!ComputeFrameNum(e + r),
           NEW frames, frames = P!FbankKaldi(waves)
    PROVE  FramesOf(frames, e, f, k, b)
  <1>. SUFFICES ASSUME NEW i \in 1..f
                PROVE  frames[i] = ((b + 120 * k) - e) + (2 * i - 1)
    BY DEF FramesOf
  <1>1. 2 * f <= (e + r) - 3
    BY FrameNum
  <1>2. frames[i] = waves[(i - 1) * 2 + 1]
    BY DEF P!FbankKaldi, P!frame_shift, Waves
  <1>3. (i - 1) * 2 + 1 = 2 * i - 1 /\ 2 * i - 1 \in 1..e + r
    BY <1>1
  <1>. QED  BY <1>2, <1>3 DEF Waves

\* With those in front they are without a gap too.
LEMMA Continuing ==
    ASSUME NEW m \in Caches, NEW k \in Nat, NEW b \in Nat, Audio(m, k, b),
           NEW new \in Seq(Unit), NEW r \in Nat, r = Len(new), Follows(new, k, b),
           NEW frames, frames = P!FbankKaldi(m.input_cache_ \o new), Len(frames) > 0,
           NEW feats, feats = FeatsOf(m, frames)
    PROVE  FeatsGoOn(feats, r, k, b)
  <1>1. PICK ls \in Seq(Unit) : ls = m.lfr_splice_cache_
    BY DEF Caches
  <1>2. PICK waves : waves = m.input_cache_ \o new
    OBVIOUS
  <1>3. PICK e \in Nat : Waves(waves, e, r, k, b)
    BY <1>2, Hearkening
  <1>4. waves \in Seq(Unit) /\ Len(waves) = e + r /\ e = IF k = 0 THEN 0 ELSE 4
    BY <1>3 DEF Waves
  <1>5. PICK f \in Nat : f = P!ComputeFrameNum(e + r) /\ f > 0
    <2>1. Len(frames) = P!ComputeFrameNum(e + r)
      BY <1>2, <1>4, Banks
    <2>2. PICK w \in Nat : w = e + r
      OBVIOUS
    <2>3. P!ComputeFrameNum(w) \in Nat
      BY FrameNum
    <2>. QED  BY <2>1, <2>2, <2>3
  <1>6. frames \in Seq(Unit) /\ Len(frames) = f
    BY <1>2, <1>4, <1>5, Banks
  <1>7. \A i \in 1..f : frames[i] = ((b + 120 * k) - e) + (2 * i - 1)
    <2>1. FramesOf(frames, e, f, k, b)
      BY <1>2, <1>3, <1>5, FramesFollow
    <2>. QED  BY <2>1 DEF FramesOf
  <1>8. PICK front \in Seq(Unit) : front = P!Splice(m, frames)
    BY <1>6, Splicing
  <1>. DEFINE s == IF k = 0 THEN 3 ELSE 1
  <1>9. Len(front) = s /\ \A u \in 1..s : front[u] = FrameAt(u, k, b)
    <2>1. CASE k = 0
      <3>1. ls = <<>> /\ frames # <<>>
        BY <1>1, <1>5, <1>6, <2>1, EmptySeq DEF Audio
      <3>2. front = [i \in 1..3 |-> frames[1]]
        BY <1>1, <1>8, <3>1 DEF P!Splice, P!lfr_m
      <3>3. frames[1] = b + 1
        BY <1>4, <1>5, <1>7, <2>1
      <3>4. \A u \in 1..3 : FrameAt(u, k, b) = b + 1
        BY <2>1 DEF FrameAt
      <3>5. Len(front) = 3 /\ \A u \in 1..3 : front[u] = b + 1
        BY <3>2, <3>3, LenProperties
      <3>. QED  BY <2>1, <3>4, <3>5
    <2>2. CASE k # 0
      <3>1. Len(ls) = 1 /\ ls[1] = (b + 120 * k) - 5
        BY <1>1, <2>2 DEF Audio
      <3>2. front = ls
        BY <1>1, <1>8, <3>1, EmptySeq DEF P!Splice
      <3>3. FrameAt(1, k, b) = (b + 120 * k) - 5
        BY <2>2 DEF FrameAt
      <3>4. \A u \in 1..1 : u = 1
        OBVIOUS
      <3>. QED  BY <2>2, <3>1, <3>2, <3>3, <3>4
    <2>. QED  BY <2>1, <2>2
  <1>10. s \in Nat
    OBVIOUS
  <1>11. Joined(Unit, front, frames, s, f, feats)
    <2>1. feats = front \o frames
      BY <1>8 DEF FeatsOf
    <2>. HIDE DEF s
    <2>. QED  BY <1>6, <1>9, <1>10, <2>1, Both
  <1>12. P!ComputeFrameNum(120 * k + r) = (60 * k + (s + f)) - 3
    <2>1. CASE k = 0
      BY <1>4, <1>5, <2>1
    <2>2. CASE k # 0
      <3>1. f = (r - 1) \div 2 + 1
        BY <1>4, <1>5, <2>2 DEF P!ComputeFrameNum, P!frame_length, P!frame_shift
      <3>2. P!ComputeFrameNum(120 * k + r) = ((120 * k + r) - 5) \div 2 + 1
        BY <2>2 DEF P!ComputeFrameNum, P!frame_length, P!frame_shift
      <3>3. ((120 * k + r) - 5) \div 2 = (60 * k - 2) + (r - 1) \div 2
        <4>1. \A x, y \in Int : (2 * x + y) \div 2 = x + (y \div 2)
          OBVIOUS
        <4>2. 2 * (60 * k - 2) + (r - 1) = (120 * k + r) - 5
          OBVIOUS
        <4>3. 60 * k - 2 \in Int /\ r - 1 \in Int
          OBVIOUS
        <4>. QED  BY <4>1, <4>2, <4>3
      <3>4. PICK y \in Int : y = (r - 1) \div 2
        OBVIOUS
      <3>5. P!ComputeFrameNum(120 * k + r) = ((60 * k - 2) + y) + 1 /\ f = y + 1 /\ s = 1
        BY <2>2, <3>1, <3>2, <3>3, <3>4
      <3>6. ((60 * k - 2) + y) + 1 = (60 * k + (1 + (y + 1))) - 3
        OBVIOUS
      <3>. HIDE DEF s
      <3>. QED  BY <3>5, <3>6
    <2>. QED  BY <2>1, <2>2
  <1>13. ASSUME NEW u \in 1..s + f PROVE feats[u] = FrameAt(u, k, b)
    <2>1. CASE u <= s
      <3>1. u \in 1..s
        BY <2>1
      <3>. HIDE DEF s
      <3>. QED  BY <1>9, <1>11, <3>1 DEF Joined
    <2>2. CASE u > s
      <3>1. PICK i \in 1..f : u = s + i
        <4>1. u - s \in 1..f /\ u = s + (u - s)
          BY <2>2
        <4>. QED  BY <4>1
      <3>2. feats[u] = ((b + 120 * k) - e) + (2 * i - 1)
        BY <1>7, <1>11, <3>1 DEF Joined
      <3>3. ((b + 120 * k) - e) + (2 * i - 1) = FrameAt(u, k, b)
        <4>1. CASE k = 0
          BY <1>4, <3>1, <4>1 DEF FrameAt
        <4>2. CASE k # 0
          BY <1>4, <3>1, <4>2 DEF FrameAt
        <4>. QED  BY <4>1, <4>2
      <3>. QED  BY <3>2, <3>3
    <2>. QED  BY <1>10, <2>1, <2>2
  <1>14. feats \in Seq(Unit) /\ Len(feats) = s + f
    BY <1>11 DEF Joined
  <1>15. DOMAIN feats = 1..s + f
    BY <1>14, LenProperties
  <1>. HIDE DEF s
  <1>. QED  BY <1>12, <1>13, <1>14, <1>15 DEF FeatsGoOn

\* The greatest of two numbers.
LEMMA MaxOfTwo ==
    ASSUME NEW x \in Int, NEW y \in Int
    PROVE  P!Max({x, y}) = IF x >= y THEN x ELSE y
  <1>1. \E z \in {x, y} : \A v \in {x, y} : z >= v
    OBVIOUS
  <1>2. P!Max({x, y}) \in {x, y} /\ \A v \in {x, y} : P!Max({x, y}) >= v
    BY <1>1 DEF P!Max
  <1>. QED  BY <1>2

\* The frame w of n, the first or the last one where there is none.
Within(w, n) == IF w > n - 1 THEN n - 1 ELSE IF w >= 0 THEN w ELSE 0

\* It is what the code makes of it.
LEMMA WithinIs ==
    ASSUME NEW n \in Nat, n >= 1, NEW w \in Int
    PROVE  P!Min({n - 1, P!Max({0, w})}) = Within(w, n)
  <1>1. PICK y \in Int : y = IF 0 >= w THEN 0 ELSE w
    OBVIOUS
  <1>2. P!Max({0, w}) = y
    <2>1. P!Max({0, w}) = IF 0 >= w THEN 0 ELSE w
      BY MaxOfTwo
    <2>. QED  BY <1>1, <2>1
  <1>3. PICK z \in Int : z = n - 1
    OBVIOUS
  <1>4. P!Min({z, y}) = IF z <= y THEN z ELSE y
    BY MinOfTwo
  <1>5. (IF z <= y THEN z ELSE y) = Within(w, n)
    BY <1>1, <1>3 DEF Within
  <1>. QED  BY <1>2, <1>3, <1>4, <1>5

\* The frame at place j of row x in an utterance of n frames is frame w.
FrameIs(x, n, b, j, w) == P!RowOf(x, n, b).frames[j] = (b + 1) + 2 * Within(w, n)

\* RowOf takes the frame next to place j, and the first or the last where there is none.
LEMMA FrameOfRow ==
    ASSUME NEW n \in Nat, n >= 1, NEW b \in Nat, NEW x \in Nat, NEW j \in 1..7,
           NEW w \in Int, w = (6 * x + j) - 4
    PROVE  FrameIs(x, n, b, j, w)
  <1>1. P!RowOf(x, n, b).frames[j] = b + 1 + 2 * P!Min({n - 1, P!Max({0, 6 * x + j - 4})})
    <2>1. ~(x < 0)
      OBVIOUS
    <2>. QED  BY <2>1 DEF P!RowOf, P!lfr_m, P!lfr_n, P!frame_shift
  <1>2. 6 * x + j - 4 = w
    OBVIOUS
  <1>3. P!Min({n - 1, P!Max({0, w})}) = Within(w, n)
    BY WithinIs
  <1>. QED  BY <1>1, <1>2, <1>3 DEF FrameIs

\* The frames of a row.
AreFrames(frames, row) ==
    frames \in Seq(Unit) /\ Len(frames) = 7 /\ \A j \in 1..7 : frames[j] = row.frames[j]

\* The row at place x.
IsRow(row, x, frames) == row = [pos |-> x, frames |-> frames]

\* Two rows are the same when their places and frames are.
LEMMA SameRow ==
    ASSUME NEW n, NEW b, NEW x \in Nat, NEW row, row = P!RowOf(x, n, b),
           NEW frames, AreFrames(frames, row)
    PROVE  IsRow(row, x, frames)
  <1>. USE DEF AreFrames, IsRow
  <1>1. frames = [j \in 1..7 |-> frames[j]]
    BY SeqDef, LenProperties
  <1>. DEFINE g == [j \in 1..P!lfr_m |->
                      b + 1 + P!frame_shift * P!Min({n - 1, P!Max({0, P!lfr_n * x + j - 4})})]
  <1>2. row = [pos |-> x, frames |-> g] /\ row.frames = g
    <2>1. ~(x < 0)
      OBVIOUS
    <2>. QED  BY <2>1 DEF P!RowOf
  <1>3. g = [j \in 1..7 |-> g[j]]
    BY DEF P!lfr_m
  <1>. HIDE DEF g
  <1>4. frames = g
    BY <1>1, <1>2, <1>3
  <1>. QED  BY <1>2, <1>4

\* Row x, made of these frames, is the one of an utterance of r units after k calls.
IsNext(frames, x, k, r, b) ==
    [pos |-> x, frames |-> frames] = P!RowOf(x, P!ComputeFrameNum(120 * k + r), b)

\* The rows of a call are those of the utterance.
LEMMA RowsFollow ==
    ASSUME NEW k \in Nat, NEW b \in Nat, NEW r \in Nat, NEW feats, FeatsGoOn(feats, r, k, b),
           NEW T \in Nat, T = Len(feats), T >= 7, NEW fin \in BOOLEAN,
           NEW rows, rows = P!LfrRows(feats, fin), NEW i \in 1..RowNum(T, fin),
           NEW x \in Nat, x = 10 * k + (i - 1)
    PROVE  IsNext(rows[i], x, k, r, b)
  <1>1. /\ feats \in Seq(Unit) /\ P!ComputeFrameNum(120 * k + r) = (60 * k + T) - 3
        /\ \A u \in 1..T : feats[u] = FrameAt(u, k, b)
    BY LenProperties DEF FeatsGoOn
  <1>2. PICK n \in Nat : n = (60 * k + T) - 3 /\ n = P!ComputeFrameNum(120 * k + r) /\ n >= 4
    BY <1>1
  <1>3. /\ rows \in Seq(Seq(Unit)) /\ Len(rows) = RowNum(T, fin)
        /\ \A l \in DOMAIN rows :
             /\ Len(rows[l]) = 7
             /\ \A j \in 1..7 : rows[l][j] = feats[IF (l - 1) * 6 + j <= T THEN (l - 1) * 6 + j ELSE T]
    <2>1. Spliced(rows, feats, T, fin)
      BY <1>1, LowFrameRate
    <2>. QED  BY <2>1 DEF Spliced
  <1>4. i \in DOMAIN rows /\ i \in Nat /\ i >= 1
    BY <1>3, RowNumIsNat, LenProperties
  <1>5. PICK row \in Seq(Unit) : row = rows[i] /\ Len(row) = 7
    BY <1>3, <1>4, ElementOfSeq
  <1>6. ASSUME NEW j \in 1..7 PROVE row[j] = P!RowOf(x, n, b).frames[j]
    <2>1. PICK o \in Nat : o = (i - 1) * 6 + j /\ o >= 1
      BY <1>4
    <2>2. PICK u \in Nat : u = IF o <= T THEN o ELSE T
      BY <2>1
    <2>3. row[j] = feats[u]
      BY <1>3, <1>4, <1>5, <2>1, <2>2
    <2>4. feats[u] = FrameAt(u, k, b)
      BY <1>1, <2>1, <2>2
    <2>5. PICK w \in Int : w = (6 * x + j) - 4
      OBVIOUS
    <2>6. P!RowOf(x, n, b).frames[j] = (b + 1) + 2 * Within(w, n)
      <3>1. n >= 1
        BY <1>2
      <3>2. ASSUME NEW y \in Nat, w = (6 * y + j) - 4 PROVE FrameIs(y, n, b, j, w)
        BY <3>1, <3>2, FrameOfRow
      <3>3. FrameIs(x, n, b, j, w)
        BY <2>5, <3>2
      <3>. QED  BY <3>3 DEF FrameIs
    <2>7. w = (60 * k + o) - 4
      <3>1. \A y, z, v \in Int : 6 * (10 * y + (z - 1)) + v = 60 * y + ((z - 1) * 6 + v)
        OBVIOUS
      <3>2. 6 * x + j = 60 * k + o
        <4>1. PICK l \in Int, v \in Int : l = i /\ v = j
          OBVIOUS
        <4>2. 6 * (10 * k + (l - 1)) + v = 60 * k + ((l - 1) * 6 + v)
          BY <3>1, <4>1
        <4>. QED  BY <2>1, <4>1, <4>2
      <3>. QED  BY <2>5, <3>2
    <2>8. PICK y \in Nat : y = 60 * k
      OBVIOUS
    <2>9. (IF y + u >= 4 THEN (y + u) - 4 ELSE 0) = Within(w, n)
      <3>1. n = (y + T) - 3 /\ w = (y + o) - 4 /\ n >= 4 /\ y + T >= 7
        BY <1>2, <2>7, <2>8
      <3>2. CASE o <= T
        <4>1. u = o /\ ~(w > n - 1)
          BY <2>2, <3>1, <3>2
        <4>. QED  BY <3>1, <4>1 DEF Within
      <3>3. CASE o > T
        <4>1. u = T /\ w > n - 1
          BY <2>2, <3>1, <3>3
        <4>. QED  BY <3>1, <4>1 DEF Within
      <3>. QED  BY <3>2, <3>3
    <2>10. FrameAt(u, k, b) = (b + 1) + 2 * Within(w, n)
      BY <2>8, <2>9 DEF FrameAt
    <2>. QED  BY <2>3, <2>4, <2>6, <2>10
  <1>7. [pos |-> x, frames |-> row] = P!RowOf(x, n, b)
    <2>1. PICK y \in Nat : y = x
      OBVIOUS
    <2>2. PICK full : full = P!RowOf(y, n, b)
      OBVIOUS
    <2>3. \A j \in 1..7 : row[j] = full.frames[j]
      BY <1>6, <2>1, <2>2
    <2>4. AreFrames(row, full)
      BY <1>5, <2>3 DEF AreFrames
    <2>5. IsRow(full, y, row)
      BY <2>2, <2>4, SameRow
    <2>. QED  BY <2>1, <2>2, <2>5 DEF IsRow
  <1>. QED  BY <1>2, <1>5, <1>7 DEF IsNext

\* While the utterance goes on a call makes ten rows.
LEMMA TenRowsOf61 ==
    ASSUME NEW T \in Nat, T = 61, NEW fin \in BOOLEAN, ~fin
    PROVE  RowNum(T, fin) = 10
  <1>1. (T + 2) \div 6 - 1 = 9
    OBVIOUS
  <1>2. {i \in 0..9 : 7 <= T - i * 6} = 0..9
    OBVIOUS
  <1>3. Cardinality(0..9) = 10
    <2>1. 0 \in Int /\ 9 \in Int /\ 9 - 0 + 1 = 10 /\ ~(0 > 9)
      OBVIOUS
    <2>. QED  BY <2>1, FS_Interval
  <1>. QED  BY <1>1, <1>2, <1>3 DEF RowNum


-----------------------------------------------------------------------------
(* Calls *)

\* The c new rows of a call, in an utterance of n frames.
NewRows(rows, c, k, n, b) ==
    Len(rows) = c /\ \A i \in 1..c : rows[i] = P!RowOf(10 * k + (i - 1), n, b)

\* With its end mark, or one after it, a call of 120 units leaves the last frame and
\* the units that are not in it whole.
Left(n, feats, k, b) == Audio(n, k + 1, b) /\ Len(feats) = 61

\* A call of 120 units.
Whole(r) == r = 120

\* Its frames: all but four units are in them, or begin one.
AllBut4(w, f) == 2 * f = w - 4

\* The filter bank makes 58 frames of the first call and 60 of each later one.
LEMMA FramesOfWhole ==
    ASSUME NEW e \in Nat, e = 0 \/ e = 4, NEW w \in Nat, w = e + 120,
           NEW f \in Nat, f = P!ComputeFrameNum(w)
    PROVE  AllBut4(w, f)
  <1>. USE DEF AllBut4
  <1>1. CASE e = 0
    <2>1. w = 120 /\ (120 - 5) \div 2 = 57
      BY <1>1
    <2>2. f = 58
      BY <2>1 DEF P!ComputeFrameNum, P!frame_length, P!frame_shift
    <2>. QED  BY <2>1, <2>2
  <1>2. CASE e = 4
    <2>1. w = 124 /\ (124 - 5) \div 2 = 59
      BY <1>2
    <2>2. f = 60
      BY <2>1 DEF P!ComputeFrameNum, P!frame_length, P!frame_shift
    <2>. QED  BY <2>1, <2>2
  <1>. QED  BY <1>1, <1>2

\* Those of k calls and another one.
LEMMA FramesOfAll ==
    ASSUME NEW k \in Nat, NEW r \in Nat, Whole(r)
    PROVE  P!ComputeFrameNum(120 * k + r) = 60 * k + 58
  <1>1. ((120 * k + 120) - 5) \div 2 = 60 * k + 57
    OBVIOUS
  <1>2. P!ComputeFrameNum(120 * k + 120) = ((120 * k + 120) - 5) \div 2 + 1
    BY DEF P!ComputeFrameNum, P!frame_length, P!frame_shift
  <1>. QED  BY <1>1, <1>2 DEF Whole

\* What a call of 120 units leaves for the next one.
LEMMA Leaving ==
    ASSUME NEW m \in Caches, Matched(m), NEW k \in Nat, NEW b \in Nat, Audio(m, k, b),
           NEW new \in Seq(Unit), NEW r \in Nat, Whole(r), r = Len(new), Follows(new, k, b),
           NEW frames, frames = P!FbankKaldi(m.input_cache_ \o new), Len(frames) > 0,
           NEW feats, feats = FeatsOf(m, frames), NEW fin \in BOOLEAN, ~fin, NEW n,
           n = P!Kept(m, m.input_cache_ \o new, frames, feats, P!WavFeats(frames, feats, fin))
    PROVE  Left(n, feats, k, b)
  <1>1. PICK waves : waves = m.input_cache_ \o new
    OBVIOUS
  <1>2. PICK e \in Nat : Waves(waves, e, r, k, b)
    BY <1>1, Hearkening
  <1>3. /\ waves \in Seq(Unit) /\ Len(waves) = e + r /\ e = IF k = 0 THEN 0 ELSE 4
        /\ \A i \in 1..e + r : waves[i] = ((b + 120 * k) - e) + i
    BY <1>2 DEF Waves
  <1>4. PICK f \in Nat, w \in Nat : f = Len(frames) /\ w = Len(waves) /\ 2 * f = w - 4 /\ w = e + 120
    <2>1. PICK w \in Nat : w = Len(waves) /\ w = e + 120
      <3>1. ASSUME NEW x \in Nat, Whole(x) PROVE e + x \in Nat /\ e + x = e + 120
        BY <3>1 DEF Whole
      <3>2. e + r \in Nat /\ e + r = e + 120
        BY <3>1
      <3>. QED  BY <1>3, <3>2
    <2>2. PICK f \in Nat : f = P!ComputeFrameNum(w)
      BY FrameNum
    <2>3. Len(frames) = f
      BY <1>1, <1>3, <2>1, <2>2, Banks
    <2>4. 2 * f = w - 4
      <3>1. e = 0 \/ e = 4
        BY <1>3
      <3>2. AllBut4(w, f)
        BY <2>1, <2>2, <3>1, FramesOfWhole
      <3>. QED  BY <3>2 DEF AllBut4
    <2>. QED  BY <2>1, <2>3, <2>4
  <1>5. FeatsGoOn(feats, r, k, b)
    BY Continuing
  <1>6. feats \in Seq(Unit) /\ Len(feats) = 61 /\ feats[61] = (b + 120 * (k + 1)) - 5
    <2>1. PICK l \in Nat : l = Len(feats)
      BY <1>5, LenProperties DEF FeatsGoOn
    <2>2. P!ComputeFrameNum(120 * k + r) = (60 * k + l) - 3
      BY <1>5, <2>1 DEF FeatsGoOn
    <2>3. l = 61
      <3>1. PICK a \in Int : a = 60 * k
        OBVIOUS
      <3>2. a + 58 = (a + l) - 3
        BY <2>2, <3>1, FramesOfAll
      <3>. QED  BY <3>2
    <2>4. feats \in Seq(Unit) /\ DOMAIN feats = 1..l
      BY <1>5, <2>1, LenProperties DEF FeatsGoOn
    <2>5. l \in DOMAIN feats
      BY <2>3, <2>4
    <2>6. feats[l] = FrameAt(l, k, b)
      BY <1>5, <2>5 DEF FeatsGoOn
    <2>7. FrameAt(l, k, b) = (b + 120 * (k + 1)) - 5
      BY <2>3 DEF FrameAt
    <2>. QED  BY <2>1, <2>3, <2>4, <2>6, <2>7
  <1>7. /\ n.input_cache_ = SubSeq(waves, 2 * f + 1, w)
        /\ \E v \in Nat : /\ v = Len(feats) /\ v = 61
                         /\ n.lfr_splice_cache_ = SubSeq(feats, NextRow(v, fin) + 1, v)
    <2>1. frames = P!FbankKaldi(waves) /\ n = P!Kept(m, waves, frames, feats, P!WavFeats(frames, feats, fin))
      BY <1>1
    <2>2. Keeps(m, waves, frames, feats, fin, n)
      BY <1>3, <2>1, Keeping
    <2>3. Len(feats) >= 7
      BY <1>6
    <2>4. /\ n.input_cache_ = SubSeq(waves, 2 * Len(frames) + 1, Len(waves))
          /\ n.lfr_splice_cache_ = SubSeq(feats, NextRow(Len(feats), fin) + 1, Len(feats))
      BY <2>2, <2>3, Zenon DEF Keeps
    <2>5. PICK v : v = Len(feats)
      OBVIOUS
    <2>6. v = 61 /\ v \in Nat
      BY <1>6, <2>5
    <2>. QED  BY <1>4, <2>4, <2>5, <2>6
  <1>8. Len(n.input_cache_) = 4 /\ \A i \in 1..4 : n.input_cache_[i] = (b + 120 * (k + 1)) - 4 + i
    <2>1. PICK g \in Nat : g = 2 * f /\ w = g + 4 /\ g <= w
      BY <1>4
    <2>2. Behind(SubSeq(waves, g + 1, w), waves, g, w)
      BY <1>3, <1>4, <2>1, RestBehind
    <2>3. w - g = 4 /\ n.input_cache_ = SubSeq(waves, g + 1, w)
      BY <1>7, <2>1
    <2>4. Len(n.input_cache_) = 4 /\ \A i \in 1..4 : n.input_cache_[i] = waves[g + i]
      BY <2>2, <2>3 DEF Behind
    <2>5. ASSUME NEW i \in 1..4 PROVE waves[g + i] = (b + 120 * (k + 1)) - 4 + i
      <3>1. g + i \in 1..e + r /\ g = e + 116
        <4>1. ASSUME NEW x \in Nat, Whole(x) PROVE g + i \in 1..e + x /\ g = e + 116
          BY <1>4, <2>1, <4>1 DEF Whole
        <4>. QED  BY <4>1
      <3>2. waves[g + i] = ((b + 120 * k) - e) + (g + i)
        BY <1>3, <3>1
      <3>. QED  BY <3>1, <3>2
    <2>. QED  BY <2>4, <2>5
  <1>9. Len(n.lfr_splice_cache_) = 1 /\ n.lfr_splice_cache_[1] = (b + 120 * (k + 1)) - 5
    <2>1. PICK v \in Nat : /\ v = Len(feats) /\ v = 61
                          /\ n.lfr_splice_cache_ = SubSeq(feats, NextRow(v, fin) + 1, v)
      BY <1>7
    <2>2. PICK g \in Nat : g = NextRow(v, fin) /\ g = 60
      <3>1. RowNum(v, fin) = 10
        BY <2>1, TenRowsOf61
      <3>. QED  BY <2>1, <3>1 DEF NextRow
    <2>3. Behind(SubSeq(feats, g + 1, v), feats, g, v)
      <3>1. g <= v
        BY <2>1, <2>2
      <3>. QED  BY <1>6, <2>1, <3>1, RestBehind
    <2>4. Behind(n.lfr_splice_cache_, feats, g, v)
      BY <2>1, <2>2, <2>3
    <2>5. v - g = 1 /\ g + 1 = 61
      BY <2>1, <2>2
    <2>6. Len(n.lfr_splice_cache_) = 1 /\ n.lfr_splice_cache_[1] = feats[61]
      BY <2>4, <2>5 DEF Behind
    <2>. QED  BY <1>6, <2>6
  <1>10. k + 1 # 0
    OBVIOUS
  <1>. QED  BY <1>6, <1>8, <1>9, <1>10 DEF Audio, Left

\* What a call makes of the model and its audio: p with T frames.
Called(p, T, fin, k, r, b) ==
    /\ NewRows(p.wav_feats, RowNum(T, fin), k, P!ComputeFrameNum(120 * k + r), b)
    /\ ~fin /\ Whole(r) => /\ Audio(p.m, k + 1, b) /\ p.m.start_idx_cache_ = 10 * (k + 1)
                          /\ T = 61

\* The rows of a call that makes rows are the next ones of the utterance.
LEMMA CallFollows ==
    ASSUME NEW m \in Caches, Matched(m), NEW k \in Nat, NEW b \in Nat, Audio(m, k, b),
           m.start_idx_cache_ = 10 * k,
           NEW new \in Seq(Unit), NEW r \in Nat, r = Len(new), Follows(new, k, b),
           NEW frames, frames = P!FbankKaldi(m.input_cache_ \o new), Len(frames) > 0,
           NEW feats, feats = FeatsOf(m, frames), NEW T \in Nat, T = Len(feats), T >= 7,
           NEW fin \in BOOLEAN, NEW p, p = P!GetPosEmb(P!ExtractFeats(m, new, fin))
    PROVE  Called(p, T, fin, k, r, b)
  <1>1. PICK x : x = P!ExtractFeats(m, new, fin)
    OBVIOUS
  <1>2. /\ frames \in Seq(Unit) /\ feats \in Seq(Unit)
        /\ x.wav_feats = P!WavFeats(frames, feats, fin) /\ x.wav_feats \in Seq(Seq(Unit))
        /\ x = [m |-> x.m, wav_feats |-> x.wav_feats] /\ x.m \in Caches
        /\ ~fin => x.m = P!Kept(m, m.input_cache_ \o new, frames, feats, x.wav_feats)
        /\ OnlyAudio(m, x.m)
    <2>1. Extracted(m, new, frames, feats, fin, x)
      BY <1>1, Extracting
    <2>. QED  BY <2>1 DEF Extracted
  <1>3. PICK n \in Caches, rows \in Seq(Seq(Unit)) : n = x.m /\ rows = x.wav_feats
    BY <1>2
  <1>4. rows = P!LfrRows(feats, fin) /\ Len(rows) = RowNum(T, fin)
    BY <1>2, <1>3, WideRows
  <1>5. PICK c \in Nat : c = RowNum(T, fin)
    BY RowNumIsNat
  <1>6. n.start_idx_cache_ = 10 * k
    <2>1. n.start_idx_cache_ = m.start_idx_cache_
      BY <1>2, <1>3 DEF OnlyAudio, Caches
    <2>. QED  BY <2>1
  <1>7. p = P!GetPosEmb([m |-> n, wav_feats |-> rows])
    BY <1>1, <1>2, <1>3
  <1>8. /\ p.m = [n EXCEPT !.start_idx_cache_ = @ + Len(rows)]
        /\ Len(p.wav_feats) = Len(rows)
        /\ \A i \in 1..Len(rows) :
             p.wav_feats[i] = [pos |-> n.start_idx_cache_ + i - 1, frames |-> rows[i]]
    <2>1. Embedded(n, rows, p)
      BY <1>7, Embedding
    <2>. QED  BY <2>1 DEF Embedded
  <1>9. FeatsGoOn(feats, r, k, b)
    BY Continuing
  <1>10. ASSUME NEW i \in 1..c
         PROVE  p.wav_feats[i] = P!RowOf(10 * k + (i - 1), P!ComputeFrameNum(120 * k + r), b)
    <2>1. PICK pos \in Nat : pos = 10 * k + (i - 1)
      OBVIOUS
    <2>2. [pos |-> pos, frames |-> rows[i]] = P!RowOf(pos, P!ComputeFrameNum(120 * k + r), b)
      <3>1. i \in 1..RowNum(T, fin)
        BY <1>5
      <3>2. IsNext(rows[i], pos, k, r, b)
        BY <1>4, <1>9, <2>1, <3>1, RowsFollow
      <3>. QED  BY <3>2 DEF IsNext
    <2>3. n.start_idx_cache_ + i - 1 = pos
      BY <1>6, <2>1
    <2>4. p.wav_feats[i] = [pos |-> pos, frames |-> rows[i]]
      BY <1>4, <1>5, <1>8, <2>3
    <2>. QED  BY <2>1, <2>2, <2>4
  <1>11. NewRows(p.wav_feats, c, k, P!ComputeFrameNum(120 * k + r), b)
    BY <1>4, <1>5, <1>8, <1>10 DEF NewRows
  <1>12. ASSUME ~fin, Whole(r)
         PROVE  Audio(p.m, k + 1, b) /\ p.m.start_idx_cache_ = 10 * (k + 1) /\ T = 61
    <2>1. ~fin /\ n = P!Kept(m, m.input_cache_ \o new, frames, feats, P!WavFeats(frames, feats, fin))
      BY <1>2, <1>3, <1>12
    <2>2. Left(n, feats, k, b)
      BY <1>12, <2>1, Leaving
    <2>3. Audio(n, k + 1, b) /\ T = 61
      BY <2>2 DEF Left
    <2>4. p.m.input_cache_ = n.input_cache_ /\ p.m.lfr_splice_cache_ = n.lfr_splice_cache_
      BY <1>8 DEF Caches
    <2>5. Len(rows) = 10
      BY <1>4, <2>1, <2>3, TenRowsOf61
    <2>6. p.m.start_idx_cache_ = n.start_idx_cache_ + Len(rows)
      BY <1>8 DEF Caches
    <2>7. p.m.start_idx_cache_ = 10 * (k + 1)
      BY <1>6, <2>5, <2>6
    <2>. QED  BY <2>3, <2>4, <2>7 DEF Audio
  <1>. QED  BY <1>5, <1>11, <1>12 DEF Called

-----------------------------------------------------------------------------
(* The utterance so far *)

\* As long as there is no frame behind the last one of row x, it does not matter how
\* many frames the utterance has.
LEMMA RowStays ==
    ASSUME NEW x \in Nat, NEW b \in Nat, NEW n1 \in Nat, NEW n2 \in Nat,
           6 * x + 4 <= n1, 6 * x + 4 <= n2
    PROVE  P!RowOf(x, n1, b) = P!RowOf(x, n2, b)
  <1>1. ASSUME NEW j \in 1..7
        PROVE  P!Min({n1 - 1, P!Max({0, 6 * x + j - 4})}) = P!Min({n2 - 1, P!Max({0, 6 * x + j - 4})})
    <2>1. PICK w \in Int : w = 6 * x + j - 4
      OBVIOUS
    <2>2. w <= n1 - 1 /\ w <= n2 - 1
      BY <2>1
    <2>3. P!Min({n1 - 1, P!Max({0, w})}) = Within(w, n1) /\ P!Min({n2 - 1, P!Max({0, w})}) = Within(w, n2)
      BY WithinIs
    <2>4. Within(w, n1) = Within(w, n2)
      BY <2>2 DEF Within
    <2>. QED  BY <2>1, <2>3, <2>4
  <1>2. /\ P!RowOf(x, n1, b) = [pos |-> x, frames |-> [j \in 1..7 |->
                                b + 1 + 2 * P!Min({n1 - 1, P!Max({0, 6 * x + j - 4})})]]
        /\ P!RowOf(x, n2, b) = [pos |-> x, frames |-> [j \in 1..7 |->
                                b + 1 + 2 * P!Min({n2 - 1, P!Max({0, 6 * x + j - 4})})]]
    <2>1. ~(x < 0)
      OBVIOUS
    <2>. QED  BY <2>1 DEF P!RowOf, P!lfr_m, P!lfr_n, P!frame_shift
  <1>. QED  BY <1>1, <1>2

\* The rows that wait after k calls.
Waiting(rows, k, n, b) == \A i \in 1..10 : rows[i] = P!RowOf((10 * k - 11) + i, n, b)

\* The model after k calls of 120 units that follow unit b.
Exact(m, k, b) ==
    /\ k > 0 => ~m.is_first_chunk
    /\ k = 0 => IsAnew(m)
    /\ Audio(m, k, b) /\ m.start_idx_cache_ = 10 * k
    /\ \E n \in Nat : /\ n = 60 * k - 2 \/ k = 0
                      /\ Waiting(m.feats_cache_, k, n, b)
                      /\ ~m.faulty => Uttered(m.rows, 10 * k, n, b)

\* In a longer utterance those rows are the same.
Lasting(m, k, n, b) ==
    /\ Waiting(m.feats_cache_, k, n, b)
    /\ ~m.faulty => Uttered(m.rows, 10 * k, n, b)

\* However many units follow, the rows that wait and those weighed stay what they are.
LEMMA RowsLast ==
    ASSUME NEW m, NEW k \in Nat, NEW b \in Nat, Exact(m, k, b),
           NEW n \in Nat, n >= 60 * k - 2
    PROVE  Lasting(m, k, n, b)
  <1>1. PICK p \in Nat : /\ p = 60 * k - 2 \/ k = 0
                         /\ Waiting(m.feats_cache_, k, p, b)
                         /\ ~m.faulty => Uttered(m.rows, 10 * k, p, b)
    BY DEF Exact
  <1>2. PICK K \in Nat : K = 10 * k /\ 6 * K = 60 * k
    OBVIOUS
  <1>3. ASSUME NEW x \in Int, x <= K - 1 PROVE P!RowOf(x, p, b) = P!RowOf(x, n, b)
    <2>1. CASE x < 0
      BY <2>1 DEF P!RowOf
    <2>2. CASE ~(x < 0)
      <3>1. k # 0
        BY <1>2, <1>3, <2>2
      <3>2. x \in Nat /\ 6 * x + 4 <= p /\ 6 * x + 4 <= n
        BY <1>1, <1>2, <1>3, <2>2, <3>1
      <3>. QED  BY <3>2, RowStays
    <2>. QED  BY <2>1, <2>2
  <1>4. Waiting(m.feats_cache_, k, n, b)
    <2>. SUFFICES ASSUME NEW i \in 1..10
                  PROVE  m.feats_cache_[i] = P!RowOf((10 * k - 11) + i, n, b)
      BY DEF Waiting
    <2>1. PICK x \in Int : x = (10 * k - 11) + i /\ x <= K - 1
      BY <1>2
    <2>2. m.feats_cache_[i] = P!RowOf(x, p, b)
      BY <1>1, <2>1 DEF Waiting
    <2>. QED  BY <1>3, <2>1, <2>2
  <1>5. ASSUME ~m.faulty PROVE Uttered(m.rows, 10 * k, n, b)
    <2>1. Uttered(m.rows, K, p, b)
      BY <1>1, <1>2, <1>5
    <2>2. ASSUME NEW i \in 1..K PROVE m.rows[i] = P!RowOf(i - 6, n, b)
      <3>1. i - 6 \in Int /\ i - 6 <= K - 1
        OBVIOUS
      <3>2. m.rows[i] = P!RowOf(i - 6, p, b)
        BY <2>1 DEF Uttered
      <3>. QED  BY <1>3, <3>1, <3>2
    <2>. QED  BY <1>2, <2>1, <2>2 DEF Uttered
  <1>. QED  BY <1>4, <1>5 DEF Lasting

\* What ten more rows make of what waits and what was weighed.
LEMMA TenMore ==
    ASSUME NEW rows, NEW cache, NEW k \in Nat, NEW n \in Nat, NEW b, NewRows(rows, 10, k, n, b),
           \A i \in 1..10 : cache[i] = rows[i]
    PROVE  Waiting(cache, k + 1, n, b)
  <1>. SUFFICES ASSUME NEW i \in 1..10
                PROVE  cache[i] = P!RowOf((10 * (k + 1) - 11) + i, n, b)
    BY DEF Waiting
  <1>1. PICK x \in Nat : x = 10 * k + (i - 1)
    OBVIOUS
  <1>2. cache[i] = P!RowOf(x, n, b)
    BY <1>1 DEF NewRows
  <1>3. (10 * (k + 1) - 11) + i = x
    BY <1>1
  <1>. QED  BY <1>2, <1>3

-----------------------------------------------------------------------------
(* A call while the utterance goes on *)

\* What is exact of the caches of audio stays so in what goes on with them.
LEMMA AudioStays ==
    ASSUME NEW m \in Caches, NEW n \in Caches, SameFeatures(n, m), NEW k, NEW b, Audio(m, k, b)
    PROVE  Audio(n, k, b)
  BY DEF SameFeatures, Audio

\* The model n that a call goes on with.
AsExact(n, m, k, b) ==
    /\ Audio(n, k, b) /\ n.start_idx_cache_ = 10 * k
    /\ n.feats_cache_ = m.feats_cache_ /\ n.rows = m.rows /\ n.faulty = m.faulty

\* The first call is told apart by a flag; nothing else depends on it.
LEMMA SameExact ==
    ASSUME NEW m, Going(m), NEW k \in Nat, NEW b \in Nat, Exact(m, k, b), NEW n,
           n = [m EXCEPT !.is_first_chunk = FALSE]
    PROVE  AsExact(n, m, k, b)
  <1>1. m \in Caches
    BY DEF Going
  <1>2. /\ n.feats_cache_ = m.feats_cache_ /\ n.rows = m.rows /\ n.faulty = m.faulty
        /\ n.input_cache_ = m.input_cache_ /\ n.lfr_splice_cache_ = m.lfr_splice_cache_
        /\ n.start_idx_cache_ = m.start_idx_cache_
    BY <1>1 DEF Caches
  <1>. QED  BY <1>2 DEF Exact, Audio, AsExact

\* 120 units more.
LEMMA GoesOnExactly ==
    ASSUME weights \in Weightings, NEW m, Going(m), NEW k \in Nat, NEW b \in Nat,
           Exact(m, k, b), NEW new \in Seq(Unit), NEW l \in Nat, l = Len(new), Whole(l),
           Follows(new, k, b), NEW fault, NEW fault2, NEW r,
           r = P!Forward(m, new, FALSE, fault, fault2)
    PROVE  Exact(r, k + 1, b)
  <1>. DEFINE p == P!GetPosEmb(P!ExtractFeats([m EXCEPT !.is_first_chunk = FALSE], new, FALSE))
  <1>1. PICK n : n = [m EXCEPT !.is_first_chunk = FALSE]
    OBVIOUS
  <1>2. /\ n \in Caches /\ Matched(n) /\ TenRows(n) /\ AreWide(n.feats_cache_)
        /\ n.is_first_chunk = FALSE
    BY <1>1, NoLongerFirst
  <1>3. /\ Audio(n, k, b) /\ n.start_idx_cache_ = 10 * k
        /\ n.feats_cache_ = m.feats_cache_ /\ n.rows = m.rows /\ n.faulty = m.faulty
    <2>1. AsExact(n, m, k, b)
      BY <1>1, SameExact
    <2>. QED  BY <2>1 DEF AsExact
  <1>4. r = P!Chunks(p, FALSE, fault, fault2)
    BY DEF P!Forward
  <1>5. PICK fin \in BOOLEAN, end \in BOOLEAN : fin = FALSE /\ end = FALSE
    OBVIOUS
  <1>6. p = P!GetPosEmb(P!ExtractFeats(n, new, fin))
    BY <1>1, <1>5
  <1>. HIDE DEF p
  <1>7. PICK frames, feats : frames = P!FbankKaldi(n.input_cache_ \o new) /\ feats = FeatsOf(n, frames)
    OBVIOUS
  <1>8. Len(frames) > 0 /\ Len(feats) >= 7
    <2>1. Len(new) >= 18
      <3>1. \A x \in Nat : Whole(x) => x >= 18
        BY DEF Whole
      <3>. QED  BY <3>1
    <2>. QED  BY <1>2, <1>7, <2>1, EnoughAudio
  <1>9. /\ p.m \in Caches /\ SameRest(p.m, n)
        /\ p.wav_feats \in Seq(Row) /\ AreWide(p.wav_feats) /\ Len(p.wav_feats) >= 1
    BY <1>2, <1>6, <1>7, <1>8, WideCall
  <1>10. PICK T \in Nat : T = Len(feats)
    <2>1. /\ frames \in Seq(Unit) /\ feats \in Seq(Unit)
      <3>1. PICK x : x = P!ExtractFeats(n, new, fin)
        OBVIOUS
      <3>2. Extracted(n, new, frames, feats, fin, x)
        BY <1>2, <1>7, <3>1, Extracting
      <3>. QED  BY <3>2 DEF Extracted
    <2>. QED  BY <2>1, LenProperties
  <1>11. Called(p, T, fin, k, l, b)
    <2>1. T >= 7
      BY <1>8, <1>10
    <2>. QED  BY <1>2, <1>3, <1>6, <1>7, <1>8, <1>10, <2>1, CallFollows
  <1>12. PICK q \in Int, f \in Nat :
           /\ q = 10 * k - 11 /\ f = 60 * k + 58
           /\ f = P!ComputeFrameNum(120 * k + l)
    <2>1. P!ComputeFrameNum(120 * k + l) = 60 * k + 58
      BY FramesOfAll
    <2>. QED  BY <2>1
  <1>13. /\ NewRows(p.wav_feats, 10, k, f, b)
         /\ Audio(p.m, k + 1, b) /\ p.m.start_idx_cache_ = 10 * (k + 1)
    <2>1. /\ NewRows(p.wav_feats, RowNum(T, fin), k, f, b)
          /\ Audio(p.m, k + 1, b) /\ p.m.start_idx_cache_ = 10 * (k + 1) /\ T = 61
      BY <1>5, <1>11, <1>12 DEF Called
    <2>2. RowNum(T, fin) = 10
      BY <1>5, <2>1, TenRowsOf61
    <2>. QED  BY <2>1, <2>2
  <1>14. PICK pm \in Caches, rows \in Seq(Row) : pm = p.m /\ rows = p.wav_feats
    BY <1>9
  <1>15. r = P!NextChunk(pm, rows, fin, end, fault)
    <2>1. ~(Len(p.wav_feats) = 0)
      BY <1>9
    <2>2. P!Chunks(p, FALSE, fault, fault2) = P!NextChunk(p.m, p.wav_feats, FALSE, FALSE, fault)
      BY <2>1, Zenon DEF P!Chunks
    <2>. QED  BY <1>4, <1>5, <1>14, <2>2
  <1>16. /\ pm.feats_cache_ = m.feats_cache_ /\ pm.rows = m.rows /\ pm.faulty = m.faulty
         /\ pm.is_first_chunk = FALSE
    BY <1>2, <1>3, <1>9, <1>14 DEF SameRest
  <1>17. PICK h \in Nat, c \in Nat : /\ h = Len(pm.feats_cache_) /\ h = 10
                                     /\ c = Len(rows) /\ c = 10
    BY <1>2, <1>3, <1>13, <1>14, <1>16 DEF TenRows, NewRows
  <1>18. h >= IF fin THEN 5 ELSE 10
    BY <1>17
  <1>19. Lasting(m, k, f, b)
    <2>1. f >= 60 * k - 2
      BY <1>12
    <2>. QED  BY <2>1, RowsLast
  <1>20. \A i \in 6..h : pm.feats_cache_[i] = P!RowOf(q + i, f, b)
    <2>1. \A i \in 6..h : i \in 1..10
      BY <1>17
    <2>. QED  BY <1>12, <1>16, <1>19, <2>1 DEF Lasting, Waiting
  <1>21. \A i \in 1..c : rows[i] = P!RowOf(q + (h + i), f, b)
    <2>. SUFFICES ASSUME NEW i \in 1..c PROVE rows[i] = P!RowOf(q + (h + i), f, b)
      OBVIOUS
    <2>1. PICK x \in Nat : x = 10 * k + (i - 1)
      OBVIOUS
    <2>2. rows[i] = P!RowOf(x, f, b)
      BY <1>13, <1>14, <1>17, <2>1 DEF NewRows
    <2>3. q + (h + i) = x
      BY <1>12, <1>17, <2>1
    <2>. QED  BY <2>2, <2>3
  <1>22. ChunkLen(h, c, fin, end) = 20 /\ ChunkLen(h, c, fin, end) = h + c
    BY <1>5, <1>17 DEF ChunkLen
  <1>23. AreWide(pm.feats_cache_) /\ AreWide(rows)
    BY <1>2, <1>3, <1>9, <1>14, <1>16
  <1>24. NextWeighed(pm, rows, fin, end, h, c, q, f, b, r)
    BY <1>15, <1>17, <1>18, <1>20, <1>21, <1>22, <1>23, NextWeighs
  <1>25. \A i \in 1..10 : r.feats_cache_[i] = rows[i]
    BY <1>5, <1>17, <1>24 DEF NextWeighed
  <1>26. Waiting(r.feats_cache_, k + 1, f, b)
    BY <1>13, <1>14, <1>25, TenMore
  <1>27. ASSUME ~r.faulty PROVE Uttered(r.rows, 10 * (k + 1), f, b)
    <2>1. q + 11 = 10 * k
      BY <1>12
    <2>2. ~pm.faulty => Uttered(pm.rows, q + 11, f, b)
      BY <1>16, <1>19, <2>1 DEF Lasting
    <2>3. Uttered(r.rows, q + (6 + MiddleEnd(ChunkLen(h, c, fin, end))), f, b)
      BY <1>24, <1>27, <2>2 DEF NextWeighed
    <2>4. MiddleEnd(20) = 15
      BY DEF MiddleEnd
    <2>5. q + (6 + 15) = 10 * (k + 1)
      BY <1>12
    <2>. QED  BY <1>22, <2>3, <2>4, <2>5
  <1>28. r \in Caches /\ SameFeatures(r, pm)
    <2>1. Chunked(pm, rows, fin, end, r)
      <3>1. Len(pm.feats_cache_) >= IF fin THEN 5 ELSE 10
        BY <1>17, <1>18
      <3>. QED  BY <1>15, <3>1, NextChunking
    <2>. QED  BY <2>1 DEF Chunked
  <1>29. Audio(r, k + 1, b) /\ r.start_idx_cache_ = 10 * (k + 1) /\ ~r.is_first_chunk
    <2>1. Audio(r, k + 1, b)
      BY <1>13, <1>14, <1>28, AudioStays
    <2>. QED  BY <1>13, <1>14, <1>16, <1>28, <2>1 DEF SameFeatures
  <1>30. f = 60 * (k + 1) - 2 /\ k + 1 # 0
    BY <1>12
  <1>. QED  BY <1>26, <1>27, <1>29, <1>30 DEF Exact

-----------------------------------------------------------------------------
(* The end of an utterance *)

\* Of an utterance of n frames all rows have been weighed, or all but the last, and
\* the zeros before them; or nothing of less audio than makes a row.
AllRows(rows, n, b) ==
    \/ \E M \in Nat : M \in {(n + 5) \div 6, (n + 5) \div 6 - 1} /\ Uttered(rows, M + 5, n, b)
    \/ (n + 5) \div 6 <= 1 /\ rows = <<>>

\* The frames of an utterance that ends r units after k calls.
LEMMA FramesAtEnd ==
    ASSUME NEW k \in Nat, NEW r \in Nat, NEW n \in Nat, n = P!ComputeFrameNum(120 * k + r)
    PROVE  /\ n >= 60 * k - 2
           /\ r < 12 => (n + 5) \div 6 \in {10 * k, 10 * k + 1}
           /\ r < 120 => n <= 60 * k + 58
  <1>1. PICK w \in Nat : w = 120 * k + r
    OBVIOUS
  <1>2. (w < 5 /\ n = 0) \/ (w >= 5 /\ 2 * n \in {w - 3, w - 4})
    BY <1>1, FrameNum
  <1>3. n >= 60 * k - 2 /\ (r < 12 => n <= 60 * k + 4) /\ (r < 120 => n <= 60 * k + 58)
    <2>1. CASE w < 5
      <3>1. k = 0
        BY <1>1, <2>1
      <3>. QED  BY <1>2, <2>1, <3>1
    <2>2. CASE w >= 5
      BY <1>1, <1>2, <2>2
    <2>. QED  BY <1>1, <2>1, <2>2
  <1>4. ASSUME r < 12 PROVE (n + 5) \div 6 \in {10 * k, 10 * k + 1}
    <2>1. PICK d \in Nat : n + 5 = 6 * (10 * k) + d /\ d <= 9
      <3>1. PICK d \in Int : d = n + 5 - 60 * k
        OBVIOUS
      <3>2. d \in Nat /\ d <= 9
        <4>1. k = 0 => d >= 0
          BY <3>1
        <4>. QED  BY <1>3, <1>4, <3>1, <4>1
      <3>. QED  BY <3>1, <3>2
    <2>2. d \div 6 \in {0, 1}
      BY <2>1
    <2>3. \A x, y \in Int : (6 * x + y) \div 6 = x + (y \div 6)
      OBVIOUS
    <2>4. (6 * (10 * k) + d) \div 6 = 10 * k + (d \div 6)
      BY <2>3
    <2>. QED  BY <2>1, <2>2, <2>4
  <1>. QED  BY <1>3, <1>4

\* The rows of a model do not change when it is reset.
SameRows(r, m) == r.rows = m.rows /\ r.faulty = m.faulty

\* Resetting the model keeps the rows that were weighed.
LEMMA ResetRows ==
    ASSUME NEW m \in Caches, NEW r, r = P!InitCache(P!ResetCache(m))
    PROVE  SameRows(r, m)
  <1>1. r = [P!NewModel EXCEPT !.rows = m.rows, !.faulty = m.faulty, !.crashed = m.crashed,
                               !.text = m.text]
    BY Resetting
  <1>2. P!NewModel \in Caches
    BY NewIsModel
  <1>. QED  BY <1>1, <1>2 DEF SameRows, Caches

\* With next to no audio left the rows that wait are the last.
LEMMA LastRowsExactly ==
    ASSUME weights \in Weightings, NEW m, Going(m), NEW k \in Nat, NEW b \in Nat,
           Exact(m, k, b), NEW n \in Nat, n >= 60 * k - 2, NEW fault,
           NEW r, r = P!LastRows(m, fault), ~r.faulty
    PROVE  Uttered(r.rows, 10 * k + 5, n, b)
  <1>1. PICK flagged, chunk : flagged = [m EXCEPT !.is_last_chunk = TRUE] /\ chunk = m.feats_cache_
    OBVIOUS
  <1>2. /\ flagged \in Caches /\ chunk \in Seq(Row) /\ AreWide(chunk) /\ Len(chunk) = 10
        /\ flagged.rows = m.rows /\ flagged.faulty = m.faulty
    BY <1>1 DEF Going, TenRows, Caches
  <1>3. PICK x : x = P!ForwardChunk([m |-> flagged, chunk |-> chunk], fault)
    OBVIOUS
  <1>4. x \in Caches
    BY <1>2, <1>3, Forwarding
  <1>5. r = P!InitCache(P!ResetCache(x))
    BY <1>1, <1>3 DEF P!LastRows
  <1>6. r.rows = x.rows /\ r.faulty = x.faulty
    <2>1. SameRows(r, x)
      BY <1>4, <1>5, ResetRows
    <2>. QED  BY <2>1 DEF SameRows
  <1>7. PICK q \in Int : q = 10 * k - 11
    OBVIOUS
  <1>8. Lasting(m, k, n, b)
    BY RowsLast
  <1>9. PICK l \in Nat : l = Len(chunk) /\ l = 10 /\ l >= 5 /\ MiddleEnd(l) = 10
    BY <1>2 DEF MiddleEnd
  <1>10. Window(chunk, q, n, b)
    <2>1. \A i \in 6..MiddleEnd(Len(chunk)) : i \in 1..10
      BY <1>9
    <2>. QED  BY <1>1, <1>7, <1>8, <2>1 DEF Window, Lasting, Waiting
  <1>11. ~flagged.faulty => Uttered(flagged.rows, q + 11, n, b)
    <2>1. q + 11 = 10 * k
      BY <1>7
    <2>. QED  BY <1>2, <1>8, <2>1 DEF Lasting
  <1>12. ~x.faulty
    BY <1>6
  <1>13. Uttered(x.rows, q + (6 + MiddleEnd(l)), n, b)
    BY <1>2, <1>3, <1>9, <1>10, <1>11, <1>12, ChunkWeighs
  <1>14. q + (6 + 10) = 10 * k + 5
    BY <1>7
  <1>. QED  BY <1>6, <1>9, <1>13, <1>14

\* The last rows, in one chunk
LEMMA OneChunkExactly ==
    ASSUME weights \in Weightings, NEW m \in Caches, TenRows(m), AreWide(m.feats_cache_),
           NEW k \in Nat, NEW b \in Nat, NEW rows \in Seq(Row), AreWide(rows),
           NEW c \in Nat, c = Len(rows), c >= 1, NEW n \in Nat, NewRows(rows, c, k, n, b),
           Lasting(m, k, n, b), NEW last_chunk \in BOOLEAN, NEW fault,
           last_chunk <=> c <= 5,
           NEW r, r = P!NextChunk(m, rows, TRUE, last_chunk, fault), ~r.faulty
    PROVE  Uttered(r.rows, (10 * k + 5) + (IF c <= 5 THEN c ELSE 5), n, b)
  <1>1. PICK h \in Nat, fin \in BOOLEAN : h = Len(m.feats_cache_) /\ h = 10 /\ fin = TRUE
    BY DEF TenRows
  <1>2. PICK q \in Int : q = 10 * k - 11
    OBVIOUS
  <1>3. \A i \in 6..h : m.feats_cache_[i] = P!RowOf(q + i, n, b)
    <2>1. \A i \in 6..h : i \in 1..10
      BY <1>1
    <2>. QED  BY <1>2, <2>1 DEF Lasting, Waiting
  <1>4. \A i \in 1..c : rows[i] = P!RowOf(q + (h + i), n, b)
    <2>. SUFFICES ASSUME NEW i \in 1..c PROVE rows[i] = P!RowOf(q + (h + i), n, b)
      OBVIOUS
    <2>1. PICK x \in Nat : x = 10 * k + (i - 1)
      OBVIOUS
    <2>2. rows[i] = P!RowOf(x, n, b)
      BY <2>1 DEF NewRows
    <2>3. q + (h + i) = x
      BY <1>1, <1>2, <2>1
    <2>. QED  BY <2>2, <2>3
  <1>5. PICK l \in Nat : /\ l = ChunkLen(h, c, fin, last_chunk)
                         /\ c <= 5 => l = 10 + c
                         /\ ~(c <= 5) => l >= 16
    <2>1. CASE c <= 5
      <3>1. ChunkLen(h, c, fin, last_chunk) = 10 + c
        BY <1>1, <2>1 DEF ChunkLen
      <3>. QED  BY <2>1, <3>1
    <2>2. CASE ~(c <= 5)
      <3>1. PICK l \in Nat : l = ChunkLen(h, c, fin, last_chunk) /\ l >= 16
        BY <1>1, <2>2 DEF ChunkLen
      <3>. QED  BY <2>2, <3>1
    <2>. QED  BY <2>1, <2>2
  <1>6. /\ h + c >= 15 \/ ChunkLen(h, c, fin, last_chunk) = h + c
        /\ h >= IF fin THEN 5 ELSE 10
    <2>1. h >= IF fin THEN 5 ELSE 10
      BY <1>1
    <2>2. CASE c <= 5
      BY <1>1, <1>5, <2>1, <2>2
    <2>3. CASE ~(c <= 5)
      <3>1. h + c >= 15
        BY <1>1, <2>3
      <3>. QED  BY <2>1, <3>1
    <2>. QED  BY <2>2, <2>3
  <1>7. NextWeighed(m, rows, fin, last_chunk, h, c, q, n, b, r)
    BY <1>1, <1>3, <1>4, <1>6, NextWeighs
  <1>8. ~m.faulty => Uttered(m.rows, q + 11, n, b)
    <2>1. q + 11 = 10 * k
      BY <1>2
    <2>. QED  BY <2>1 DEF Lasting
  <1>9. Uttered(r.rows, q + (6 + MiddleEnd(l)), n, b)
    BY <1>5, <1>7, <1>8 DEF NextWeighed
  <1>10. q + (6 + MiddleEnd(l)) = (10 * k + 5) + (IF c <= 5 THEN c ELSE 5)
    <2>1. CASE c <= 5
      <3>1. MiddleEnd(l) = 10 + c
        BY <1>5, <2>1 DEF MiddleEnd
      <3>. QED  BY <1>2, <2>1, <3>1
    <2>2. CASE ~(c <= 5)
      <3>1. MiddleEnd(l) = 15
        BY <1>5, <2>2 DEF MiddleEnd
      <3>. QED  BY <1>2, <2>2, <3>1
    <2>. QED  BY <2>1, <2>2
  <1>. QED  BY <1>9, <1>10

\* The last k rows.
AreTheLast(end, rows, k) ==
    /\ end \in Seq(Row) /\ Len(end) = k
    /\ \A i \in 1..k : end[i] = rows[Len(rows) - k + i]

\* LastOf takes them.
LEMMA LastAreTheLast ==
    ASSUME NEW rows \in Seq(Row), NEW k \in Nat, k <= Len(rows)
    PROVE  AreTheLast(P!LastOf(rows, k), rows, k)
  BY Ends DEF AreTheLast

\* What the first chunk leaves waiting when a second one follows.
FiveRows(m) == Len(m.feats_cache_) = 5

\* Its rows are weighed once too: they begin where the first chunk stopped.
LEMMA SecondChunkExactly ==
    ASSUME weights \in Weightings, NEW m \in Caches, FiveRows(m), AreWide(m.feats_cache_),
           NEW k \in Nat, NEW b \in Nat, NEW rows \in Seq(Row), AreWide(rows),
           NEW c \in Nat, c = Len(rows), c > 5, c <= 10, NEW n \in Nat, NewRows(rows, c, k, n, b),
           ~m.faulty => Uttered(m.rows, 10 * k + 10, n, b), NEW fault,
           NEW d \in Nat, d = c - 5,
           NEW r, r = P!NextChunk(m, P!LastOf(rows, d), TRUE, TRUE, fault), ~r.faulty
    PROVE  Uttered(r.rows, (10 * k + 5) + c, n, b)
  <1>1. PICK h \in Nat, fin \in BOOLEAN : h = Len(m.feats_cache_) /\ h = 5 /\ fin = TRUE
    BY DEF FiveRows
  <1>2. PICK q \in Int : q = 10 * k - 1
    OBVIOUS
  <1>3. PICK end \in Seq(Row) : /\ end = P!LastOf(rows, d) /\ AreWide(end) /\ Len(end) = d
                                /\ \A i \in 1..d : end[i] = rows[c - d + i]
    <2>1. d <= Len(rows)
      <3>1. \A x \in Nat : x - 5 <= x
        OBVIOUS
      <3>2. c - 5 <= c
        BY <3>1, c \in Nat
      <3>. QED  BY <3>2, d = c - 5, c = Len(rows), Zenon
    <2>2. /\ P!LastOf(rows, d) \in Seq(Row) /\ Len(P!LastOf(rows, d)) = d
          /\ \A i \in 1..d : P!LastOf(rows, d)[i] = rows[Len(rows) - d + i]
      <3>1. AreTheLast(P!LastOf(rows, d), rows, d)
        BY <2>1, LastAreTheLast
      <3>. QED  BY <3>1 DEF AreTheLast
    <2>3. AreWide(P!LastOf(rows, d))
      BY <2>1, WideEnd
    <2>. QED  BY <2>2, <2>3
  <1>4. \A i \in 6..h : m.feats_cache_[i] = P!RowOf(q + i, n, b)
    <2>1. 6..h = {}
      BY <1>1
    <2>. QED  BY <2>1
  <1>5. \A i \in 1..d : end[i] = P!RowOf(q + (h + i), n, b)
    <2>. SUFFICES ASSUME NEW i \in 1..d PROVE end[i] = P!RowOf(q + (h + i), n, b)
      OBVIOUS
    <2>1. PICK j \in 1..c : j = 5 + i /\ c - d + i = j
      <3>1. 5 + i \in 1..c /\ c - d + i = 5 + i
        OBVIOUS
      <3>. QED  BY <3>1
    <2>2. PICK x \in Nat : x = 10 * k + (j - 1)
      OBVIOUS
    <2>3. end[i] = P!RowOf(x, n, b)
      BY <1>3, <2>1, <2>2 DEF NewRows
    <2>4. q + (h + i) = x
      BY <1>1, <1>2, <2>1, <2>2
    <2>. QED  BY <2>3, <2>4
  <1>6. PICK last_chunk \in BOOLEAN : last_chunk = TRUE
    OBVIOUS
  <1>7. ChunkLen(h, d, fin, last_chunk) = h + d /\ h + d = c /\ h >= IF fin THEN 5 ELSE 10
    BY <1>1, <1>6 DEF ChunkLen
  <1>8. NextWeighed(m, end, fin, last_chunk, h, d, q, n, b, r)
    <2>1. PICK y \in Nat : y = d
      OBVIOUS
    <2>2. y = Len(end) /\ r = P!NextChunk(m, end, fin, last_chunk, fault) /\ AreWide(end)
      BY <1>1, <1>3, <1>6, <2>1
    <2>3. /\ \A i \in 1..y : end[i] = P!RowOf(q + (h + i), n, b)
          /\ ChunkLen(h, y, fin, last_chunk) = h + y
      BY <1>5, <1>7, <2>1
    <2>4. NextWeighed(m, end, fin, last_chunk, h, y, q, n, b, r)
      BY <1>1, <1>4, <1>7, <2>2, <2>3, NextWeighs
    <2>. QED  BY <2>1, <2>4
  <1>9. ~m.faulty => Uttered(m.rows, q + 11, n, b)
    <2>1. q + 11 = 10 * k + 10
      BY <1>2
    <2>. QED  BY <2>1
  <1>10. Uttered(r.rows, q + (6 + MiddleEnd(ChunkLen(h, d, fin, last_chunk))), n, b)
    BY <1>8, <1>9 DEF NextWeighed
  <1>11. MiddleEnd(c) = c /\ q + (6 + c) = (10 * k + 5) + c
    BY <1>2 DEF MiddleEnd
  <1>. QED  BY <1>7, <1>10, <1>11

\* All of the last rows.
LEMMA EndExactly ==
    ASSUME weights \in Weightings, NEW p, p.m \in Caches, TenRows(p.m), AreWide(p.m.feats_cache_),
           NEW k \in Nat, NEW b \in Nat, p.wav_feats \in Seq(Row), AreWide(p.wav_feats),
           NEW c \in Nat, c = Len(p.wav_feats), c >= 1, c <= 10, NEW n \in Nat,
           NewRows(p.wav_feats, c, k, n, b), Lasting(p.m, k, n, b),
           NEW fault, NEW fault2, NEW r, r = P!Chunks(p, TRUE, fault, fault2), ~r.faulty
    PROVE  Uttered(r.rows, (10 * k + 5) + c, n, b)
  <1>1. PICK m \in Caches, rows \in Seq(Row), e \in Nat : m = p.m /\ rows = p.wav_feats /\ e = c
    OBVIOUS
  <1>2. /\ TenRows(m) /\ AreWide(m.feats_cache_) /\ AreWide(rows) /\ e = Len(rows)
        /\ NewRows(rows, e, k, n, b) /\ Lasting(m, k, n, b)
        /\ e >= 1 /\ e <= 10
    BY <1>1
  <1>3. EndsIn(m, rows, e, fault, fault2, r)
    BY <1>1, <1>2, EndChunks
  <1>4. PICK end \in BOOLEAN, fin \in BOOLEAN : (end <=> e <= 5) /\ fin = TRUE
    OBVIOUS
  <1>5. PICK a : a = P!NextChunk(m, rows, TRUE, end, fault)
    OBVIOUS
  <1>6. Chunked(m, rows, fin, end, a)
    <2>1. Len(m.feats_cache_) >= IF fin THEN 5 ELSE 10
      BY <1>2, <1>4 DEF TenRows
    <2>2. a = P!NextChunk(m, rows, fin, end, fault)
      BY <1>4, <1>5
    <2>. QED  BY <2>1, <2>2, NextChunking
  <1>7. a \in Caches /\ FiveRows(a) /\ AreWide(a.feats_cache_)
    BY <1>2, <1>4, <1>6 DEF Chunked, FiveRows
  <1>8. ~a.faulty => Uttered(a.rows, (10 * k + 5) + (IF e <= 5 THEN e ELSE 5), n, b)
    BY <1>2, <1>4, <1>5, OneChunkExactly
  <1>9. CASE e <= 5
    <2>1. end = TRUE
      BY <1>4, <1>9
    <2>2. r = P!InitCache(P!ResetCache(a))
      BY <1>3, <1>5, <1>9, <2>1 DEF EndsIn
    <2>3. r.rows = a.rows /\ r.faulty = a.faulty
      <3>1. SameRows(r, a)
        BY <1>7, <2>2, ResetRows
      <3>. QED  BY <3>1 DEF SameRows
    <2>4. ~a.faulty
      BY <2>3
    <2>5. (10 * k + 5) + (IF e <= 5 THEN e ELSE 5) = (10 * k + 5) + e
      BY <1>9
    <2>6. Uttered(a.rows, (10 * k + 5) + e, n, b)
      BY <1>8, <2>4, <2>5, Zenon
    <2>. QED  BY <1>1, <2>3, <2>6, Zenon
  <1>10. CASE ~(e <= 5)
    <2>1. end = FALSE
      BY <1>4, <1>10
    <2>2. PICK d \in Nat : d = e - 5 /\ d <= e
      BY <1>10
    <2>3. PICK x : x = P!NextChunk(a, P!LastOf(rows, d), TRUE, TRUE, fault2)
      OBVIOUS
    <2>4. r = P!InitCache(P!ResetCache(x))
      BY <1>3, <1>5, <1>10, <2>1, <2>2, <2>3 DEF EndsIn
    <2>5. x \in Caches
      <3>1. PICK last_chunk \in BOOLEAN, rest \in Seq(Row) : last_chunk = TRUE /\ rest = P!LastOf(rows, d)
        BY <1>2, <2>2, WideEnd
      <3>2. x = P!NextChunk(a, rest, fin, last_chunk, fault2)
        BY <1>4, <2>3, <3>1
      <3>3. Len(a.feats_cache_) >= IF fin THEN 5 ELSE 10
        BY <1>4, <1>7 DEF FiveRows
      <3>4. Chunked(a, rest, fin, last_chunk, x)
        BY <1>7, <3>2, <3>3, NextChunking
      <3>. QED  BY <3>4 DEF Chunked
    <2>6. r.rows = x.rows /\ r.faulty = x.faulty
      <3>1. SameRows(r, x)
        BY <2>4, <2>5, ResetRows
      <3>. QED  BY <3>1 DEF SameRows
    <2>7. ~a.faulty => Uttered(a.rows, 10 * k + 10, n, b)
      <3>1. (10 * k + 5) + (IF e <= 5 THEN e ELSE 5) = 10 * k + 10
        BY <1>10
      <3>. QED  BY <1>8, <3>1, Zenon
    <2>8. ~x.faulty /\ e > 5
      <3>1. e > 5
        BY <1>10
      <3>. QED  BY <2>6, <3>1
    <2>9. Uttered(x.rows, (10 * k + 5) + e, n, b)
      BY <1>2, <1>7, <2>2, <2>3, <2>7, <2>8, SecondChunkExactly
    <2>. QED  BY <1>1, <2>6, <2>9, Zenon
  <1>. QED  BY <1>9, <1>10, Zenon

\* Of less than a row nothing is weighed.
LEMMA NarrowEnd ==
    ASSUME weights \in Weightings, NEW p, p.m \in Caches, TenRows(p.m), AreWide(p.m.feats_cache_),
           p.wav_feats \in Seq(Row), Len(p.wav_feats) <= 3,
           Len(p.wav_feats) # 0 => ~AreWide(p.wav_feats),
           NEW fault, NEW fault2, NEW r, r = P!Chunks(p, TRUE, fault, fault2), ~r.faulty
    PROVE  r.rows = p.m.rows
  <1>1. PICK m \in Caches, rows \in Seq(Row) : m = p.m /\ rows = p.wav_feats
    OBVIOUS
  <1>2. PICK c \in Nat : c = Len(rows) /\ c <= 3
    BY <1>1, LenProperties
  <1>3. CASE c = 0
    <2>1. Len(p.wav_feats) = 0
      BY <1>1, <1>2, <1>3
    <2>2. r = p.m
      BY <2>1, Zenon DEF P!Chunks
    <2>. QED  BY <2>2
  <1>4. CASE c # 0
    <2>1. EndsIn(m, rows, c, fault, fault2, r)
      <3>1. c >= 1
        BY <1>4
      <3>. QED  BY <1>1, <1>2, <3>1, EndChunks
    <2>2. c <= 5
      BY <1>2
    <2>3. PICK a : a = P!NextChunk(m, rows, TRUE, TRUE, fault)
      OBVIOUS
    <2>4. r = P!InitCache(P!ResetCache(a))
      BY <2>1, <2>2, <2>3 DEF EndsIn
    <2>5. PICK end \in BOOLEAN, fin \in BOOLEAN : end = TRUE /\ fin = TRUE
      OBVIOUS
    <2>6. Chunked(m, rows, fin, end, a)
      <3>1. Len(m.feats_cache_) >= IF fin THEN 5 ELSE 10
        <4>1. PICK l : l = Len(m.feats_cache_) /\ l = 10
          BY <1>1 DEF TenRows
        <4>2. l >= IF fin THEN 5 ELSE 10
          BY <4>1
        <4>. QED  BY <4>1, <4>2
      <3>2. a = P!NextChunk(m, rows, fin, end, fault)
        BY <2>3, <2>5
      <3>. QED  BY <3>1, <3>2, NextChunking
    <2>7. a \in Caches /\ (~a.faulty => a.rows = m.rows)
      <3>1. AreWide(m.feats_cache_) /\ ~AreWide(rows)
        BY <1>1, <1>2, <1>4
      <3>. QED  BY <2>6, <3>1 DEF Chunked
    <2>8. r.rows = a.rows /\ r.faulty = a.faulty
      <3>1. SameRows(r, a)
        BY <2>4, <2>7, ResetRows
      <3>. QED  BY <3>1 DEF SameRows
    <2>. QED  BY <1>1, <2>7, <2>8
  <1>. QED  BY <1>3, <1>4

\* With the end mark all of the utterance has been weighed.
LEMMA EndsExactly ==
    ASSUME weights \in Weightings, NEW m, Going(m), NEW k \in Nat, NEW b \in Nat,
           Exact(m, k, b), NEW new \in Seq(Unit), NEW l \in Nat, l = Len(new), l < 120,
           Follows(new, k, b), NEW fault, NEW fault2, NEW r,
           r = P!Forward(m, new, TRUE, fault, fault2), ~r.faulty,
           NEW f \in Nat, f = P!ComputeFrameNum(120 * k + l)
    PROVE  AllRows(r.rows, f, b)
  <1>. DEFINE p == P!GetPosEmb(P!ExtractFeats([m EXCEPT !.is_first_chunk = FALSE], new, TRUE))
  <1>1. /\ f >= 60 * k - 2 /\ f <= 60 * k + 58
        /\ l < 12 => (f + 5) \div 6 \in {10 * k, 10 * k + 1}
    BY FramesAtEnd
  <1>2. CASE Len(new) < P!ShortTail /\ ~m.is_first_chunk
    <2>1. r = P!LastRows(m, fault)
      BY <1>2 DEF P!Forward
    <2>2. Uttered(r.rows, 10 * k + 5, f, b)
      BY <1>1, <2>1, LastRowsExactly
    <2>3. PICK M \in Nat : M = 10 * k
      OBVIOUS
    <2>4. M \in {(f + 5) \div 6, (f + 5) \div 6 - 1}
      BY <1>1, <1>2, <2>3 DEF P!ShortTail
    <2>. QED  BY <2>2, <2>3, <2>4 DEF AllRows
  <1>3. CASE ~(Len(new) < P!ShortTail /\ ~m.is_first_chunk)
    <2>1. PICK n : n = [m EXCEPT !.is_first_chunk = FALSE]
      OBVIOUS
    <2>2. /\ n \in Caches /\ Matched(n) /\ TenRows(n) /\ AreWide(n.feats_cache_)
          /\ n.is_first_chunk = FALSE
      BY <2>1, NoLongerFirst
    <2>3. /\ Audio(n, k, b) /\ n.start_idx_cache_ = 10 * k
          /\ n.feats_cache_ = m.feats_cache_ /\ n.rows = m.rows /\ n.faulty = m.faulty
      <3>1. AsExact(n, m, k, b)
        BY <2>1, SameExact
      <3>. QED  BY <3>1 DEF AsExact
    <2>4. r = P!Chunks(p, TRUE, fault, fault2)
      BY <1>3 DEF P!Forward
    <2>5. PICK fin \in BOOLEAN : fin = TRUE
      OBVIOUS
    <2>6. p = P!GetPosEmb(P!ExtractFeats(n, new, fin))
      BY <2>1, <2>5
    <2>. HIDE DEF p
    <2>7. PICK frames, feats : frames = P!FbankKaldi(n.input_cache_ \o new) /\ feats = FeatsOf(n, frames)
      OBVIOUS
    <2>8. ASSUME SameRest(p.m, n)
          PROVE  /\ TenRows(p.m) /\ AreWide(p.m.feats_cache_) /\ p.m.feats_cache_ = m.feats_cache_
                 /\ p.m.rows = m.rows /\ p.m.faulty = m.faulty
      BY <2>2, <2>3, <2>8 DEF SameRest, TenRows
    <2>9. CASE Len(frames) > 0 /\ Len(feats) >= 7
      <3>1. /\ p.m \in Caches /\ SameRest(p.m, n)
            /\ p.wav_feats \in Seq(Row) /\ AreWide(p.wav_feats) /\ Len(p.wav_feats) >= 1
        BY <2>2, <2>6, <2>7, <2>9, WideCall
      <3>2. FeatsGoOn(feats, l, k, b)
        <4>1. Len(frames) > 0
          BY <2>9
        <4>. QED  BY <2>2, <2>3, <2>7, <4>1, Continuing
      <3>3. PICK T \in Nat : T = Len(feats) /\ f = (60 * k + T) - 3 /\ T >= 7
        <4>1. PICK T \in Nat : T = Len(feats)
          BY <3>2, LenProperties DEF FeatsGoOn
        <4>2. P!ComputeFrameNum(120 * k + l) = (60 * k + T) - 3
          BY <3>2, <4>1 DEF FeatsGoOn
        <4>. QED  BY <2>9, <4>1, <4>2
      <3>4. Called(p, T, fin, k, l, b)
        <4>1. Len(frames) > 0
          BY <2>9
        <4>. QED  BY <2>2, <2>3, <2>6, <2>7, <3>3, <4>1, CallFollows
      <3>5. PICK c \in Nat : c = (T + 2) \div 6 /\ c >= 1 /\ c <= 10
        <4>1. T >= 7 /\ T <= 61
          BY <1>1, <3>3
        <4>2. (T + 2) \div 6 \in 1..10
          BY <4>1
        <4>. QED  BY <4>2
      <3>6. NewRows(p.wav_feats, c, k, f, b)
        <4>1. RowNum(T, fin) = c
          BY <2>5, <3>5 DEF RowNum
        <4>. QED  BY <3>4, <4>1 DEF Called
      <3>7. c = Len(p.wav_feats)
        BY <3>6 DEF NewRows
      <3>8. Lasting(p.m, k, f, b)
        <4>1. Lasting(m, k, f, b)
          BY <1>1, RowsLast
        <4>. QED  BY <2>8, <3>1, <4>1 DEF Lasting
      <3>9. Uttered(r.rows, (10 * k + 5) + c, f, b)
        BY <2>4, <2>8, <3>1, <3>5, <3>6, <3>7, <3>8, EndExactly
      <3>10. PICK M \in Nat : M = 10 * k + c
        OBVIOUS
      <3>11. M = (f + 5) \div 6
        <4>1. \A x, y \in Int : (6 * x + y) \div 6 = x + (y \div 6)
          OBVIOUS
        <4>2. (6 * (10 * k) + (T + 2)) \div 6 = 10 * k + ((T + 2) \div 6)
          BY <4>1
        <4>3. 6 * (10 * k) + (T + 2) = f + 5
          BY <3>3
        <4>. QED  BY <3>5, <3>10, <4>2, <4>3
      <3>12. (10 * k + 5) + c = M + 5
        BY <3>10
      <3>. QED  BY <3>9, <3>11, <3>12 DEF AllRows
    <2>10. CASE ~(Len(frames) > 0 /\ Len(feats) >= 7)
      <3>1. k = 0
        <4>1. SUFFICES ASSUME k # 0 PROVE FALSE
          OBVIOUS
        <4>2. HasAudio(n)
          <5>1. Len(n.input_cache_) = 4 /\ Len(n.lfr_splice_cache_) = 1
            BY <2>3, <4>1 DEF Audio
          <5>2. PICK x, y : x = Len(n.input_cache_) /\ y = Len(n.lfr_splice_cache_) /\ x = 4 /\ y = 1
            BY <5>1
          <5>3. x >= 3 /\ y >= 1
            BY <5>2
          <5>. QED  BY <5>2, <5>3 DEF HasAudio
        <4>3. Len(new) >= 12
          <5>1. ~m.is_first_chunk
            BY <4>1 DEF Exact
          <5>2. ~(l < 12)
            BY <1>3, <5>1 DEF P!ShortTail
          <5>. QED  BY <5>2
        <4>. QED  BY <2>2, <2>7, <2>10, <4>2, <4>3, EnoughAudio
      <3>2. m.rows = <<>>
        <4>1. IsAnew(m)
          BY <3>1 DEF Exact
        <4>2. m.is_first_chunk \in BOOLEAN /\ m.crashed \in BOOLEAN
          BY DEF Going, Caches
        <4>. QED  BY <4>1, <4>2, Anew
      <3>3. n.lfr_splice_cache_ = <<>> /\ n.input_cache_ = <<>>
        BY <2>3, <3>1 DEF Audio
      <3>4. /\ p.m \in Caches /\ SameRest(p.m, n) /\ p.wav_feats \in Seq(Row)
            /\ Len(p.wav_feats) <= 3 /\ (Len(p.wav_feats) # 0 => ~AreWide(p.wav_feats))
        BY <2>2, <2>5, <2>6, <2>7, <2>10, <3>3, ShortCall
      <3>5. r.rows = p.m.rows
        BY <2>4, <2>8, <3>4, NarrowEnd
      <3>6. r.rows = <<>>
        BY <2>8, <3>2, <3>4, <3>5
      <3>7. f <= 3
        <4>1. PICK w \in Nat, c \in Nat : /\ w = UnitsOf(n, new) /\ c = Len(n.lfr_splice_cache_)
                                          /\ w = 120 * k + l /\ c = 0
          BY <3>1, <3>3, EmptySeq DEF UnitsOf
        <4>2. Counted(frames, feats, c, w)
          BY <2>2, <2>7, <4>1, FramesOfCall
        <4>3. Len(frames) = f /\ Len(feats) = f + IF f = 0 THEN 0 ELSE 3
          BY <4>1, <4>2 DEF Counted
        <4>. QED  BY <2>10, <4>3
      <3>8. (f + 5) \div 6 <= 1
        BY <3>7
      <3>. QED  BY <3>6, <3>8 DEF AllRows
    <2>. QED  BY <2>9, <2>10
  <1>. QED  BY <1>2, <1>3

-----------------------------------------------------------------------------
(* The rows of every utterance *)

\* The lengths of opus packets, 5, 10, 20, 40 and 60 ms, go into 600 ms.
Regular == \A d \in Durations : \E q \in Nat : q * d = P!ChunkUnits

\* The audio is in calls of 120 units; what was weighed of it are its rows, and of
\* the last utterance all of them.
Places ==
    /\ \E q \in Nat : q * duration = 120
    /\ \E j \in Nat : decoded_length_ = j * duration
    /\ \E k \in Nat : units - began = 120 * k + decoded_length_ /\ Exact(model, k, began)
    /\ last.rows \in Seq(Row)
    /\ began = units /\ ~last.faulty =>
         AllRows(last.rows, P!ComputeFrameNum(last.units), units - last.units)

\* With packets that go into a call, no call is longer.
LEMMA NoLonger ==
    ASSUME NEW d \in Nat, NEW q \in Nat, q * d = 120, NEW j \in Nat, NEW l \in Nat, l = j * d,
           l < 120, ~(l + d < 120)
    PROVE  Whole(l + d)
  <1>1. ASSUME NEW x \in Nat, NEW y \in Nat, x <= y PROVE x * d <= y * d
    <2>1. PICK z \in Nat : y = x + z
      <3>1. y - x \in Nat /\ y = x + (y - x)
        BY <1>1
      <3>. QED  BY <3>1
    <2>2. y * d = x * d + z * d /\ z * d >= 0
      BY <2>1
    <2>. QED  BY <2>2
  <1>2. ~(q <= j)
    BY <1>1
  <1>3. j + 1 \in Nat /\ j + 1 <= q
    BY <1>2
  <1>4. (j + 1) * d <= q * d
    BY <1>1, <1>3
  <1>5. (j + 1) * d = j * d + d
    OBVIOUS
  <1>6. l + d <= 120
    BY <1>4, <1>5
  <1>. QED  BY <1>6 DEF Whole

\* The units in pcm_ are those after the last call.
LEMMA PcmFollows ==
    ASSUME NEW n \in Nat, NEW upTo \in Nat, NEW k \in Nat, NEW b \in Nat,
           upTo - b = 120 * k + n
    PROVE  Follows(P!Pcm(n, upTo), k, b)
  <1>1. \A i \in DOMAIN P!Pcm(n, upTo) : P!Pcm(n, upTo)[i] = upTo - n + i /\ i \in Int
    BY DEF P!Pcm
  <1>2. \A i \in Int : upTo - n + i = (b + 120 * k) + i
    OBVIOUS
  <1>. QED  BY <1>1, <1>2 DEF Follows

\* A new model is exact.
LEMMA AnewIsExact ==
    ASSUME weights \in Weightings, NEW m, m.is_first_chunk \in BOOLEAN,
           m.crashed \in BOOLEAN, IsAnew(m), NEW b \in Nat
    PROVE  Exact(m, 0, b)
  <1>1. /\ Going(m) /\ m.lfr_splice_cache_ = <<>> /\ m.input_cache_ = <<>>
        /\ m.rows = <<>> /\ ~m.faulty
    BY Anew
  <1>2. /\ P!NewModel \in Caches
        /\ m = [P!NewModel EXCEPT !.is_first_chunk = m.is_first_chunk, !.crashed = m.crashed]
    BY NewIsModel DEF IsAnew
  <1>3. m.start_idx_cache_ = 0 /\ m.feats_cache_ = P!Zeros(10)
    <2>1. P!NewModel.start_idx_cache_ = 0 /\ P!NewModel.feats_cache_ = P!Zeros(10)
      BY DEF P!NewModel
    <2>. QED  BY <1>2, <2>1 DEF Caches
  <1>4. PICK k \in Nat, n \in Nat : k = 0 /\ n = 0
    OBVIOUS
  <1>5. Audio(m, k, b) /\ m.start_idx_cache_ = 10 * k
    BY <1>1, <1>3, <1>4 DEF Audio
  <1>6. Waiting(m.feats_cache_, k, n, b)
    <2>. SUFFICES ASSUME NEW i \in 1..10
                  PROVE  m.feats_cache_[i] = P!RowOf((10 * k - 11) + i, n, b)
      BY DEF Waiting
    <2>1. PICK x \in Int : x = i - 11 /\ x < 0 /\ (10 * k - 11) + i = x /\ i - 10 - 1 = x
      BY <1>4
    <2>2. P!Zeros(10)[i] = [pos |-> x, frames |-> <<>>]
      BY <2>1, ZerosAreRows
    <2>3. P!RowOf(x, n, b) = [pos |-> x, frames |-> <<>>]
      BY <2>1 DEF P!RowOf
    <2>. QED  BY <1>3, <2>1, <2>2, <2>3
  <1>7. Uttered(m.rows, 10 * k, n, b)
    <2>1. Len(m.rows) = 0 /\ 1..0 = {}
      BY <1>1, EmptySeq
    <2>2. 10 * k = 0
      BY <1>4
    <2>. QED  BY <2>1, <2>2 DEF Uttered
  <1>8. Exact(m, k, b)
    <2>1. ~(k > 0)
      BY <1>4
    <2>. QED  BY <1>4, <1>5, <1>6, <1>7, <2>1 DEF Exact
  <1>. QED  BY <1>4, <1>8

\* It is so at first.
LEMMA PlacesInit ==
    ASSUME Regular, P!Init
    PROVE  Places
  <1>1. Stays
    BY StaysInit
  <1>2. model = P!NewModel /\ weights \in Weightings /\ duration \in Durations
    BY DEF P!Init
  <1>3. PICK m : m = model
    OBVIOUS
  <1>4. m.is_first_chunk = TRUE /\ m.crashed = FALSE /\ IsAnew(m)
    <2>1. P!NewModel.is_first_chunk = TRUE /\ P!NewModel.crashed = FALSE
      BY DEF P!NewModel
    <2>2. P!NewModel = [P!NewModel EXCEPT !.is_first_chunk = TRUE, !.crashed = FALSE]
      BY <2>1, NewIsModel DEF Caches
    <2>. QED  BY <1>2, <1>3, <2>1, <2>2 DEF IsAnew
  <1>5. PICK b \in Nat : b = 0
    OBVIOUS
  <1>6. Exact(m, 0, b)
    <2>1. /\ m.is_first_chunk \in BOOLEAN /\ m.crashed \in BOOLEAN /\ IsAnew(m)
          /\ weights \in Weightings
      BY <1>2, <1>4
    <2>. QED  BY <2>1, AnewIsExact
  <1>7. units = 0 /\ began = 0 /\ decoded_length_ = 0 /\ last = [units |-> 0, rows |-> <<>>, text |-> 0, faulty |-> FALSE]
    BY DEF P!Init
  <1>8. \E k \in Nat : units - began = 120 * k + decoded_length_ /\ Exact(model, k, began)
    <2>1. units - began = 120 * 0 + decoded_length_
      BY <1>7
    <2>2. Exact(model, 0, began)
      BY <1>3, <1>5, <1>6, <1>7
    <2>. QED  BY <2>1, <2>2
  <1>9. \E j \in Nat : decoded_length_ = j * duration
    <2>1. duration \in Nat
      BY <1>2, ParaformerAssumption
    <2>2. 0 = 0 * duration
      BY <2>1
    <2>. QED  BY <1>7, <2>2
  <1>10. \E q \in Nat : q * duration = 120
    BY <1>2 DEF Regular, P!ChunkUnits
  <1>11. AllRows(last.rows, P!ComputeFrameNum(last.units), units - last.units)
    <2>1. PICK f, r, after : /\ f \in Nat /\ f = P!ComputeFrameNum(last.units) /\ f = 0
                         /\ r = last.rows /\ r = <<>> /\ after = units - last.units
      BY <1>7, FrameNum
    <2>2. (f + 5) \div 6 <= 1
      BY <2>1
    <2>3. AllRows(r, f, after)
      BY <2>1, <2>2 DEF AllRows
    <2>. QED  BY <2>1, <2>3
  <1>12. last.rows \in Seq(Row)
    BY <1>7, EmptySeq
  <1>. QED  BY <1>8, <1>9, <1>10, <1>11, <1>12 DEF Places

\* A packet.
LEMMA PlacesFrame ==
    ASSUME Stays, Places, P!DetectFrame
    PROVE  Places'
  <1>1. PICK d \in Nat, l \in Nat, u \in Nat, b \in Nat :
          /\ d = duration /\ l = decoded_length_ /\ u = units /\ l <= u /\ u + d <= MaxUnits
          /\ b = began /\ b <= u /\ l < 120
    BY ParaformerAssumption DEF Stays, Counts, P!DetectFrame, P!ChunkUnits
  <1>2. /\ duration' = d /\ began' = b /\ units' = u + d /\ last' = last
    BY <1>1 DEF P!DetectFrame
  <1>3. PICK q \in Nat, j \in Nat, k \in Nat : /\ q * d = 120 /\ l = j * d
                                               /\ u - b = 120 * k + l /\ Exact(model, k, b)
    BY <1>1 DEF Places
  <1>4. \E x \in Nat : x * duration' = 120
    BY <1>2, <1>3
  <1>5. began' # units' /\ last'.rows \in Seq(Row)
    <2>1. d # 0
      BY <1>3
    <2>2. last'.rows \in Seq(Row)
      BY <1>2 DEF Places
    <2>. QED  BY <1>1, <1>2, <2>1, <2>2
  <1>6. CASE l + d < 120
    <2>1. decoded_length_' = l + d /\ model' = model
      BY <1>1, <1>6 DEF P!DetectFrame, P!ChunkUnits
    <2>2. \E x \in Nat : decoded_length_' = x * duration'
      <3>1. j + 1 \in Nat /\ (j + 1) * d = l + d
        BY <1>3
      <3>. QED  BY <1>2, <2>1, <3>1
    <2>3. \E x \in Nat : units' - began' = 120 * x + decoded_length_' /\ Exact(model', x, began')
      <3>1. (u + d) - b = 120 * k + (l + d)
        BY <1>3
      <3>2. units' - began' = 120 * k + decoded_length_'
        BY <1>2, <2>1, <3>1
      <3>3. Exact(model', k, began')
        BY <1>2, <1>3, <2>1
      <3>. QED  BY <3>2, <3>3
    <2>. QED  BY <1>4, <1>5, <2>2, <2>3 DEF Places
  <1>7. CASE ~(l + d < 120)
    <2>1. PICK fault : /\ decoded_length_' = 0
                       /\ model' = P!Forward(model, P!Pcm(l + d, u + d), FALSE, fault, "none")
      BY <1>1, <1>2, <1>7 DEF P!DetectFrame, P!ChunkUnits
    <2>2. PICK n \in Nat, t \in 0..MaxUnits : n = l + d /\ t = u + d /\ n <= t
      BY <1>1
    <2>3. Whole(n)
      <3>1. Whole(l + d)
        BY <1>1, <1>3, <1>7, NoLonger
      <3>. QED  BY <2>2, <3>1
    <2>4. PICK new : new = P!Pcm(n, t)
      OBVIOUS
    <2>5. new \in Seq(Unit) /\ n = Len(new)
      BY <2>2, <2>4, PcmIsDecoded
    <2>6. t \in Nat /\ t - b = 120 * k + n
      BY <1>1, <1>3, <2>2
    <2>7. Follows(new, k, b)
      BY <2>4, <2>6, PcmFollows
    <2>8. PICK m, r : m = model /\ r = model'
      OBVIOUS
    <2>9. /\ weights \in Weightings /\ Going(m) /\ Exact(m, k, b)
          /\ r = P!Forward(m, new, FALSE, fault, "none")
      BY <1>3, <2>1, <2>2, <2>4, <2>8 DEF Stays, Counts
    <2>10. Exact(r, k + 1, b)
      BY <2>3, <2>5, <2>7, <2>9, GoesOnExactly
    <2>11. \E x \in Nat : decoded_length_' = x * duration'
      <3>1. 0 * d = 0
        OBVIOUS
      <3>. QED  BY <1>2, <2>1, <3>1
    <2>12. \E x \in Nat : units' - began' = 120 * x + decoded_length_' /\ Exact(model', x, began')
      <3>1. units' - began' = 120 * (k + 1) + decoded_length_'
        <4>1. \A x \in Nat : Whole(x) => x = 120
          BY DEF Whole
        <4>2. n = 120
          BY <2>3, <4>1
        <4>3. t - b = 120 * (k + 1) + 0
          BY <2>6, <4>2
        <4>. QED  BY <1>2, <2>1, <2>2, <4>3
      <3>2. Exact(model', k + 1, began')
        BY <1>2, <2>8, <2>10
      <3>3. k + 1 \in Nat
        OBVIOUS
      <3>. QED  BY <3>1, <3>2, <3>3
    <2>. QED  BY <1>4, <1>5, <2>11, <2>12 DEF Places
  <1>. QED  BY <1>6, <1>7

\* A model that has finished and handed its text over is new.
LEMMA FinishedIsAnew ==
    ASSUME NEW m, Finished(m), NEW r, r = [m EXCEPT !.text = 0, !.rows = <<>>, !.faulty = FALSE]
    PROVE  IsAnew(r) /\ r.is_first_chunk \in BOOLEAN /\ r.crashed \in BOOLEAN
  <1>1. PICK first \in BOOLEAN, rows \in Seq(Row), faulty \in BOOLEAN, crashed \in BOOLEAN,
             text \in Nat :
          /\ m = [P!NewModel EXCEPT !.is_first_chunk = first, !.rows = rows, !.faulty = faulty,
                                    !.crashed = crashed, !.text = text]
          /\ m.rows = rows
    <2>1. /\ m.is_first_chunk \in BOOLEAN /\ m.rows \in Seq(Row) /\ m.faulty \in BOOLEAN
          /\ m.crashed \in BOOLEAN /\ m.text \in Nat
      BY DEF Finished, Caches
    <2>2. m = [P!NewModel EXCEPT !.is_first_chunk = m.is_first_chunk, !.rows = m.rows,
                                 !.faulty = m.faulty, !.crashed = m.crashed, !.text = m.text]
      BY DEF Finished
    <2>. QED  BY <2>1, <2>2, Zenon
  <1>2. PICK n : n = [P!NewModel EXCEPT !.is_first_chunk = first, !.crashed = crashed]
    OBVIOUS
  <1>3. n.is_first_chunk = first /\ n.crashed = crashed
    BY <1>2, NewIsModel DEF Caches
  <1>4. P!NewModel.rows = <<>> /\ P!NewModel.faulty = FALSE /\ P!NewModel.text = 0
    BY DEF P!NewModel
  <1>5. r = n
    BY <1>1, <1>2, <1>4, NewIsModel DEF Caches
  <1>. QED  BY <1>2, <1>3, <1>5 DEF IsAnew

\* The end mark.
LEMMA PlacesEnd ==
    ASSUME Stays, Places, P!DetectEnd
    PROVE  Places'
  <1>1. PICK l \in Nat, u \in 0..MaxUnits, b \in Nat :
          /\ l = decoded_length_ /\ u = units /\ l <= u
          /\ b = began /\ b <= u /\ l < 120
    BY ParaformerAssumption DEF Stays, Counts, P!ChunkUnits
  <1>2. /\ duration' = duration /\ began' = u /\ units' = u /\ decoded_length_' = 0
        /\ duration \in Nat /\ u \in Nat
    BY <1>1, ParaformerAssumption DEF P!DetectEnd, Stays, Counts
  <1>3. PICK k \in Nat : u - b = 120 * k + l /\ Exact(model, k, b)
    BY <1>1 DEF Places
  <1>4. PICK fault, fault2, m :
          /\ m = P!Forward(model, P!Pcm(l, u), TRUE, fault, fault2)
          /\ last' = [units |-> units - began, rows |-> m.rows,
                      text |-> m.text, faulty |-> m.faulty]
          /\ model' = [m EXCEPT !.text = 0, !.rows = <<>>, !.faulty = FALSE]
    BY <1>1 DEF P!DetectEnd
  <1>5. PICK new : new = P!Pcm(l, u)
    OBVIOUS
  <1>6. new \in Seq(Unit) /\ l = Len(new)
    BY <1>1, <1>5, PcmIsDecoded
  <1>7. Follows(new, k, b)
    BY <1>2, <1>3, <1>5, PcmFollows
  <1>8. PICK old : old = model
    OBVIOUS
  <1>9. /\ weights \in Weightings /\ Going(old) /\ Exact(old, k, b)
        /\ m = P!Forward(old, new, TRUE, fault, fault2)
    BY <1>3, <1>4, <1>5, <1>8 DEF Stays, Counts
  <1>10. PICK f \in Nat : f = P!ComputeFrameNum(120 * k + l)
    <2>1. 120 * k + l \in Nat
      OBVIOUS
    <2>. QED  BY <2>1, FrameNum
  <1>11. ~m.faulty => AllRows(m.rows, f, b)
    BY <1>1, <1>6, <1>7, <1>9, <1>10, EndsExactly
  <1>12. ~last'.faulty => AllRows(last'.rows, P!ComputeFrameNum(last'.units), units' - last'.units)
    <2>1. /\ last'.faulty = m.faulty /\ last'.rows = m.rows /\ last'.units = units - began
      BY <1>4
    <2>2. last'.units = 120 * k + l
      BY <1>1, <1>3, <2>1
    <2>3. units' - last'.units = b
      <3>1. u - (120 * k + l) = b
        BY <1>1, <1>3
      <3>. QED  BY <1>2, <2>2, <3>1
    <2>4. P!ComputeFrameNum(last'.units) = f
      BY <1>10, <2>2
    <2>. QED  BY <1>11, <2>1, <2>3, <2>4
  <1>13. \E x \in Nat : x * duration' = 120
    BY <1>2 DEF Places
  <1>14. \E x \in Nat : decoded_length_' = x * duration'
    <2>1. 0 * duration = 0
      BY <1>2
    <2>. QED  BY <1>2, <2>1
  <1>15. \E x \in Nat : units' - began' = 120 * x + decoded_length_' /\ Exact(model', x, began')
    <2>1. units' - began' = 120 * 0 + decoded_length_'
      BY <1>2
    <2>2. Exact(model', 0, began')
      <3>1. PICK r : r = model'
        OBVIOUS
      <3>2. Finished(m)
        BY <1>6, <1>9, Ending
      <3>3. IsAnew(r) /\ r.is_first_chunk \in BOOLEAN /\ r.crashed \in BOOLEAN
        BY <1>4, <3>1, <3>2, FinishedIsAnew
      <3>4. Exact(r, 0, u)
        BY <1>2, <1>9, <3>3, AnewIsExact
      <3>. QED  BY <1>2, <3>1, <3>4
    <2>. QED  BY <2>1, <2>2
  <1>16. last'.rows \in Seq(Row)
    <2>1. Finished(m)
      BY <1>6, <1>9, Ending
    <2>2. m.rows \in Seq(Row)
      BY <2>1 DEF Finished, Caches
    <2>. QED  BY <1>4, <2>2
  <1>. QED  BY <1>12, <1>13, <1>14, <1>15, <1>16 DEF Places

\* What the places say of the rows.
LEMMA RowsOfPlaces ==
    ASSUME Stays, Places
    PROVE  P!CentreRowsAreTheUtterance
  <1>1. PICK l \in Nat, u \in Nat, b \in Nat :
          /\ l = decoded_length_ /\ u = units /\ b = began /\ b <= u
    BY ParaformerAssumption DEF Stays, Counts, P!ChunkUnits
  <1>2. PICK k \in Nat : u - b = 120 * k + l /\ Exact(model, k, b)
    BY <1>1 DEF Places
  <1>3. PICK f \in Nat : f = P!ComputeFrameNum(120 * k + l)
    <2>1. 120 * k + l \in Nat
      OBVIOUS
    <2>. QED  BY <2>1, FrameNum
  <1>4. ASSUME NEW rows \in Seq(Row), NEW M, NEW n, NEW after, Uttered(rows, M, n, after)
        PROVE  P!IsUtterance(rows, n, after)
    <2>1. DOMAIN rows = 1..M
      BY <1>4, LenProperties DEF Uttered
    <2>2. P!chunk_size[1] = 5
      BY DEF P!chunk_size
    <2>3. ASSUME NEW i \in DOMAIN rows PROVE rows[i] = P!RowOf(i - 1 - 5, n, after)
      <3>1. i \in 1..Len(rows)
        BY LenProperties
      <3>2. i - 1 - 5 = i - 6
        BY <3>1
      <3>. QED  BY <1>4, <2>1, <3>2 DEF Uttered
    <2>. QED  BY <2>2, <2>3 DEF P!IsUtterance
  <1>5. ASSUME ~model.faulty
        PROVE  P!IsUtterance(model.rows, P!ComputeFrameNum(units - began), began)
    <2>1. f >= 60 * k - 2
      BY <1>3, FramesAtEnd
    <2>2. PICK m : m = model
      OBVIOUS
    <2>3. Lasting(m, k, f, b)
      <3>1. Exact(m, k, b)
        BY <1>2, <2>2
      <3>. QED  BY <2>1, <3>1, RowsLast
    <2>4. Uttered(m.rows, 10 * k, f, b)
      BY <1>5, <2>2, <2>3 DEF Lasting
    <2>5. m.rows \in Seq(Row)
      BY <2>2 DEF Stays, Going, Caches
    <2>6. P!IsUtterance(m.rows, f, b)
      BY <1>4, <2>4, <2>5
    <2>7. units - began = 120 * k + l
      BY <1>1, <1>2
    <2>. QED  BY <1>1, <1>3, <2>2, <2>6, <2>7
  <1>6. ASSUME began = units, ~last.faulty, NEW n, n = P!ComputeFrameNum(last.units),
               NEW rows, rows = (n + P!lfr_n - 1) \div P!lfr_n
        PROVE  /\ \/ Len(last.rows) - P!chunk_size[1] \in {rows, rows - 1}
                  \/ rows <= 1 /\ last.rows = <<>>
               /\ P!IsUtterance(last.rows, n, units - last.units)
    <2>1. PICK s, after : s = last.rows /\ after = units - last.units
      OBVIOUS
    <2>2. AllRows(s, n, after) /\ s \in Seq(Row)
      BY <1>6, <2>1 DEF Places
    <2>3. rows = (n + 5) \div 6
      <3>1. PICK y : y = n
        OBVIOUS
      <3>2. y + P!lfr_n - 1 = y + 5 /\ P!lfr_n = 6
        BY DEF P!lfr_n
      <3>. QED  BY <1>6, <3>1, <3>2
    <2>4. ASSUME NEW M \in Nat, M \in {rows, rows - 1}, Uttered(s, M + 5, n, after)
          PROVE  Len(s) - P!chunk_size[1] \in {rows, rows - 1} /\ P!IsUtterance(s, n, after)
      <3>1. P!chunk_size[1] = 5
        BY DEF P!chunk_size
      <3>2. Len(s) = M + 5 /\ (M + 5) - 5 = M
        BY <2>4 DEF Uttered
      <3>3. P!IsUtterance(s, n, after)
        BY <1>4, <2>2, <2>4
      <3>. QED  BY <2>4, <3>1, <3>2, <3>3
    <2>5. ASSUME rows <= 1, s = <<>> PROVE P!IsUtterance(s, n, after)
      <3>1. DOMAIN s = {}
        BY <2>5
      <3>. QED  BY <3>1 DEF P!IsUtterance
    <2>6. \/ \E M \in Nat : M \in {rows, rows - 1} /\ Uttered(s, M + 5, n, after)
          \/ rows <= 1 /\ s = <<>>
      BY <2>2, <2>3 DEF AllRows
    <2>. QED  BY <2>1, <2>4, <2>5, <2>6
  <1>. QED  BY <1>5, <1>6 DEF P!CentreRowsAreTheUtterance

\* Type correctness of Paraformer.
LEMMA TypeHolds == P!Spec => []P!TypeOK
  <1>1. Stays => P!TypeOK
    <2>. SUFFICES ASSUME Stays PROVE P!TypeOK
      OBVIOUS
    <2>1. model \in Caches /\ Len(model.feats_cache_) = 10 /\ ~model.is_last_chunk
      BY DEF Stays, Going, TenRows
    <2>2. /\ model.reserve_waveforms_ \in Nat /\ model.input_cache_ \in Seq(1..MaxUnits)
          /\ model.lfr_splice_cache_ \in Seq(1..MaxUnits)
          /\ model.alphas_cache_ \in 0..P!cif_threshold - 1 /\ model.text \in Nat
          /\ model.surplus \in Nat
      BY <2>1 DEF Caches, Unit
    <2>3. P!chunk_size[1] + P!chunk_size[3] = 10
      BY DEF P!chunk_size
    <2>. QED  BY <2>1, <2>2, <2>3 DEF Stays, Counts, P!TypeOK
  <1>. QED  BY <1>1, StaysHolds, PTL

\* However the utterance was cut into chunks, its tokens are those of all its rows.
LEMMA TokensHold == P!Spec => []P!TokensFollowTheIntegral
  <1>1. Stays => P!TokensFollowTheIntegral
    BY DEF Stays
  <1>. QED  BY <1>1, StaysHolds, PTL

\* Unless the process crashes, every end mark leaves the model as it was made.
LEMMA Forgets == P!Spec => P!NothingIsLeft
  <1>1. Stays /\ [P!Next]_P!vars => [P!FlushForgets]_P!vars
    BY StaysStep
  <1>. QED  BY <1>1, StaysHolds, PTL DEF P!Spec, P!NothingIsLeft

\* However an utterance was cut into calls and chunks, what is weighed are the five
\* rows of zeros before it and then its rows, each once, in order and made of the right
\* frames; when it has ended, all but at most the last.
LEMMA RowsHold ==
    ASSUME Regular
    PROVE  P!Spec => []P!CentreRowsAreTheUtterance
  <1>1. P!Init => Stays /\ Places
    BY StaysInit, PlacesInit
  <1>2. Stays /\ Places /\ [P!Next]_P!vars => (Stays /\ Places)'
    <2>. SUFFICES ASSUME Stays, Places, [P!Next]_P!vars PROVE Stays' /\ Places'
      OBVIOUS
    <2>1. Stays'
      BY StaysStep
    <2>2. CASE P!DetectFrame
      BY <2>1, <2>2, PlacesFrame
    <2>3. CASE P!DetectEnd
      BY <2>1, <2>3, PlacesEnd
    <2>4. CASE UNCHANGED P!vars
      BY <2>1, <2>4 DEF P!vars, Places
    <2>. QED  BY <2>2, <2>3, <2>4 DEF P!Next, P!Ended
  <1>3. Stays /\ Places => P!CentreRowsAreTheUtterance
    BY RowsOfPlaces
  <1>. QED  BY <1>1, <1>2, <1>3, PTL DEF P!Spec

-----------------------------------------------------------------------------
(* Whichever recogniser was created *)

\* Each behaviour is one of both recognisers, the other one standing still.
LEMMA Created == CreatedSpec => Spec /\ P!Spec
  <1>1. createASR => Init /\ P!Init
    BY DEF createASR
  <1>2. [detect_opus]_allvars => [Next]_vars /\ [P!Next]_P!vars
    BY DEF detect_opus, allvars, vars, paraformerVars, P!vars
  <1>. QED  BY <1>1, <1>2, PTL DEF CreatedSpec, Spec, P!Spec

\* Type correctness of both, whichever was created.
THEOREM StateTypeCorrect == CreatedSpec => []StateTypeOK
  <1>. QED  BY Created, TypeCorrect, TypeHolds, PTL DEF StateTypeOK

\* Paraformer: however an utterance was cut into chunks, and in one call or several,
\* its tokens are those of all the rows weighed for it, taken at once, the rows of
\* zeros before it included.  For any weights.
THEOREM TokensAreTheUtterances == CreatedSpec => []TokensFollowTheIntegral
  <1>. QED  BY Created, TokensHold, PTL DEF TokensFollowTheIntegral

\* Paraformer: however an utterance was cut into calls and chunks, what is weighed are
\* the five rows of zeros before it and then its rows, each once, in order and made of
\* the right frames; when it has ended, all but at most the last, or nothing when there
\* is not more than one.  For packets of a regular length.
THEOREM RowsAreTheUtterances ==
    ASSUME Regular
    PROVE  CreatedSpec => []CentreRowsAreTheUtterance
  <1>. QED  BY Created, RowsHold, PTL DEF CentreRowsAreTheUtterance

\* Paraformer: unless the process crashes, every end mark leaves the model as it was
\* made, exceptions and short utterances included.
THEOREM UtterancesAreForgotten == CreatedSpec => NothingIsLeft
  <1>. QED  BY Created, Forgets, PTL DEF NothingIsLeft
=============================================================================
