------------------------- MODULE TtsSynthesisProofs -------------------------
(***************************************************************************)
(* Theorems about text_to_speak: its type invariant, with the bound on        *)
(* samples_decoded that every write into pcm relies on; that packets of one    *)
(* length that divides a frame never overrun pcm; and that the frames          *)
(* returned are then the speech, in order and without a gap.                   *)
(***************************************************************************)
EXTENDS TtsSynthesis, SequenceTheorems, TLAPS

-----------------------------------------------------------------------------
(* The stages *)

\* Edge's stages, by their numbers.
LEMMA EdgeStages ==
    ASSUME selected_module = "EdgeTTS"
    PROVE  /\ DOMAIN Stages = 1..5 /\ Len(Stages) = 5
           /\ Stages[1] = "connect" /\ Stages[2] = "handshake" /\ Stages[3] = "command"
           /\ Stages[4] = "ssml" /\ Stages[5] = "reading"
  BY DEF Stages

\* BytedanceV3's stages, by their numbers.
LEMMA BytedanceStages ==
    ASSUME selected_module = "BytedanceTTSV3"
    PROVE  /\ DOMAIN Stages = 1..9 /\ Len(Stages) = 9
           /\ Stages[1] = "connect" /\ Stages[2] = "handshake"
           /\ Stages[3] = "start_connection" /\ Stages[4] = "connection_started"
           /\ Stages[5] = "start_session" /\ Stages[6] = "session_started"
           /\ Stages[7] = "task_request" /\ Stages[8] = "finish_session"
           /\ Stages[9] = "reading"
  <1>1. Stages = <<"connect", "handshake", "start_connection", "connection_started",
                   "start_session", "session_started", "task_request", "finish_session",
                   "reading">>
    BY DEF Stages
  <1>. QED  BY <1>1

\* The names of the stages, whichever the voice.
Asked == {"command", "ssml", "start_connection", "connection_started", "start_session",
          "session_started", "task_request", "finish_session"}
States == Connecting \union Asked \union {"reading", "finish_connection",
                                          "connection_finished"} \union Over

\* Where text_to_speak may be.
LEMMA StageNames ==
    ASSUME selected_module \in {"EdgeTTS", "BytedanceTTSV3"}
    PROVE  /\ ToSet(Stages) \subseteq Connecting \union Asked \union {"reading"}
           /\ "connect" \in ToSet(Stages) /\ "reading" \in ToSet(Stages)
           /\ Asking \subseteq Asked
           /\ Asking \subseteq ToSet(Stages)
           /\ Stages[Len(Stages) - 1] \in Asking
           /\ \A i \in DOMAIN Stages :
                Stages[i] \in Connecting \union Asking => Stages[i + 1] \in ToSet(Stages)
  <1>1. CASE selected_module = "EdgeTTS"
    <2>1. ToSet(Stages) = {"connect", "handshake", "command", "ssml", "reading"}
      BY <1>1, EdgeStages DEF ToSet
    <2>2. Asking = {"command", "ssml"}
      BY <2>1 DEF Asking, Connecting
    <2>3. ASSUME NEW i \in DOMAIN Stages, Stages[i] \in Connecting \union Asking
          PROVE  Stages[i + 1] \in ToSet(Stages)
      <3>1. i \in {1, 2, 3, 4}
        BY <1>1, <2>2, <2>3, EdgeStages DEF Connecting
      <3>. QED  BY <1>1, <2>1, <3>1, EdgeStages
    <2>4. Stages[Len(Stages) - 1] = "ssml"
      <3>1. Len(Stages) = 5 /\ 5 - 1 = 4
        BY <1>1, EdgeStages
      <3>. QED  BY <1>1, <3>1, EdgeStages
    <2>. QED  BY <2>1, <2>2, <2>3, <2>4 DEF Asked, Connecting
  <1>2. CASE selected_module = "BytedanceTTSV3"
    <2>1. ToSet(Stages) = {"connect", "handshake", "start_connection", "connection_started",
                           "start_session", "session_started", "task_request",
                           "finish_session", "reading"}
      BY <1>2, BytedanceStages DEF ToSet
    <2>2. Asking = {"start_connection", "connection_started", "start_session",
                    "session_started", "task_request", "finish_session"}
      BY <2>1 DEF Asking, Connecting
    <2>3. ASSUME NEW i \in DOMAIN Stages, Stages[i] \in Connecting \union Asking
          PROVE  Stages[i + 1] \in ToSet(Stages)
      <3>1. i \in {1, 2, 3, 4, 5, 6, 7, 8}
        BY <1>2, <2>2, <2>3, BytedanceStages DEF Connecting
      <3>. QED  BY <1>2, <2>1, <3>1, BytedanceStages
    <2>4. Stages[Len(Stages) - 1] = "finish_session"
      <3>1. Len(Stages) = 9 /\ 9 - 1 = 8
        BY <1>2, BytedanceStages
      <3>. QED  BY <1>2, <3>1, BytedanceStages
    <2>. QED  BY <2>1, <2>2, <2>3, <2>4 DEF Asked, Connecting
  <1>. QED  BY <1>1, <1>2

-----------------------------------------------------------------------------
(* Decoding *)

\* What pcm holds: units, silence or noise.
Sample == Int
Frame == [1..frame_size -> Sample]
Buffers == [pcm : Frame, n : 0..frame_size - 1, audio : Seq(Frame), overrun : BOOLEAN]

\* A frame is a sequence.
LEMMA FrameIsSeq ==
    ASSUME NEW f \in Frame
    PROVE  f \in Seq(Sample) /\ Len(f) = 6
  <1>1. f \in [1..6 -> Sample]
    BY DEF Frame, frame_size
  <1>2. f \in Seq(Sample)
    <2>1. \E n \in Nat : f \in [1..n -> Sample]
      BY <1>1
    <2>. QED  BY <2>1, SeqDef
  <1>3. DOMAIN f = 1..6
    BY <1>1
  <1>. QED  BY <1>1, <1>2, <1>3, LenProperties

\* The units of a packet follow those before it.
LEMMA UnitsAre ==
    ASSUME NEW p \in Packet, units \in Nat
    PROVE  /\ UnitsOf(p) \in Seq(1..units + p.duration)
           /\ UnitsOf(p) \in Seq(Sample) /\ Len(UnitsOf(p)) = p.duration
  <1>1. p.duration \in 1..6
    BY TtsAssumption DEF Packet
  <1>2. UnitsOf(p) = [i \in 1..p.duration |-> units + i]
    BY DEF UnitsOf
  <1>. QED  BY <1>1, <1>2 DEF Sample

\* A piece decodes to no more than a frame.
LEMMA DecodedType ==
    ASSUME NEW p \in Packet, NEW k, units \in Nat, NEW new \in DecodedPiece(p, k)
    PROVE  new \in Seq(Sample) /\ Len(new) <= frame_size
  <1>1. p.duration \in 1..6 /\ Durations \subseteq 1..6
    BY TtsAssumption DEF Packet
  <1>2. UnitsOf(p) \in Seq(Sample) /\ Len(UnitsOf(p)) = p.duration
    BY <1>1, UnitsAre
  <1>3. ASSUME NEW d \in 1..6 PROVE Noises(d) \in Seq(Sample) /\ Len(Noises(d)) = d
    BY DEF Noises, Noise, Sample
  <1>4. <<>> \in Seq(Sample) /\ Len(<<>>) = 0
    OBVIOUS
  <1>5. \/ new = <<>> \/ new = UnitsOf(p)
        \/ \E d \in 1..6 : new = Noises(d)
    <2>1. CASE p.kind = "double" \/ k \notin DOMAIN Pieces(p)
      BY <2>1 DEF DecodedPiece
    <2>2. CASE ~(p.kind = "double" \/ k \notin DOMAIN Pieces(p)) /\ p.kind = "long"
      <3>1. {p.duration} \subseteq 1..6 /\ Durations \subseteq 1..6
        BY <1>1
      <3>2. new \in {<<>>} \union {Noises(d) : d \in IF k = 1 THEN {p.duration} ELSE Durations}
        BY <2>2 DEF DecodedPiece
      <3>. QED  BY <3>1, <3>2
    <2>3. CASE ~(p.kind = "double" \/ k \notin DOMAIN Pieces(p)) /\ p.kind # "long"
      BY <2>3 DEF DecodedPiece
    <2>. QED  BY <2>1, <2>2, <2>3
  <1>6. CASE new = <<>>
    BY <1>4, <1>6 DEF frame_size
  <1>7. CASE new = UnitsOf(p)
    BY <1>1, <1>2, <1>7 DEF frame_size
  <1>8. ASSUME NEW d \in 1..6, new = Noises(d) PROVE new \in Seq(Sample) /\ Len(new) <= 6
    <2>1. Noises(d) \in Seq(Sample) /\ Len(Noises(d)) = d
      BY <1>3
    <2>2. d <= 6
      OBVIOUS
    <2>. QED  BY <1>8, <2>1, <2>2
  <1>. QED  BY <1>5, <1>6, <1>7, <1>8 DEF frame_size

\* The buffer after new has been written, by its values.
LEMMA FilledIs ==
    ASSUME NEW s \in Buffers, NEW new \in Seq(Sample), Len(new) <= frame_size
    PROVE  LET n == s.n + Len(new) IN
           /\ n \in 0..11
           /\ Filled(s, new).pcm \in Frame
           /\ \A j \in 1..s.n : Filled(s, new).pcm[j] = s.pcm[j]
           /\ \A j \in s.n + 1..n : j <= frame_size => Filled(s, new).pcm[j] = new[j - s.n]
           /\ Filled(s, new).n = IF n >= frame_size THEN n - frame_size ELSE n
           /\ Filled(s, new).audio = IF n >= frame_size THEN Append(s.audio, Filled(s, new).pcm)
                                     ELSE s.audio
           /\ Filled(s, new).overrun = (s.overrun \/ n > frame_size)
  <1>. DEFINE n == s.n + Len(new)
              buffer == SubSeq(s.pcm, 1, s.n) \o new \o SubSeq(s.pcm, n + 1, frame_size)
              frame == SubSeq(buffer, 1, frame_size)
  <1>. HIDE DEF buffer, frame
  <1>1. s.n \in 0..5 /\ Len(new) \in Nat /\ Len(new) <= 6 /\ n \in 0..11
    <2>1. s.n \in 0..frame_size - 1
      BY DEF Buffers
    <2>2. s.n \in 0..5
      BY <2>1 DEF frame_size
    <2>3. Len(new) \in Nat
      BY LenProperties
    <2>4. Len(new) <= 6
      BY DEF frame_size
    <2>. QED  BY <2>2, <2>3, <2>4
  <1>2. s.pcm \in Seq(Sample) /\ Len(s.pcm) = 6
    <2>1. s.pcm \in Frame
      BY DEF Buffers
    <2>. QED  BY <2>1, FrameIsSeq
  <1>3. /\ SubSeq(s.pcm, 1, s.n) \in Seq(Sample) /\ Len(SubSeq(s.pcm, 1, s.n)) = s.n
        /\ \A j \in 1..s.n : SubSeq(s.pcm, 1, s.n)[j] = s.pcm[j]
    <2>1. \A i \in 1..s.n : s.pcm[i] \in Sample
      BY <1>1, <1>2, ElementOfSeq
    <2>. HIDE DEF n
    <2>. QED  BY <1>1, <2>1, SubSeqProperties
  <1>4. /\ SubSeq(s.pcm, n + 1, 6) \in Seq(Sample)
        /\ Len(SubSeq(s.pcm, n + 1, 6)) = IF n < 6 THEN 6 - n ELSE 0
    <2>1. \A i \in n + 1..6 : s.pcm[i] \in Sample
      BY <1>1, <1>2, ElementOfSeq
    <2>. HIDE DEF n
    <2>. QED  BY <1>1, <2>1, SubSeqProperties
  <1>5. /\ SubSeq(s.pcm, 1, s.n) \o new \in Seq(Sample)
        /\ Len(SubSeq(s.pcm, 1, s.n) \o new) = n
        /\ \A j \in 1..s.n : (SubSeq(s.pcm, 1, s.n) \o new)[j] = s.pcm[j]
        /\ \A j \in s.n + 1..n : (SubSeq(s.pcm, 1, s.n) \o new)[j] = new[j - s.n]
    <2>. DEFINE k == Len(new)
    <2>1. k \in Nat /\ s.n \in Nat /\ s.n + k = n
      BY <1>1
    <2>. HIDE DEF n
    <2>2. /\ SubSeq(s.pcm, 1, s.n) \o new \in Seq(Sample)
          /\ Len(SubSeq(s.pcm, 1, s.n) \o new) = s.n + k
          /\ \A j \in 1..s.n + k : (SubSeq(s.pcm, 1, s.n) \o new)[j] =
               IF j <= s.n THEN SubSeq(s.pcm, 1, s.n)[j] ELSE new[j - s.n]
      BY <1>3, ConcatProperties
    <2>. QED  BY <1>3, <2>1, <2>2
  <1>6. /\ buffer \in Seq(Sample) /\ Len(buffer) = IF n < 6 THEN 6 ELSE n
        /\ \A j \in 1..s.n : buffer[j] = s.pcm[j]
        /\ \A j \in s.n + 1..n : buffer[j] = new[j - s.n]
    <2>. DEFINE before == SubSeq(s.pcm, 1, s.n) \o new
                behind == SubSeq(s.pcm, n + 1, 6)
    <2>1. buffer = before \o behind
      BY DEF buffer, frame_size
    <2>2. PICK m \in 0..11 : m = n
      BY <1>1
    <2>3. PICK k \in Nat : k = IF m < 6 THEN 6 - m ELSE 0
      OBVIOUS
    <2>4. /\ before \in Seq(Sample) /\ Len(before) = m
          /\ behind \in Seq(Sample) /\ Len(behind) = k
      <3>. HIDE DEF n
      <3>. QED  BY <1>4, <1>5, <2>2, <2>3
    <2>. HIDE DEF n, before, behind
    <2>5. /\ buffer \in Seq(Sample) /\ Len(buffer) = m + k
          /\ \A j \in 1..m : buffer[j] = before[j]
      <3>1. /\ buffer \in Seq(Sample) /\ Len(buffer) = m + k
            /\ \A j \in 1..m + k : buffer[j] = IF j <= m THEN before[j] ELSE behind[j - m]
        BY <2>1, <2>4, ConcatProperties
      <3>. QED  BY <3>1
    <2>6. Len(buffer) = IF m < 6 THEN 6 ELSE m
      BY <2>3, <2>5
    <2>7. \A j \in 1..s.n : j \in 1..m
      BY <1>1, <2>2 DEF n
    <2>8. \A j \in s.n + 1..m : j \in 1..m
      BY <1>1, <2>2 DEF n
    <2>. QED  BY <1>5, <2>2, <2>5, <2>6, <2>7, <2>8 DEF before
  <1>7. /\ frame \in Seq(Sample) /\ Len(frame) = 6
        /\ \A j \in 1..6 : frame[j] = buffer[j]
    <2>1. frame = SubSeq(buffer, 1, 6)
      BY DEF frame, frame_size
    <2>2. \A i \in 1..6 : buffer[i] \in Sample
      BY <1>1, <1>6
    <2>. QED  BY <2>1, <2>2, SubSeqProperties
  <1>8. frame \in Frame
    BY <1>7, LenProperties DEF Frame, frame_size
  <1>. HIDE DEF n
  <1>9. Filled(s, new) = [pcm |-> frame,
                          n |-> IF n >= frame_size THEN n - frame_size ELSE n,
                          audio |-> IF n >= frame_size THEN Append(s.audio, frame) ELSE s.audio,
                          overrun |-> s.overrun \/ n > frame_size]
    BY DEF Filled, IsFull, InExcess, n, frame, buffer
  <1>10. \A j \in 1..s.n : frame[j] = s.pcm[j]
    BY <1>1, <1>6, <1>7
  <1>11. \A j \in s.n + 1..n : j <= frame_size => frame[j] = new[j - s.n]
    <2>1. ASSUME NEW j \in s.n + 1..n, j <= 6 PROVE frame[j] = new[j - s.n]
      <3>1. j \in 1..6
        BY <1>1, <2>1
      <3>. QED  BY <1>6, <1>7, <3>1
    <2>. QED  BY <2>1 DEF frame_size
  <1>. QED  BY <1>1, <1>8, <1>9, <1>10, <1>11 DEF n

\* Whatever is written, less than a frame is left in the buffer.
LEMMA FilledType ==
    ASSUME NEW s \in Buffers, NEW new \in Seq(Sample), Len(new) <= frame_size
    PROVE  Filled(s, new) \in Buffers
  <1>. DEFINE n == s.n + Len(new)
  <1>1. s.n \in 0..5 /\ s.audio \in Seq(Frame) /\ s.overrun \in BOOLEAN
    BY DEF Buffers, frame_size
  <1>2. Filled(s, new).pcm \in Frame /\ n \in 0..11
    BY FilledIs
  <1>3. Filled(s, new).n \in 0..frame_size - 1
    BY <1>1, <1>2, FilledIs DEF frame_size
  <1>4. Filled(s, new).audio \in Seq(Frame)
    <2>1. \/ Filled(s, new).audio = s.audio
          \/ Filled(s, new).audio = Append(s.audio, Filled(s, new).pcm)
      BY FilledIs
    <2>2. Append(s.audio, Filled(s, new).pcm) \in Seq(Frame)
      BY <1>1, <1>2, AppendProperties
    <2>. QED  BY <1>1, <2>1, <2>2
  <1>5. Filled(s, new).overrun \in BOOLEAN
    BY <1>1, FilledIs, Zenon
  <1>6. Filled(s, new) = [pcm |-> Filled(s, new).pcm, n |-> Filled(s, new).n,
                          audio |-> Filled(s, new).audio,
                          overrun |-> Filled(s, new).overrun]
    BY DEF Filled
  <1>. QED  BY <1>2, <1>3, <1>4, <1>5, <1>6, Zenon DEF Buffers

\* What s holds is sp: whole frames in audio, the rest in pcm.
Carries(s, sp) ==
    /\ Len(sp) = frame_size * Len(s.audio) + s.n
    /\ \A i \in DOMAIN s.audio, j \in 1..frame_size :
         s.audio[i][j] = sp[(i - 1) * frame_size + j]
    /\ \A j \in 1..s.n : s.pcm[j] = sp[frame_size * Len(s.audio) + j]

\* As long as it fits, what is written goes behind what there is.
LEMMA FilledCarries ==
    ASSUME NEW s \in Buffers, NEW sp \in Seq(Sample), Carries(s, sp),
           NEW new \in Seq(Sample), s.n + Len(new) <= frame_size
    PROVE  Carries(Filled(s, new), sp \o new)
  <1>. DEFINE t == Filled(s, new)
              both == sp \o new
  <1>1. PICK w \in Nat : w = Len(s.audio)
    BY LenProperties DEF Buffers
  <1>2. PICK m \in 0..5 : m = s.n
    BY DEF Buffers, frame_size
  <1>3. PICK k \in Nat : k = Len(new) /\ m + k <= 6
    <2>1. Len(new) \in Nat
      BY LenProperties
    <2>. QED  BY <1>2, <2>1 DEF frame_size
  <1>4. /\ Len(sp) = 6 * w + m
        /\ \A i \in 1..w, j \in 1..6 : s.audio[i][j] = sp[(i - 1) * 6 + j]
        /\ \A j \in 1..m : s.pcm[j] = sp[6 * w + j]
    <2>1. DOMAIN s.audio = 1..w
      BY <1>1, LenProperties DEF Buffers
    <2>. QED  BY <1>1, <1>2, <2>1 DEF Carries, frame_size
  <1>5. /\ both \in Seq(Sample) /\ Len(both) = 6 * w + m + k
        /\ \A i \in 1..6 * w + m : both[i] = sp[i]
        /\ \A i \in 6 * w + m + 1..6 * w + m + k : both[i] = new[i - (6 * w + m)]
    <2>1. PICK u \in Nat : u = 6 * w + m
      OBVIOUS
    <2>2. Len(sp) = u /\ Len(new) = k
      BY <1>3, <1>4, <2>1
    <2>3. /\ both \in Seq(Sample) /\ Len(both) = u + k
          /\ \A i \in 1..u : both[i] = sp[i]
          /\ \A i \in u + 1..u + k : both[i] = new[i - u]
      <3>1. /\ both \in Seq(Sample) /\ Len(both) = u + k
            /\ \A i \in 1..u + k : both[i] = IF i <= u THEN sp[i] ELSE new[i - u]
        BY <2>2, ConcatProperties
      <3>. QED  BY <3>1
    <2>. QED  BY <2>1, <2>3
  <1>6. /\ t.pcm \in Frame
        /\ \A j \in 1..m : t.pcm[j] = s.pcm[j]
        /\ \A j \in m + 1..m + k : t.pcm[j] = new[j - m]
        /\ t.n = (IF m + k >= 6 THEN m + k - 6 ELSE m + k)
        /\ t.audio = (IF m + k >= 6 THEN Append(s.audio, t.pcm) ELSE s.audio)
    <2>1. Len(new) <= frame_size
      BY <1>3 DEF frame_size
    <2>2. \A j \in m + 1..m + k : j <= 6
      BY <1>3
    <2>. QED  BY <1>2, <1>3, <2>1, <2>2, FilledIs DEF frame_size
  <1>. HIDE DEF t, both
  <1>7. \A j \in 1..m + k : t.pcm[j] = both[6 * w + j]
    <2>1. ASSUME NEW j \in 1..m + k PROVE t.pcm[j] = both[6 * w + j]
      <3>1. CASE j <= m
        <4>1. j \in 1..m /\ 6 * w + j \in 1..6 * w + m
          BY <3>1
        <4>. QED  BY <1>4, <1>5, <1>6, <4>1
      <3>2. CASE j > m
        <4>1. /\ j \in m + 1..m + k /\ 6 * w + j \in 6 * w + m + 1..6 * w + m + k
              /\ (6 * w + j) - (6 * w + m) = j - m
          BY <3>2
        <4>2. both[6 * w + j] = new[(6 * w + j) - (6 * w + m)]
          BY <1>5, <4>1
        <4>. QED  BY <1>6, <4>1, <4>2
      <3>. QED  BY <3>1, <3>2
    <2>. QED  BY <2>1
  <1>8. \A i \in 1..w, j \in 1..6 : s.audio[i][j] = both[(i - 1) * 6 + j]
    <2>1. ASSUME NEW i \in 1..w, NEW j \in 1..6
          PROVE  s.audio[i][j] = both[(i - 1) * 6 + j]
      <3>1. (i - 1) * 6 + j \in 1..6 * w + m
        OBVIOUS
      <3>. QED  BY <1>4, <1>5, <3>1
    <2>. QED  BY <2>1
  <1>9. CASE m + k < 6
    <2>1. t.n = m + k /\ t.audio = s.audio
      BY <1>6, <1>9
    <2>2. DOMAIN t.audio = 1..w /\ Len(t.audio) = w
      BY <1>1, <2>1, LenProperties DEF Buffers
    <2>3. Len(both) = 6 * Len(t.audio) + t.n
      BY <1>5, <2>1, <2>2
    <2>4. \A i \in DOMAIN t.audio, j \in 1..6 : t.audio[i][j] = both[(i - 1) * 6 + j]
      BY <1>8, <2>1, <2>2
    <2>5. \A j \in 1..t.n : t.pcm[j] = both[6 * Len(t.audio) + j]
      BY <1>7, <2>1, <2>2
    <2>. QED  BY <2>3, <2>4, <2>5 DEF Carries, frame_size, t, both
  <1>10. CASE m + k = 6
    <2>1. t.n = 0 /\ t.audio = Append(s.audio, t.pcm)
      BY <1>6, <1>10
    <2>2. /\ Len(t.audio) = w + 1 /\ DOMAIN t.audio = 1..w + 1
          /\ t.audio[w + 1] = t.pcm
          /\ \A i \in 1..w : t.audio[i] = s.audio[i]
      <3>1. s.audio \in Seq(Frame)
        BY DEF Buffers
      <3>. QED  BY <1>1, <1>6, <2>1, <3>1, AppendProperties, LenProperties
    <2>3. Len(both) = 6 * Len(t.audio) + t.n
      <3>1. 6 * w + m + k = 6 * (w + 1) + 0
        BY <1>10
      <3>. QED  BY <1>5, <2>1, <2>2, <3>1
    <2>4. ASSUME NEW i \in 1..w + 1, NEW j \in 1..6
          PROVE  t.audio[i][j] = both[(i - 1) * 6 + j]
      <3>1. CASE i = w + 1
        <4>1. (i - 1) * 6 + j = 6 * w + j /\ j \in 1..m + k
          BY <1>10, <3>1
        <4>. QED  BY <1>7, <2>2, <3>1, <4>1
      <3>2. CASE i # w + 1
        <4>1. i \in 1..w
          BY <3>2
        <4>. QED  BY <1>8, <2>2, <4>1
      <3>. QED  BY <3>1, <3>2
    <2>5. \A j \in 1..t.n : t.pcm[j] = both[6 * Len(t.audio) + j]
      BY <2>1
    <2>. QED  BY <2>2, <2>3, <2>4, <2>5 DEF Carries, frame_size, t, both
  <1>. QED  BY <1>3, <1>9, <1>10

-----------------------------------------------------------------------------
(* Type invariant *)

\* The buffer as text_to_speak holds it between two messages.
Held == [pcm |-> pcm, n |-> samples_decoded, audio |-> audio, overrun |-> FALSE]

\* What holds of where text_to_speak is: all but StageDone set pc to a name.
LEMMA TypeInit == Init => TypeOK
  <1>. SUFFICES ASSUME Init PROVE TypeOK
    OBVIOUS
  <1>1. pc \in ToSet(Stages) /\ retry \in 1..Tries
    BY StageNames DEF Init, Tries
  <1>2. pcm \in Frame
    BY DEF Init, Frame, Sample, Silence
  <1>3. audio \in Seq([1..frame_size -> Int]) /\ speech \in Seq(1..units)
        /\ spoken \in Seq(Packet)
    BY DEF Init
  <1>4. pcm \in [1..frame_size -> Int]
    BY <1>2 DEF Frame, Sample
  <1>5. samples_decoded \in 0..frame_size - 1
    BY DEF Init, frame_size
  <1>. QED  BY <1>1, <1>3, <1>4, <1>5 DEF Init, TypeOK

\* A packet is decoded into a buffer of the right type.
LEMMA DecodesType ==
    ASSUME TypeOK, NEW p \in Packet, Decodes(p)
    PROVE  /\ pcm' \in Frame /\ samples_decoded' \in 0..frame_size - 1
           /\ audio' \in Seq(Frame) /\ pc' \in {"overrun", pc}
  <1>1. Held \in Buffers
    BY DEF TypeOK, Held, Buffers, Frame, Sample
  <1>2. PICK first \in DecodedPiece(p, 1), second \in DecodedPiece(p, 2) :
          LET s == Filled(Filled(Held, first), second)
          IN  /\ pcm' = s.pcm /\ samples_decoded' = s.n /\ audio' = s.audio
              /\ pc' = IF s.overrun THEN "overrun" ELSE pc
    BY DEF Decodes, Held
  <1>3. /\ first \in Seq(Sample) /\ Len(first) <= frame_size
        /\ second \in Seq(Sample) /\ Len(second) <= frame_size
    BY DecodedType DEF TypeOK
  <1>4. Filled(Held, first) \in Buffers
    BY <1>1, <1>3, FilledType
  <1>5. Filled(Filled(Held, first), second) \in Buffers
    BY <1>3, <1>4, FilledType
  <1>. QED  BY <1>2, <1>5 DEF Buffers

\* What was said grows by the units of the packet.
LEMMA SaysType ==
    ASSUME TypeOK, NEW p \in Packet, units' = units + p.duration,
           speech' = IF Refused(p) THEN speech ELSE speech \o UnitsOf(p)
    PROVE  units' \in Nat /\ speech' \in Seq(1..units')
  <1>1. units \in Nat /\ p.duration \in 1..6 /\ speech \in Seq(1..units)
    BY TtsAssumption DEF TypeOK, Packet
  <1>2. units' \in Nat /\ 1..units \subseteq 1..units'
    BY <1>1
  <1>3. speech \in Seq(1..units')
    BY <1>1, <1>2, SeqMonotonic
  <1>4. UnitsOf(p) \in Seq(1..units')
    BY <1>1, UnitsAre
  <1>5. speech \o UnitsOf(p) \in Seq(1..units')
    BY <1>3, <1>4, ConcatProperties
  <1>. QED  BY <1>2, <1>3, <1>5

\* The last frame is of the right type.
LEMMA TailType ==
    ASSUME TypeOK PROVE WithTail \in Seq(Frame)
  <1>1. pcm \in [1..frame_size -> Sample] /\ audio \in Seq(Frame)
    BY DEF TypeOK, Frame, Sample
  <1>2. [i \in 1..frame_size |-> IF i <= samples_decoded THEN pcm[i] ELSE Silence] \in Frame
    BY <1>1 DEF Frame, Sample, Silence
  <1>. QED  BY <1>1, <1>2, AppendProperties DEF WithTail

\* Every step keeps the types.
LEMMA TypeStep == TypeOK /\ [Next]_vars => TypeOK'
  <1>. SUFFICES ASSUME TypeOK, [Next]_vars PROVE TypeOK'
    OBVIOUS
  <1>1. selected_module' = selected_module
    BY DEF TypeOK, Next, Answers, StageDone, ConnectFails, StartRefused, NoCoders, SpeechEnds,
           Finishes, Throws, ReadsMarker, ReadsPacket, SessionFailed, Ended, vars
  <1>2. Stages' = Stages /\ Tries' = Tries
    BY <1>1 DEF Stages, Tries
  <1>3. pc' \in ToSet(Stages) \union Over \union {"finish_connection", "connection_finished"}
    <2>. USE DEF Over
    <2>1. CASE StageDone
      BY <2>1, StageNames DEF StageDone, TypeOK
    <2>2. CASE ConnectFails
      BY <2>2, StageNames DEF ConnectFails, TypeOK
    <2>3. CASE ReadsPacket
      <3>1. PICK p \in Packet : Decodes(p)
        BY <2>3 DEF ReadsPacket
      <3>. QED  BY <3>1, DecodesType DEF TypeOK
    <2>. QED  BY <2>1, <2>2, <2>3 DEF TypeOK, Next, Answers, StartRefused, NoCoders,
               SpeechEnds, Finishes, Throws, ReadsMarker, SessionFailed, Ended, vars
  <1>4. retry' \in 1..Tries
    BY DEF TypeOK, Next, Answers, StageDone, ConnectFails, StartRefused, NoCoders, SpeechEnds,
           Finishes, Throws, ReadsMarker, ReadsPacket, SessionFailed, Ended, vars, Tries
  <1>5. CASE ReadsPacket
    <2>1. PICK p \in Packet :
            /\ spoken' = Append(spoken, p) /\ units' = units + p.duration
            /\ speech' = IF Refused(p) THEN speech ELSE speech \o UnitsOf(p)
            /\ Decodes(p)
      BY <1>5 DEF ReadsPacket
    <2>2. /\ pcm' \in Frame /\ samples_decoded' \in 0..frame_size - 1
          /\ audio' \in Seq(Frame)
      BY <2>1, DecodesType
    <2>3. units' \in Nat /\ speech' \in Seq(1..units')
      BY <2>1, SaysType
    <2>4. spoken' \in Seq(Packet)
      BY <2>1, AppendProperties DEF TypeOK
    <2>5. is_opus' = is_opus /\ failed' = failed
      BY <1>5 DEF ReadsPacket
    <2>. QED  BY <1>1, <1>2, <1>3, <1>4, <2>2, <2>3, <2>4, <2>5 DEF TypeOK, Frame, Sample
  <1>6. CASE SpeechEnds
    <2>1. audio' \in Seq(Frame)
      BY <1>6, TailType DEF SpeechEnds
    <2>. QED  BY <1>1, <1>2, <1>3, <1>4, <1>6, <2>1
              DEF TypeOK, Frame, Sample, SpeechEnds, Said
  <1>7. CASE ReadsMarker \/ SessionFailed
    <2>1. is_opus' \in BOOLEAN /\ failed' \in BOOLEAN
      BY <1>7, Zenon DEF ReadsMarker, SessionFailed, TypeOK
    <2>2. UNCHANGED <<pcm, samples_decoded, audio, Said>>
      BY <1>7 DEF ReadsMarker, SessionFailed
    <2>. QED  BY <1>1, <1>2, <1>3, <1>4, <2>1, <2>2 DEF TypeOK, Said
  <1>8. CASE UNCHANGED Decoding
    BY <1>1, <1>2, <1>3, <1>4, <1>8 DEF TypeOK, Decoding, Said
  <1>. QED  BY <1>5, <1>6, <1>7, <1>8
            DEF Next, Answers, StageDone, ConnectFails, StartRefused, NoCoders, Finishes,
                Throws, Ended, vars, Decoding, Said

\* The types hold: above all, what is left in pcm is less than a frame, whatever
\* packets come, so that the next one is written inside it or over its end but
\* never from behind it.
THEOREM TypeCorrect == Spec => []TypeOK
  BY TypeInit, TypeStep, PTL DEF Spec

-----------------------------------------------------------------------------
(* What is returned is what was spoken *)

\* The service keeps to packets of duration d.
KeepsTo(d) ==
    /\ d \in Durations /\ frame_size % d = 0
    /\ \A i \in DOMAIN spoken :
         spoken[i].kind # "long" /\ (spoken[i].duration = d \/ Refused(spoken[i]))

\* The frames are the speech, the last filled up with silence.
Whole ==
    LET n == Len(speech)
    IN  /\ Len(audio) = (n + frame_size - 1) \div frame_size
        /\ \A i \in DOMAIN audio, j \in 1..frame_size :
             LET k == (i - 1) * frame_size + j
             IN  audio[i][j] = IF k <= n THEN speech[k] ELSE Silence

\* The inductive invariant: nothing is spoken before everything is asked; as long
\* as the service keeps to one duration, pcm holds a number of whole packets, what
\* was spoken is in audio and then in pcm, and at the end it is all in audio.
SpeechInv ==
    /\ pc \in Connecting \union Asking => speech = <<>> /\ audio = <<>> /\ samples_decoded = 0
    /\ \A d \in Durations : KeepsTo(d) =>
         /\ pc # "overrun"
         /\ samples_decoded % d = 0
         /\ pc \in Connecting \union Asking \union {"reading"} => Carries(Held, speech)
         /\ pc \in {"finish_connection", "connection_finished", "returned"} => Whole

\* It implies the two properties.
LEMMA SpeechInvImplies == SpeechInv => RegularPacketsFit /\ AudioIsTheSpeech
  BY DEF SpeechInv, KeepsTo, Whole, RegularPacketsFit, AudioIsTheSpeech, Regular

\* Nothing carries nothing.
LEMMA NothingCarried ==
    ASSUME speech = <<>>, audio = <<>>, samples_decoded = 0
    PROVE  Carries(Held, speech) /\ Whole
  BY DEF Carries, Held, Whole, frame_size

\* It holds at first.
LEMMA SpeechInit == Init => SpeechInv
  <1>. SUFFICES ASSUME Init PROVE SpeechInv
    OBVIOUS
  <1>1. speech = <<>> /\ audio = <<>> /\ samples_decoded = 0 /\ pc = "connect"
    BY DEF Init
  <1>2. \A d \in Durations : samples_decoded % d = 0
    BY <1>1, TtsAssumption
  <1>3. Carries(Held, speech)
    BY <1>1, NothingCarried
  <1>. QED  BY <1>1, <1>2, <1>3 DEF SpeechInv

\* A service that keeps to d has kept to d before, and the packet that comes now is
\* decoded to its units or, if it is refused, to nothing.
LEMMA KeptBefore ==
    ASSUME TypeOK, NEW p \in Packet, spoken' = Append(spoken, p), NEW d \in Durations,
           KeepsTo(d)'
    PROVE  KeepsTo(d) /\ p.kind # "long" /\ (p.duration = d \/ Refused(p))
  <1>1. spoken \in Seq(Packet)
    BY DEF TypeOK
  <1>2. /\ Len(spoken') = Len(spoken) + 1 /\ DOMAIN spoken' = 1..Len(spoken) + 1
        /\ spoken'[Len(spoken) + 1] = p
        /\ \A i \in 1..Len(spoken) : spoken'[i] = spoken[i]
        /\ DOMAIN spoken = 1..Len(spoken) /\ Len(spoken) \in Nat
    BY <1>1, AppendProperties, LenProperties
  <1>3. \A i \in DOMAIN spoken : i \in DOMAIN spoken' /\ spoken'[i] = spoken[i]
    BY <1>2
  <1>4. Len(spoken) + 1 \in DOMAIN spoken'
    BY <1>2
  <1>5. /\ d \in Durations /\ frame_size % d = 0
        /\ \A i \in DOMAIN spoken' :
             spoken'[i].kind # "long" /\ (spoken'[i].duration = d \/ Refused(spoken'[i]))
    BY DEF KeepsTo
  <1>6. KeepsTo(d)
    BY <1>3, <1>5 DEF KeepsTo
  <1>. QED  BY <1>2, <1>4, <1>5, <1>6

\* Such a packet is one piece, which is decoded to its units, or nothing.
LEMMA DecodedWhole ==
    ASSUME NEW p \in Packet, p.kind # "long",
           selected_module = "EdgeTTS" => p.kind # "torn",
           NEW first \in DecodedPiece(p, 1), NEW second \in DecodedPiece(p, 2)
    PROVE  second = <<>> /\ first = IF Refused(p) THEN <<>> ELSE UnitsOf(p)
  <1>1. p.kind \in {"plain", "edge", "double", "torn"}
    BY DEF Packet, Kinds
  <1>2. DOMAIN Pieces(p) = IF p.kind = "torn" THEN {} ELSE {1}
    <2>1. CASE selected_module = "EdgeTTS"
      BY <2>1 DEF Pieces, FirstBytes
    <2>2. CASE selected_module # "EdgeTTS" /\ p.kind = "torn"
      BY <2>2 DEF Pieces, extractOpusFrames
    <2>3. CASE selected_module # "EdgeTTS" /\ p.kind = "edge"
      BY <2>3 DEF Pieces, extractOpusFrames
    <2>4. CASE selected_module # "EdgeTTS" /\ p.kind \in {"plain", "double"}
      BY <2>4 DEF Pieces, extractOpusFrames
    <2>. QED  BY <1>1, <2>1, <2>2, <2>3, <2>4
  <1>. QED  BY <1>1, <1>2 DEF DecodedPiece, Refused

\* Whole packets fit into a frame of whole packets.
LEMMA WholePackets ==
    ASSUME NEW d \in Durations, frame_size % d = 0, NEW n \in 0..frame_size - 1, n % d = 0
    PROVE  /\ n + d <= frame_size
           /\ (n + d) % d = 0
           /\ ((n + d) - frame_size) % d = 0
  <1>1. d \in 1..6
    BY TtsAssumption
  <1>2. d \in {1, 2, 3, 6}
    BY <1>1 DEF frame_size
  <1>3. n \in 0..5
    BY DEF frame_size
  <1>. QED  BY <1>2, <1>3 DEF frame_size

\* An empty piece changes nothing.
LEMMA NothingFilled ==
    ASSUME NEW s \in Buffers
    PROVE  /\ Filled(s, <<>>).n = s.n
           /\ ~s.overrun => ~Filled(s, <<>>).overrun
           /\ \A sp \in Seq(Sample) : Carries(s, sp) => Carries(Filled(s, <<>>), sp)
  <1>1. <<>> \in Seq(Sample) /\ Len(<<>>) = 0 /\ s.n \in 0..5 /\ Len(<<>>) <= frame_size
    BY DEF Buffers, frame_size
  <1>2. s.n + Len(<<>>) = s.n /\ s.n < frame_size /\ s.n + Len(<<>>) <= frame_size
    BY <1>1 DEF frame_size
  <1>3. Filled(s, <<>>).n = s.n
    <2>. DEFINE n == s.n + Len(<<>>)
    <2>1. Filled(s, <<>>).n = IF n >= frame_size THEN n - frame_size ELSE n
      BY <1>1, FilledIs
    <2>2. n = s.n /\ ~(n >= frame_size)
      BY <1>1 DEF frame_size
    <2>. HIDE DEF n
    <2>. QED  BY <2>1, <2>2
  <1>4. ASSUME ~s.overrun PROVE ~Filled(s, <<>>).overrun
    <2>1. Filled(s, <<>>).overrun = (s.overrun \/ s.n + Len(<<>>) > frame_size)
      BY <1>1, FilledIs
    <2>2. ~(s.n + Len(<<>>) > frame_size)
      BY <1>1 DEF frame_size
    <2>. QED  BY <1>4, <2>1, <2>2, Zenon
  <1>5. ASSUME NEW sp \in Seq(Sample), Carries(s, sp) PROVE Carries(Filled(s, <<>>), sp)
    <2>1. Carries(Filled(s, <<>>), sp \o <<>>)
      BY <1>1, <1>2, <1>5, FilledCarries
    <2>. QED  BY <2>1, ConcatEmptySeq
  <1>. QED  BY <1>3, <1>4, <1>5

\* A packet of the duration kept to goes behind what there is, within the frame.
LEMMA PacketCarried ==
    ASSUME TypeOK, NEW p \in Packet, p.kind # "long", Decodes(p),
           selected_module = "EdgeTTS" => p.kind # "torn",
           NEW d \in Durations, frame_size % d = 0, p.duration = d \/ Refused(p),
           samples_decoded % d = 0, Carries(Held, speech),
           speech' = IF Refused(p) THEN speech ELSE speech \o UnitsOf(p)
    PROVE  /\ Carries(Held, speech)'
           /\ samples_decoded' % d = 0
           /\ pc' = pc
  <1>1. Held \in Buffers /\ Held.n = samples_decoded /\ Held.overrun = FALSE
    BY DEF TypeOK, Held, Buffers, Frame, Sample
  <1>2. speech \in Seq(Sample) /\ units \in Nat /\ samples_decoded \in 0..frame_size - 1
    <2>1. units \in Nat /\ speech \in Seq(1..units)
      BY DEF TypeOK
    <2>2. 1..units \subseteq Sample
      BY <2>1 DEF Sample
    <2>. QED  BY <2>1, <2>2, SeqMonotonic DEF TypeOK
  <1>. DEFINE first == IF Refused(p) THEN <<>> ELSE UnitsOf(p)
              s == Filled(Held, first)
              t == Filled(s, <<>>)
  <1>3. /\ pcm' = t.pcm /\ samples_decoded' = t.n /\ audio' = t.audio
        /\ pc' = IF t.overrun THEN "overrun" ELSE pc
    BY DecodedWhole DEF Decodes, Held
  <1>4. first \in Seq(Sample) /\ Len(first) = IF Refused(p) THEN 0 ELSE d
    BY <1>2, UnitsAre, EmptySeq
  <1>5. speech' = speech \o first
    <2>1. speech \o <<>> = speech
      BY <1>2, ConcatEmptySeq
    <2>. QED  BY <2>1
  <1>6. /\ samples_decoded + d <= frame_size
        /\ (samples_decoded + d) % d = 0
        /\ ((samples_decoded + d) - frame_size) % d = 0
        /\ d \in 1..6
    BY <1>2, WholePackets, TtsAssumption
  <1>. HIDE DEF first
  <1>7. samples_decoded + Len(first) <= frame_size /\ Len(first) <= frame_size
    BY <1>2, <1>4, <1>6 DEF frame_size
  <1>8. s \in Buffers
    BY <1>1, <1>4, <1>7, FilledType
  <1>9. Carries(s, speech \o first)
    BY <1>1, <1>2, <1>4, <1>7, FilledCarries
  <1>10. s.n % d = 0
    <2>. DEFINE m == samples_decoded + Len(first)
    <2>1. s.n = IF m >= frame_size THEN m - frame_size ELSE m
      BY <1>1, <1>4, <1>7, FilledIs
    <2>2. CASE Refused(p)
      BY <1>2, <1>4, <2>1, <2>2 DEF frame_size
    <2>3. CASE ~Refused(p)
      <3>1. m = samples_decoded + d
        BY <1>4, <2>3
      <3>. HIDE DEF m
      <3>2. m - frame_size = (samples_decoded + d) - frame_size
        BY <3>1
      <3>3. m % d = 0 /\ (m - frame_size) % d = 0
        BY <1>6, <3>1, <3>2
      <3>. QED  BY <2>1, <3>3
    <2>. QED  BY <2>2, <2>3
  <1>11. ~s.overrun
    <2>1. s.overrun = (FALSE \/ samples_decoded + Len(first) > frame_size)
      BY <1>1, <1>4, <1>7, FilledIs
    <2>2. ~(samples_decoded + Len(first) > frame_size)
      BY <1>2, <1>4, <1>6 DEF frame_size
    <2>. QED  BY <2>1, <2>2, Zenon
  <1>. HIDE DEF s
  <1>12. speech \o first \in Seq(Sample)
    BY <1>2, <1>4, ConcatProperties
  <1>13. t.n = s.n /\ ~t.overrun /\ Carries(t, speech \o first)
    BY <1>8, <1>9, <1>11, <1>12, NothingFilled
  <1>. HIDE DEF t
  <1>14. Carries(Held', speech')
    <2>1. Held'.pcm = t.pcm /\ Held'.n = t.n /\ Held'.audio = t.audio
      BY <1>3 DEF Held
    <2>. QED  BY <1>5, <1>13, <2>1 DEF Carries
  <1>15. Carries(Held, speech)'
    BY <1>14 DEF Carries, Held
  <1>. QED  BY <1>3, <1>10, <1>13, <1>15

\* With the rest of pcm in a last frame, the frames are the speech.
LEMMA TailIsWhole ==
    ASSUME TypeOK, Carries(Held, speech), audio' = WithTail, speech' = speech
    PROVE  Whole'
  <1>1. audio \in Seq(Frame) /\ samples_decoded \in 0..5
    BY DEF TypeOK, Frame, Sample, frame_size
  <1>2. PICK w \in Nat : w = Len(audio)
    BY <1>1, LenProperties
  <1>3. PICK m \in 0..5 : m = samples_decoded
    BY <1>1
  <1>4. /\ Len(speech) = 6 * w + m
        /\ \A i \in 1..w, j \in 1..6 : audio[i][j] = speech[(i - 1) * 6 + j]
        /\ \A j \in 1..m : pcm[j] = speech[6 * w + j]
        /\ DOMAIN audio = 1..w
    BY <1>1, <1>2, <1>3, LenProperties DEF Carries, Held, frame_size
  <1>5. CASE m = 0
    <2>1. audio' = audio
      BY <1>3, <1>5 DEF WithTail
    <2>2. (Len(speech) + 6 - 1) \div 6 = w
      BY <1>4, <1>5
    <2>3. ASSUME NEW i \in 1..w, NEW j \in 1..6
          PROVE  audio[i][j] = IF (i - 1) * 6 + j <= Len(speech)
                               THEN speech[(i - 1) * 6 + j] ELSE Silence
      <3>1. (i - 1) * 6 + j <= 6 * w + m
        BY <1>5
      <3>. QED  BY <1>4, <3>1
    <2>. QED  BY <1>2, <1>4, <2>1, <2>2, <2>3 DEF Whole, frame_size
  <1>6. CASE m # 0
    <2>. DEFINE tail == [j \in 1..6 |-> IF j <= samples_decoded THEN pcm[j] ELSE Silence]
    <2>1. audio' = Append(audio, tail)
      BY <1>3, <1>6 DEF WithTail, frame_size
    <2>2. tail \in Frame
      <3>1. pcm \in [1..6 -> Sample]
        BY DEF TypeOK, Sample, frame_size
      <3>. QED  BY <3>1 DEF Frame, frame_size, Silence, Sample
    <2>3. /\ Len(audio') = w + 1 /\ DOMAIN audio' = 1..w + 1
          /\ audio'[w + 1] = tail
          /\ \A i \in 1..w : audio'[i] = audio[i]
      <3>. HIDE DEF tail
      <3>1. audio' \in Seq(Frame)
        BY <1>1, <2>1, <2>2, AppendProperties
      <3>. QED  BY <1>1, <1>2, <2>1, <2>2, <3>1, AppendProperties, LenProperties
    <2>4. (Len(speech) + 6 - 1) \div 6 = w + 1
      BY <1>4, <1>6
    <2>5. ASSUME NEW i \in 1..w + 1, NEW j \in 1..6
          PROVE  audio'[i][j] = IF (i - 1) * 6 + j <= Len(speech)
                                THEN speech[(i - 1) * 6 + j] ELSE Silence
      <3>1. CASE i = w + 1
        <4>1. (i - 1) * 6 + j = 6 * w + j /\ (6 * w + j <= 6 * w + m <=> j <= m)
          BY <3>1
        <4>2. audio'[i][j] = IF j <= m THEN pcm[j] ELSE Silence
          BY <1>3, <2>3, <3>1
        <4>3. j <= m => j \in 1..m
          OBVIOUS
        <4>. QED  BY <1>4, <4>1, <4>2, <4>3
      <3>2. CASE i # w + 1
        <4>1. i \in 1..w /\ (i - 1) * 6 + j <= 6 * w + m
          BY <3>2
        <4>2. audio'[i][j] = speech[(i - 1) * 6 + j]
          BY <1>4, <2>3, <4>1
        <4>. QED  BY <1>4, <4>1, <4>2
      <3>. QED  BY <3>1, <3>2
    <2>. HIDE DEF tail
    <2>. QED  BY <2>3, <2>4, <2>5 DEF Whole, frame_size
  <1>. QED  BY <1>5, <1>6

\* Every step keeps the invariant.
LEMMA SpeechStep == TypeOK /\ SpeechInv /\ [Next]_vars => SpeechInv'
  <1>. SUFFICES ASSUME TypeOK, SpeechInv, [Next]_vars PROVE SpeechInv'
    OBVIOUS
  <1>. DEFINE Before == Connecting \union Asking
  <1>1. selected_module' = selected_module
    BY DEF TypeOK, Next, Answers, StageDone, ConnectFails, StartRefused, NoCoders, SpeechEnds,
           Finishes, Throws, ReadsMarker, ReadsPacket, SessionFailed, Ended, vars
  <1>2. Stages' = Stages /\ Asking' = Asking
    BY <1>1 DEF Stages, Asking
  <1>3. /\ Before \subseteq ToSet(Stages) /\ ToSet(Stages) = Before \union {"reading"}
        /\ Before \intersect {"reading", "finish_connection", "connection_finished",
                              "returned", "thrown", "overrun"} = {}
    <2>1. selected_module \in {"EdgeTTS", "BytedanceTTSV3"}
      BY DEF TypeOK
    <2>2. Asking \subseteq Asked
      BY <2>1, StageNames
    <2>3. Before \subseteq {"connect", "handshake"} \union Asked
      BY <2>2 DEF Connecting
    <2>4. Before \intersect {"reading", "finish_connection", "connection_finished",
                             "returned", "thrown", "overrun"} = {}
      BY <2>3 DEF Asked
    <2>5. {"connect", "handshake", "reading"} \subseteq ToSet(Stages)
      <3>1. CASE selected_module = "EdgeTTS"
        BY <3>1, EdgeStages DEF ToSet
      <3>2. CASE selected_module = "BytedanceTTSV3"
        BY <3>2, BytedanceStages DEF ToSet
      <3>. QED  BY <2>1, <3>1, <3>2
    <2>6. ToSet(Stages) = Before \union {"reading"}
      BY <2>5 DEF Asking, Connecting
    <2>. QED  BY <2>4, <2>6
  <1>4. ASSUME UNCHANGED Decoding, pc \in Before,
               pc' \in Before \union {"reading", "returned", "thrown"}
        PROVE  SpeechInv'
    <2>1. speech' = <<>> /\ audio' = <<>> /\ samples_decoded' = 0
      BY <1>4 DEF SpeechInv, Decoding, Said
    <2>2. Carries(Held, speech)' /\ Whole'
      BY <2>1 DEF Carries, Held, Whole, frame_size
    <2>3. \A d \in Durations : samples_decoded' % d = 0
      BY <2>1, TtsAssumption
    <2>4. pc' # "overrun"
      BY <1>3, <1>4
    <2>. QED  BY <1>2, <2>1, <2>2, <2>3, <2>4 DEF SpeechInv
  <1>5. ASSUME UNCHANGED Decoding, \/ pc' = pc
                                   \/ pc' = "thrown"
                                   \/ pc \in {"finish_connection", "connection_finished"} /\
                                      pc' \in {"connection_finished", "returned"}
        PROVE  SpeechInv'
    <2>1. /\ Held' = Held /\ speech' = speech /\ audio' = audio
          /\ samples_decoded' = samples_decoded /\ spoken' = spoken
      BY <1>5 DEF Held, Decoding, Said
    <2>2. pc' \in Before => pc \in Before
      BY <1>3, <1>5
    <2>3. Carries(Held, speech)' = Carries(Held, speech) /\ Whole' = Whole
      BY <2>1 DEF Carries, Whole, Held
    <2>4. ASSUME NEW d \in Durations PROVE KeepsTo(d)' = KeepsTo(d)
      BY <2>1 DEF KeepsTo
    <2>5. pc' \in Before \union {"reading"} => pc \in Before \union {"reading"}
      BY <1>3, <1>5
    <2>6. pc' \in {"finish_connection", "connection_finished", "returned"} =>
            pc \in {"finish_connection", "connection_finished", "returned"}
      BY <1>3, <1>5
    <2>7. pc' = "overrun" => pc = "overrun"
      BY <1>3, <1>5
    <2>. QED  BY <1>2, <2>1, <2>2, <2>3, <2>4, <2>5, <2>6, <2>7 DEF SpeechInv
  <1>6. CASE StageDone
    <2>1. pc \in Before /\ pc' \in ToSet(Stages) /\ UNCHANGED Decoding
      BY <1>6, StageNames DEF StageDone, TypeOK
    <2>. QED  BY <1>3, <1>4, <2>1
  <1>7. CASE ConnectFails
    <2>1. pc \in Before /\ pc' \in Before \union {"returned"} /\ UNCHANGED Decoding
      BY <1>7 DEF ConnectFails, Connecting
    <2>. QED  BY <1>4, <2>1
  <1>8. CASE StartRefused
    <2>1. pc \in Before
      BY <1>3, <1>8 DEF StartRefused, TypeOK, Over
    <2>. QED  BY <1>4, <1>8, <2>1 DEF StartRefused
  <1>9. CASE NoCoders
    <2>1. pc \in Before
      BY <1>9, StageNames DEF NoCoders, TypeOK
    <2>. QED  BY <1>4, <1>9, <2>1 DEF NoCoders
  <1>10. CASE Throws
    BY <1>5, <1>10 DEF Throws
  <1>11. CASE Finishes
    BY <1>5, <1>11 DEF Finishes
  <1>12. CASE Ended
    BY <1>5, <1>12 DEF Ended, vars, Decoding, Said
  <1>13. CASE UNCHANGED vars
    BY <1>5, <1>13 DEF vars, Decoding, Said
  <1>14. CASE ReadsMarker \/ SessionFailed
    <2>1. /\ Held' = Held /\ speech' = speech /\ audio' = audio
          /\ samples_decoded' = samples_decoded /\ spoken' = spoken /\ pc' = pc
      BY <1>14 DEF ReadsMarker, SessionFailed, Held, Said
    <2>2. Carries(Held, speech)' = Carries(Held, speech) /\ Whole' = Whole
      BY <2>1 DEF Carries, Whole, Held
    <2>3. ASSUME NEW d \in Durations PROVE KeepsTo(d)' = KeepsTo(d)
      BY <2>1 DEF KeepsTo
    <2>. QED  BY <1>2, <2>1, <2>2, <2>3 DEF SpeechInv
  <1>15. CASE ReadsPacket
    <2>1. PICK p \in Packet :
            /\ selected_module = "EdgeTTS" => p.kind # "torn"
            /\ spoken' = Append(spoken, p)
            /\ speech' = IF Refused(p) THEN speech ELSE speech \o UnitsOf(p)
            /\ Decodes(p)
      BY <1>15 DEF ReadsPacket
    <2>2. pc = "reading" /\ pc' \in {"reading", "overrun"}
      BY <1>15, <2>1, DecodesType DEF ReadsPacket, Reading
    <2>3. ASSUME NEW d \in Durations, KeepsTo(d)'
          PROVE  pc' = "reading" /\ samples_decoded' % d = 0 /\ Carries(Held, speech)'
      <3>1. KeepsTo(d) /\ p.kind # "long" /\ (p.duration = d \/ Refused(p))
        BY <2>1, <2>3, KeptBefore
      <3>2. samples_decoded % d = 0 /\ Carries(Held, speech) /\ frame_size % d = 0
        BY <2>2, <3>1 DEF SpeechInv, KeepsTo
      <3>. QED  BY <2>1, <2>2, <3>1, <3>2, PacketCarried
    <2>4. pc' \notin Before
      BY <1>3, <2>2
    <2>. QED  BY <1>2, <2>2, <2>3, <2>4 DEF SpeechInv
  <1>16. CASE SpeechEnds
    <2>1. /\ pc = "reading" /\ pc' \in {"returned", "finish_connection"}
          /\ audio' = WithTail /\ speech' = speech /\ spoken' = spoken
          /\ samples_decoded' = samples_decoded
      BY <1>16 DEF SpeechEnds, Reading, Said
    <2>2. ASSUME NEW d \in Durations, KeepsTo(d)' PROVE samples_decoded' % d = 0 /\ Whole'
      <3>1. KeepsTo(d)
        BY <2>1, <2>2 DEF KeepsTo
      <3>2. samples_decoded % d = 0 /\ Carries(Held, speech)
        BY <2>1, <3>1 DEF SpeechInv
      <3>. QED  BY <2>1, <3>2, TailIsWhole
    <2>3. pc' \notin Before \union {"reading"}
      BY <1>3, <2>1
    <2>. QED  BY <1>2, <2>1, <2>2, <2>3 DEF SpeechInv
  <1>. QED  BY <1>6, <1>7, <1>8, <1>9, <1>10, <1>11, <1>12, <1>13, <1>14, <1>15, <1>16
            DEF Next, Answers

\* As long as the service keeps to packets of one length that divides a frame, no
\* packet is decoded beyond the end of pcm, whichever packets it refuses.
THEOREM PacketsFit == Spec => []RegularPacketsFit
  BY TypeInit, TypeStep, SpeechInit, SpeechStep, SpeechInvImplies, PTL DEF Spec

\* The frames that text_to_speak then returns are what was spoken, whole, in order
\* and without a gap, followed by silence up to the end of the last frame.
THEOREM SpeechReturned == Spec => []AudioIsTheSpeech
  BY TypeInit, TypeStep, SpeechInit, SpeechStep, SpeechInvImplies, PTL DEF Spec

=============================================================================
