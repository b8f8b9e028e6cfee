--------------------------- MODULE ParaformerAsr ---------------------------
(***************************************************************************)
(* The recogniser Paraformer: detect_opus (asr/paraformer.cpp) around         *)
(* funasr::ParaformerOnline (paraformer/paraformer-online.cpp), which turns    *)
(* audio into feature rows and feeds them to the encoder in overlapping chunks. *)
(* A call has no co_await inside, so it is one step.                          *)
(*                                                                         *)
(* Audio is counted in units of 80 samples (5 ms), numbered since the          *)
(* connection began.  A frame of filter bank features is the first of the five  *)
(* units it is made from; a row is the seven frames that are spliced, with its   *)
(* position.  A row of zeros has no frames, and a position before the utterance, *)
(* by which it is told from the others.  Of a token only its number counts: CIF  *)
(* fires one whenever the weights of the rows add up to one, here to 20.        *)
(***************************************************************************)
EXTENDS Integers, Sequences, SequencesExt, FiniteSetsExt

CONSTANTS Durations,   \* lengths of a packet, in units
          Weightings,  \* the weights, in twentieths, that the encoder gives rows in turn
          MaxUnits,    \* units decoded at most
          MaxFlushes,  \* end marks at most
          MaxFaults    \* exceptions of the ONNX sessions at most

VARIABLES
    duration,        \* of the client's packets; it sends one kind only
    weights,         \* of the rows, in turn
    decoded_length_, \* units in pcm_
    model,           \* online_model and, as text, full_result_
    units,           \* units decoded so far
    began,           \* units decoded before the present utterance
    flushes,         \* end marks handled
    faults,          \* exceptions so far
    last             \* the utterance that was last finished

vars == <<duration, weights, decoded_length_, model, units, began, flushes, faults, last>>

frame_length == 5
frame_shift == 2
lfr_m == 7
lfr_n == 6
chunk_size == <<5, 10, 5>>
cif_threshold == 20
tail_alphas == 9
\* 16 * 60 and 9600 samples
ShortTail == 12
ChunkUnits == 120

\* The last of n rows of zeros stands just before the first row.
Zeros(n) == [i \in 1..n |-> [pos |-> i - n - 1, frames |-> <<>>]]
LastOf(s, n) == SubSeq(s, Len(s) - n + 1, Len(s))

\* InitCache and ResetCache on a model m; what was heard and said stays.
ResetCache(m) == [m EXCEPT !.reserve_waveforms_ = 0, !.input_cache_ = <<>>,
                           !.lfr_splice_cache_ = <<>>]

InitCache(m) ==
    [m EXCEPT !.start_idx_cache_ = 0, !.is_first_chunk = TRUE, !.is_last_chunk = FALSE,
              !.alphas_cache_ = 0, !.feats_cache_ = Zeros(chunk_size[1] + chunk_size[3]),
              !.surplus = 0]

NewModel ==
    [reserve_waveforms_ |-> 0,      \* its length
     input_cache_       |-> <<>>,   \* units
     lfr_splice_cache_  |-> <<>>,   \* frames
     start_idx_cache_   |-> 0,
     is_first_chunk     |-> TRUE,
     is_last_chunk      |-> FALSE,
     alphas_cache_      |-> 0,
     feats_cache_       |-> Zeros(10),
     surplus            |-> 0,      \* values in decoder_onnx beyond its 16 caches
     rows               |-> <<>>,   \* history: the rows that CIF has weighed
     faulty             |-> FALSE,  \* history: a session has thrown
     crashed            |-> FALSE,  \* the process is gone
     text               |-> 0]      \* tokens

Init ==
    /\ duration \in Durations /\ weights \in Weightings
    /\ decoded_length_ = 0 /\ model = NewModel /\ units = 0 /\ began = 0
    /\ flushes = 0 /\ faults = 0
    /\ last = [units |-> 0, rows |-> <<>>, text |-> 0, faulty |-> FALSE]

-----------------------------------------------------------------------------
(* Features *)

ComputeFrameNum(n) ==
    IF n < frame_length THEN 0 ELSE (n - frame_length) \div frame_shift + 1

FbankKaldi(waves) ==
    [i \in 1..ComputeFrameNum(Len(waves)) |-> waves[(i - 1) * frame_shift + 1]]

\* OnlineLfrCmvn: rows of seven frames, six apart.  The last of an utterance are
\* filled up with the last frame; otherwise they wait for the next call.
LfrRows(feats, input_finished) ==
    LET T == Len(feats)
        T_lrf == (T - (lfr_m - 1) \div 2 + lfr_n - 1) \div lfr_n
        full == {i \in 0..T_lrf - 1 : lfr_m <= T - i * lfr_n}
        n == IF input_finished THEN T_lrf ELSE Cardinality(full)
    IN  [i \in 1..n |-> [j \in 1..lfr_m |-> feats[Min({(i - 1) * lfr_n + j, T})]]]

\* Index of the first frame of the next row.
SpliceIdx(feats, rows) == Min({Len(feats) - 1, Len(rows) * lfr_n})

\* Mutant: the frames put before the first one are not discounted.
NotDiscounted(m, n, idx) ==
    LET waves == m.reserve_waveforms_ + (n - 1) * frame_shift + frame_length
    IN  (ComputeFrameNum(waves) - idx) * frame_shift

\* The length of reserve_waveforms_ after n frames: from the next row's first
\* frame to the last frame that has begun.  Nothing reads its contents.
Reserved(m, n, idx) ==
    LET waves == m.reserve_waveforms_ + (n - 1) * frame_shift + frame_length
        minus_frame == IF m.reserve_waveforms_ = 0 THEN (lfr_m - 1) \div 2 ELSE 0
        distance == IF idx < minus_frame THEN minus_frame - idx ELSE idx - minus_frame
    IN  (ComputeFrameNum(waves) - distance) * frame_shift

\* What goes before new frames: what the last call kept, or the first frame thrice.
Splice(m, frames) ==
    IF m.lfr_splice_cache_ # <<>> \/ frames = <<>> THEN m.lfr_splice_cache_
    ELSE [i \in 1..(lfr_m - 1) \div 2 |-> frames[1]]

\* Less than a row of audio comes out as it went in, frame by frame.
IsNarrow(frames, feats) == frames # <<>> /\ Len(feats) < lfr_m

WavFeats(frames, feats, input_finished) ==
    IF IsNarrow(frames, feats) THEN [i \in DOMAIN frames |-> <<frames[i]>>]
    ELSE IF frames = <<>> /\ (~input_finished \/ feats = <<>>) THEN <<>>
    ELSE LfrRows(feats, input_finished)

\* The caches of ExtractFeats after these rows.
Kept(m, waves, frames, feats, wav_feats) ==
    [m EXCEPT
      !.input_cache_ = SubSeq(waves, Len(frames) * frame_shift + 1, Len(waves)),
      !.lfr_splice_cache_ =
         IF IsNarrow(frames, feats) \/ wav_feats = <<>> THEN feats
         ELSE SubSeq(feats, SpliceIdx(feats, wav_feats) + 1, Len(feats)),
      !.reserve_waveforms_ =
         IF frames = <<>> THEN @
         ELSE IF IsNarrow(frames, feats) THEN @ + Len(frames) * frame_shift
         ELSE Reserved(m, Len(frames), SpliceIdx(feats, wav_feats))]

\* ExtractFeats: the model and the rows.
ExtractFeats(m, new, input_finished) ==
    LET Rows(waves, frames, feats, wav_feats) ==
          LET kept == Kept(m, waves, frames, feats, wav_feats)
          IN  [m |-> IF input_finished THEN ResetCache(kept) ELSE kept,
               wav_feats |-> wav_feats]
        Frames(waves, frames, feats) ==
          Rows(waves, frames, feats, WavFeats(frames, feats, input_finished))
        Waves(waves, frames) == Frames(waves, frames, Splice(m, frames) \o frames)
        all == m.input_cache_ \o new
    IN  Waves(all, FbankKaldi(all))

\* GetPosEmb: the rows of x get their positions in the utterance.
GetPosEmb(x) ==
    [m |-> [x.m EXCEPT !.start_idx_cache_ = @ + Len(x.wav_feats)],
     wav_feats |-> [i \in DOMAIN x.wav_feats |->
                      [pos |-> x.m.start_idx_cache_ + i - 1, frames |-> x.wav_feats[i]]]]

-----------------------------------------------------------------------------
(* Chunks *)

\* Mutant: only the context is kept of a chunk, as at the end.
AheadIsLost(m, wav_feats, input_finished) ==
    LET all == m.feats_cache_ \o wav_feats
        padding == IF input_finished /\ ~m.is_last_chunk
                   THEN Zeros(chunk_size[1] + chunk_size[2] + chunk_size[3] - Len(all))
                   ELSE <<>>
    IN  [m |-> [m EXCEPT !.feats_cache_ = LastOf(all, chunk_size[1])], chunk |-> all \o padding]

\* The rows of the last chunk that are context or were looked ahead at go first.
AddOverlapChunk(m, wav_feats, input_finished) ==
    LET all == m.feats_cache_ \o wav_feats
        padding == IF input_finished /\ ~m.is_last_chunk
                   THEN Zeros(chunk_size[1] + chunk_size[2] + chunk_size[3] - Len(all))
                   ELSE <<>>
        cached == IF input_finished THEN chunk_size[1] ELSE chunk_size[1] + chunk_size[3]
    IN  [m |-> [m EXCEPT !.feats_cache_ = LastOf(all, cached)], chunk |-> all \o padding]

\* What the encoder makes of a row; of zeros it makes something too.
Weight(row) == weights[(row.pos % Len(weights)) + 1]

\* Integrate and fire: a token whenever the weights reach the threshold.
Fire(acc, alpha) ==
    IF alpha + acc.integrate < cif_threshold
    THEN [acc EXCEPT !.integrate = @ + alpha]
    ELSE [integrate |-> acc.integrate + alpha - cif_threshold, fired |-> acc.fired + 1]

Integrate(alphas, start) ==
    LET acc[i \in 0..Len(alphas)] == IF i = 0 THEN [integrate |-> start, fired |-> 0]
                                     ELSE Fire(acc[i - 1], alphas[i])
    IN  acc[Len(alphas)]

\* Of a chunk only the middle is weighed; the rest has alpha zero.
InCentre(i) == i > chunk_size[1] /\ i <= chunk_size[1] + chunk_size[2]

\* Mutant: each chunk begins at zero.
SearchesAnew(m, chunk) ==
    LET alphas == [i \in DOMAIN chunk |-> IF InCentre(i) THEN Weight(chunk[i]) ELSE 0]
        tail == IF m.is_last_chunk THEN <<tail_alphas>> ELSE <<>>
    IN  Integrate(alphas \o tail, 0)

\* CifSearch: what is left of the last chunk goes first, the tail last.
CifSearch(m, chunk) ==
    LET alphas == [i \in DOMAIN chunk |-> IF InCentre(i) THEN Weight(chunk[i]) ELSE 0]
        tail == IF m.is_last_chunk THEN <<tail_alphas>> ELSE <<>>
    IN  Integrate(alphas \o tail, m.alphas_cache_)

\* The rows that are weighed.
Centre(chunk) ==
    SubSeq(chunk, chunk_size[1] + 1, Min({chunk_size[1] + chunk_size[2], Len(chunk)}))

\* The model after CIF has gone over the rows: tokens go to the decoder.  When it
\* throws, its four arguments stay in decoder_onnx until they are cleared.  With
\* them there are more arguments than names: Run reads names beyond the array,
\* which crashes, or else throws, since the old arguments stand where it expects
\* its caches.
Decoded(weighed, fired, fault) ==
    IF fired = 0 THEN weighed
    ELSE IF fault = "stray" /\ weighed.surplus > 0
         THEN [weighed EXCEPT !.crashed = TRUE, !.faulty = TRUE]
    ELSE IF fault = "decoder" \/ weighed.surplus > 0
         THEN [weighed EXCEPT !.surplus = @ + 4, !.faulty = TRUE]
    ELSE [weighed EXCEPT !.text = @ + fired]

\* ForwardChunk on the model and the chunk of a: the model afterwards, fault being
\* the session that throws if it is run, or where a name beyond the array leads.
ForwardChunk(a, fault) ==
    LET wide == \A i \in DOMAIN a.chunk :
                  a.chunk[i].frames = <<>> \/ Len(a.chunk[i].frames) = lfr_m
        Weighed(cif) == Decoded([a.m EXCEPT !.alphas_cache_ = cif.integrate,
                                            !.rows = @ \o Centre(a.chunk)],
                                cif.fired, fault)
    IN  IF fault = "encoder" THEN [a.m EXCEPT !.faulty = TRUE]
        ELSE IF ~wide THEN a.m
        ELSE Weighed(CifSearch(a.m, a.chunk))

\* Mutant: what is cached when the audio ends early stays.
TailOnly(m, fault) ==
    ForwardChunk([m |-> [m EXCEPT !.is_last_chunk = TRUE], chunk |-> m.feats_cache_], fault)

\* Forward with next to no audio left: the rows looked ahead at are the last.
LastRows(m, fault) ==
    InitCache(ResetCache(
      ForwardChunk([m |-> [m EXCEPT !.is_last_chunk = TRUE], chunk |-> m.feats_cache_],
                   fault)))

\* The next chunk of p's rows; last says whether it is the utterance's last one.
NextChunk(m, rows, input_finished, last_chunk, fault) ==
    ForwardChunk(AddOverlapChunk([m EXCEPT !.is_last_chunk = last_chunk],
                                 rows, input_finished), fault)

\* Forward's chunks: the rows of p, in two chunks when the last ones do not fit.
Chunks(p, input_finished, fault, fault2) ==
    LET n == Len(p.wav_feats)
        room == chunk_size[2] - chunk_size[3]
        m == NextChunk(p.m, p.wav_feats, input_finished, input_finished /\ n <= room, fault)
    IN  IF n = 0 THEN p.m
        ELSE IF ~input_finished THEN m
        ELSE InitCache(ResetCache(
               IF n <= room THEN m
               ELSE NextChunk(m, LastOf(p.wav_feats, n - room), TRUE, TRUE, fault2)))

\* Forward: the model after the new units; a call may run two chunks.
Forward(m, new, input_finished, fault, fault2) ==
    IF Len(new) < ShortTail /\ input_finished /\ ~m.is_first_chunk
    THEN LastRows(m, fault)
    ELSE Chunks(GetPosEmb(ExtractFeats([m EXCEPT !.is_first_chunk = FALSE], new,
                                       input_finished)),
                input_finished, fault, fault2)

-----------------------------------------------------------------------------
(* detect_opus *)

\* The sessions that may throw, and what may be beyond the array of names.
Exceptions == IF faults < MaxFaults THEN {"encoder", "decoder"} ELSE {}
Faults == Exceptions \union {"none", "stray"}

\* The units in pcm_, the last n decoded ones.
Pcm(n, upTo) == [i \in 1..n |-> upTo - n + i]

\* A packet is decoded; every 600 ms the model goes on.
DetectFrame ==
    /\ ~model.crashed
    /\ units + duration <= MaxUnits
    /\ units' = units + duration
    /\ LET n == decoded_length_ + duration IN
       IF n < ChunkUnits
       THEN decoded_length_' = n /\ UNCHANGED <<model, faults>>
       ELSE \E fault \in Faults :
              /\ decoded_length_' = 0
              /\ model' = Forward(model, Pcm(n, units'), FALSE, fault, "none")
              /\ faults' = IF fault \in Exceptions THEN faults + 1 ELSE faults
    /\ UNCHANGED <<duration, weights, began, flushes, last>>

\* The end mark: the rest is recognised and the whole text returned.
DetectEnd ==
    /\ ~model.crashed
    /\ flushes < MaxFlushes
    /\ flushes' = flushes + 1
    /\ \E fault, fault2 \in Faults :
         LET m == Forward(model, Pcm(decoded_length_, units), TRUE, fault, fault2) IN
         /\ fault \in Exceptions => fault2 \notin Exceptions
         /\ faults' = IF {fault, fault2} \intersect Exceptions = {} THEN faults
                      ELSE faults + 1
         /\ last' = [units |-> units - began, rows |-> m.rows,
                     text |-> m.text, faulty |-> m.faulty]
         /\ model' = [m EXCEPT !.text = 0, !.rows = <<>>, !.faulty = FALSE]
    /\ decoded_length_' = 0
    /\ began' = units
    /\ UNCHANGED <<duration, weights, units>>

\* Packets that cannot be decoded change nothing; nothing more comes, or the
\* process is gone.
Ended ==
    /\ model.crashed \/ (flushes = MaxFlushes /\ units + duration > MaxUnits)
    /\ UNCHANGED vars

Next == DetectFrame \/ DetectEnd \/ Ended

Spec == Init /\ [][Next]_vars
-----------------------------------------------------------------------------
(* Properties *)

\* Type invariant of detect_opus and the model; it says too that the range of
\* audio that ExtractFeats reserves begins before it ends.
TypeOK ==
    /\ duration \in Durations /\ weights \in Weightings
    /\ decoded_length_ \in 0..ChunkUnits - 1
    /\ model.reserve_waveforms_ \in Nat /\ model.input_cache_ \in Seq(1..MaxUnits)
    /\ model.lfr_splice_cache_ \in Seq(1..MaxUnits)
    /\ Len(model.feats_cache_) = chunk_size[1] + chunk_size[3]
    /\ model.alphas_cache_ \in 0..cif_threshold - 1 /\ model.text \in Nat
    /\ model.surplus \in Nat /\ ~model.is_last_chunk
    /\ units \in 0..MaxUnits /\ began \in 0..units
    /\ flushes \in 0..MaxFlushes /\ faults \in 0..MaxFaults

\* Row k of an utterance of n frames that begins after unit b: the frames around
\* frame 6k, the first and the last repeated where there are none.  Before the
\* utterance there are zeros.
RowOf(k, n, b) ==
    [pos |-> k,
     frames |-> IF k < 0 THEN <<>>
                ELSE [j \in 1..lfr_m |->
                        b + 1 + frame_shift * Min({n - 1, Max({0, lfr_n * k + j - 4})})]]

\* The rows that are weighed first are the five zeros of the fresh feats_cache_
\* that stand in the middle of the first chunk.
IsUtterance(rows, n, b) ==
    \A k \in DOMAIN rows : rows[k] = RowOf(k - 1 - chunk_size[1], n, b)

\* Whatever the chunks, after the zeros each row of the utterance is weighed once,
\* in order, and spliced from the right frames: the first ones while it goes on
\* and, unless a session throws, all but at most the last when it has ended.
\* Nothing at all is weighed of less audio than makes a row.
CentreRowsAreTheUtterance ==
    /\ ~model.faulty =>
         IsUtterance(model.rows, ComputeFrameNum(units - began), began)
    /\ began = units /\ ~last.faulty =>
         LET n == ComputeFrameNum(last.units)
             rows == (n + lfr_n - 1) \div lfr_n
         IN  /\ \/ Len(last.rows) - chunk_size[1] \in {rows, rows - 1}
                \/ rows <= 1 /\ last.rows = <<>>
             /\ IsUtterance(last.rows, n, units - last.units)

\* The weight of rows.
Total(rows) ==
    LET sum[i \in 0..Len(rows)] == IF i = 0 THEN 0 ELSE sum[i - 1] + Weight(rows[i])
    IN  sum[Len(rows)]

\* The number of tokens is that of the whole utterance weighed at once: nothing
\* of the integral is lost or counted twice from chunk to chunk.
TokensFollowTheIntegral ==
    flushes > 0 /\ ~last.faulty =>
      last.text = (Total(last.rows) + tail_alphas) \div cif_threshold

\* Unless the process crashes, an utterance leaves nothing behind for the next one,
\* whatever was thrown in it: after each end mark the model is as it was made, but
\* that it no longer takes the next chunk for the first if there was nothing to
\* recognise.
FlushForgets ==
    flushes' # flushes /\ ~model'.crashed =>
      [model' EXCEPT !.is_first_chunk = TRUE] = NewModel

NothingIsLeft == [][FlushForgets]_vars
=============================================================================
