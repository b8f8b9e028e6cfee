---------------------------- MODULE BytedanceAsr ----------------------------
(***************************************************************************)
(* The recogniser BytedanceV2 (asr/bytedancev2.cpp): a connection to a cloud  *)
(* service that is opened by the first call of an utterance, fed with an Ogg   *)
(* stream and closed by the end mark.  asr_loop makes one call of detect_opus  *)
(* at a time; every step below runs from one co_await to the next.            *)
(*                                                                         *)
(* A packet of the Ogg stream is the number of its frame, or one of the three  *)
(* packets that hold none.  The service recognises all frames it has got, or   *)
(* nothing.  clear() destroys the websocket and the Ogg stream; the code that   *)
(* uses them after a failed send() dereferences null pointers, which ends the   *)
(* process (pc = "crashed").  An exception ends asr_loop (pc = "dead").         *)
(***************************************************************************)
EXTENDS Integers, Sequences, SequencesExt

CONSTANTS MaxFrames,   \* frames handed over at most
          MaxFlushes,  \* end marks at most
          MinPage      \* packets that libogg puts on a page of its own at least

ASSUME BytedanceAssumption ==
    MaxFrames \in Nat /\ MaxFlushes \in Nat /\ MinPage \in Nat \ {0}

VARIABLES
    pc,             \* the co_await that detect_opus is at
    ws_state_,      \* "Idle", "Connecting", "Connected"
    ws_,            \* TRUE if the pointer is set
    ogg_streamer_,  \* TRUE if the pointer is set
    unpaged,        \* packets inside ogg_streamer_ that are on no page yet
    data,           \* the packets on the pages being written
    buf,            \* the argument of the running call
    heard,          \* frames handed over so far
    sentence,       \* what the running call will return
    said,           \* what the calls with an end mark have returned
    service,        \* packets the service has got on this connection
    answers,        \* its messages that nobody has read yet
    opened          \* history: the running call has opened the connection

vars == <<pc, ws_state_, ws_, ogg_streamer_, unpaged, data, buf, heard,
          sentence, said, service, answers, opened>>

EndOfSpeech == 0
OpusHead == -1
OpusTags == -2
Frame == 1..MaxFrames

Init ==
    /\ pc = "ready" /\ ws_state_ = "Idle" /\ ws_ = FALSE
    /\ ogg_streamer_ = FALSE /\ unpaged = <<>> /\ data = <<>>
    /\ buf = EndOfSpeech /\ heard = 0 /\ sentence = <<>> /\ said = <<>>
    /\ service = <<>> /\ answers = 0 /\ opened = FALSE

-----------------------------------------------------------------------------
(* Pieces of steps *)

\* Mutant: clear() leaves the state as it was.
ClearsPointers ==
    /\ ws_' = FALSE /\ ogg_streamer_' = FALSE /\ UNCHANGED ws_state_
    /\ unpaged' = <<>> /\ data' = <<>> /\ service' = <<>> /\ answers' = 0

\* clear(): both pointers and the state.
Clear ==
    /\ ws_' = FALSE /\ ogg_streamer_' = FALSE /\ ws_state_' = "Idle"
    /\ unpaged' = <<>> /\ data' = <<>> /\ service' = <<>> /\ answers' = 0

\* detect_opus(b) returns t.
Returns(b, t) ==
    /\ pc' = "ready"
    /\ sentence' = <<>>
    /\ said' = IF b = EndOfSpeech THEN Append(said, t) ELSE said

Connection == <<ws_state_, ws_, ogg_streamer_, service, answers>>
Call == <<buf, heard, sentence, said, opened>>

\* libogg: how many of the packets ps make up pages now.  All of them once the
\* stream ends; otherwise it waits until a page is full.
PagesOut(ps) ==
    IF Last(ps) = EndOfSpeech THEN {Len(ps)} ELSE {0} \union (MinPage..Len(ps))

\* process_buffer(b) on the stream that holds ps, and send() of the pages that
\* come out of it: nothing to send means that the call is over.
Processes(ps, b) ==
    \E n \in PagesOut(Append(ps, b)) :
      /\ data' = SubSeq(Append(ps, b), 1, n)
      /\ unpaged' = SubSeq(Append(ps, b), n + 1, Len(ps) + 1)
      /\ IF n = 0 THEN Returns(b, <<>>)
         ELSE pc' = (IF b = EndOfSpeech THEN "ending" ELSE "sending")
              /\ UNCHANGED <<sentence, said>>

-----------------------------------------------------------------------------
(* The steps of detect_opus *)

\* Called without a connection: connect() begins.
BeginsToConnect ==
    /\ ws_state_ = "Idle"
    /\ ws_state_' = "Connecting"
    /\ pc' = "resolve"
    /\ opened' = TRUE
    /\ UNCHANGED <<ws_, ogg_streamer_, unpaged, data, sentence, said, service, answers>>

\* Called with one: the packet goes into the Ogg stream.
Continues(b) ==
    /\ ws_state_ # "Idle"
    /\ opened' = FALSE
    /\ \/ ogg_streamer_ /\ Processes(unpaged, b)
       \/ ~ogg_streamer_ /\ pc' = "crashed" /\ UNCHANGED <<unpaged, data, sentence, said>>
    /\ UNCHANGED Connection

DetectFrame ==
    /\ pc = "ready" /\ heard < MaxFrames
    /\ heard' = heard + 1 /\ buf' = heard + 1
    /\ BeginsToConnect \/ Continues(heard + 1)

DetectEnd ==
    /\ pc = "ready" /\ Len(said) < MaxFlushes
    /\ buf' = EndOfSpeech /\ UNCHANGED heard
    /\ BeginsToConnect \/ Continues(EndOfSpeech)

\* connect() and send_full_client(): one co_await after the other.
Stages == <<"resolve", "connect", "tls", "handshake", "greet", "greeting">>
StageOf(s) == CHOOSE i \in DOMAIN Stages : Stages[i] = s

StageDone ==
    /\ pc \in ToSet(Front(Stages))
    /\ pc' = Stages[StageOf(pc) + 1]
    /\ ws_' = TRUE
    /\ UNCHANGED <<ws_state_, ogg_streamer_, unpaged, data, service, answers, Call>>

\* A stage fails, or the greeting is answered by an error: no sentence.
StageFails ==
    /\ pc \in ToSet(Stages)
    /\ Clear
    /\ UNCHANGED <<buf, heard, opened>>
    /\ Returns(buf, <<>>)

\* Mutant: the stream of the last connection goes on.
GreetedAgain ==
    /\ pc = "greeting"
    /\ ws_state_' = "Connected" /\ ogg_streamer_' = TRUE
    /\ data' = <<OpusTags>> /\ unpaged' = <<>>
    /\ pc' = "header"
    /\ UNCHANGED <<ws_, service, answers, Call>>

\* The service accepts; a new Ogg stream begins with a page for its header.
Greeted ==
    /\ pc = "greeting"
    /\ ws_state_' = "Connected" /\ ogg_streamer_' = TRUE
    /\ data' = <<OpusHead>> /\ unpaged' = <<>>
    /\ pc' = "header"
    /\ UNCHANGED <<ws_, service, answers, Call>>

\* async_write completes: the service has the pages and will answer them.
Written ==
    /\ service' = service \o data
    /\ answers' = answers + 1

\* The comment header does not fill a page: it stays in the stream, and
\* nothing is sent for it.
HeaderSent ==
    /\ pc = "header"
    /\ Written
    /\ Processes(<<OpusTags>>, buf)
    /\ UNCHANGED <<ws_state_, ws_, ogg_streamer_, buf, heard, opened>>

\* clear() has destroyed the stream that the comment header is asked of.
HeaderLost ==
    /\ pc = "header"
    /\ Clear
    /\ pc' = "crashed"
    /\ UNCHANGED Call

FrameSent ==
    /\ pc = "sending"
    /\ Written
    /\ data' = <<>>
    /\ UNCHANGED <<ws_state_, ws_, ogg_streamer_, unpaged, buf, heard, opened>>
    /\ Returns(buf, <<>>)

\* The frame is lost and what the service had; the next call connects again.
FrameLost ==
    /\ pc = "sending"
    /\ Clear
    /\ UNCHANGED <<buf, heard, opened>>
    /\ Returns(buf, <<>>)

EndSent ==
    /\ pc = "ending"
    /\ Written
    /\ data' = <<>>
    /\ pc' = "result"
    /\ UNCHANGED <<ws_state_, ws_, ogg_streamer_, unpaged, Call>>

\* clear() has destroyed the websocket that is then to be closed: the last
\* pages cannot be written or no answer be read.
EndLost ==
    /\ pc \in {"ending", "result"}
    /\ Clear
    /\ pc' = "crashed"
    /\ UNCHANGED Call

\* An answer to one of the earlier pages.
ReadsOn ==
    /\ pc = "result" /\ answers > 1
    /\ answers' = answers - 1
    /\ UNCHANGED <<pc, ws_state_, ws_, ogg_streamer_, unpaged, data, service, Call>>

\* The packets of an Ogg stream behind its two headers, and before a last p.
Body(ps, p) ==
    SubSeq(ps, 3, IF ps # <<>> /\ Last(ps) = p THEN Len(ps) - 1 ELSE Len(ps))

\* The frames in what the service has got.
Frames(ps) == Body(ps, EndOfSpeech)

\* Mutant: the answer to an earlier page is taken for the last.
ReadsTooEarly ==
    /\ pc = "result"
    /\ sentence' \in {Frames(Front(Front(service))), <<>>}
    /\ answers' = answers - 1
    /\ pc' = "closing"
    /\ UNCHANGED <<ws_state_, ws_, ogg_streamer_, unpaged, data, service,
                   buf, heard, said, opened>>

\* The answer to the last page, with all that was recognised, or an error
\* instead of any of them.
ReadsResult ==
    /\ pc = "result"
    /\ \/ answers = 1 /\ sentence' = Frames(service)
       \/ sentence' = <<>>
    /\ answers' = answers - 1
    /\ pc' = "closing"
    /\ UNCHANGED <<ws_state_, ws_, ogg_streamer_, unpaged, data, service,
                   buf, heard, said, opened>>

\* async_close completes, with an error or without.
Closed ==
    /\ pc = "closing"
    /\ Clear
    /\ UNCHANGED <<buf, heard, opened>>
    /\ Returns(buf, sentence)

\* parse_response meets something that is not JSON: an exception.
Throws ==
    /\ pc \in {"greeting", "result"}
    /\ pc' = "dead"
    /\ UNCHANGED <<ws_state_, ws_, ogg_streamer_, unpaged, data, service, answers, Call>>

\* The process or the coroutine has ended, or nothing more will be said.
Ended ==
    /\ \/ pc \in {"crashed", "dead"}
       \/ pc = "ready" /\ heard = MaxFrames /\ Len(said) >= MaxFlushes
    /\ UNCHANGED vars

Awaits == \/ StageDone \/ StageFails \/ Greeted \/ HeaderSent \/ HeaderLost
          \/ FrameSent \/ FrameLost \/ EndSent \/ EndLost \/ ReadsOn
          \/ ReadsResult \/ Closed \/ Throws

Next == DetectFrame \/ DetectEnd \/ Awaits \/ Ended

Spec == Init /\ [][Next]_vars
-----------------------------------------------------------------------------
(* Properties *)

\* Type invariant of detect_opus's state and of what the service has got.
TypeOK ==
    /\ pc \in ToSet(Stages) \union {"ready", "header", "sending", "ending",
                                    "result", "closing", "crashed", "dead"}
    /\ ws_state_ \in {"Idle", "Connecting", "Connected"}
    /\ ws_ \in BOOLEAN /\ ogg_streamer_ \in BOOLEAN /\ opened \in BOOLEAN
    /\ {unpaged, data, service} \subseteq Seq(-2..MaxFrames)
    /\ buf \in 0..MaxFrames /\ heard \in 0..MaxFrames
    /\ sentence \in Seq(Frame) /\ said \in Seq(Seq(Frame))
    /\ answers \in Nat

\* Everything on its way to the service on the present connection.
Stream == service \o data \o unpaged

\* Each connection carries one Ogg stream of its own: its header, its comment
\* header, then the frames handed over since it was opened, without a gap, and
\* its end at most once, at the end.  Nothing of a broken connection's stream is
\* sent on the next (ogg_streamer_ is replaced in detect_opus and in clear).
OggStreamIsWellFormed ==
    /\ Stream # <<>> => Stream[1] = OpusHead
    /\ Len(Stream) > 1 => Stream[2] = OpusTags
    /\ \A i \in 3..Len(Stream) :
         \/ Stream[i] \in Frame /\ (i > 3 => Stream[i] = Stream[i - 1] + 1)
         \/ Stream[i] = EndOfSpeech /\ i = Len(Stream)

\* A connection that is lost while a frame is sent does no harm beyond the
\* frames it held: the process only ever crashes in the call that opened the
\* connection, or in the one that ends the utterance.
FrameLossIsSurvived ==
    pc = "crashed" => opened \/ buf = EndOfSpeech

\* A call counts as made when it returns.
Returned == IF pc = "ready" \/ buf = EndOfSpeech THEN heard ELSE heard - 1

\* The frames of such calls that the connection still carries.
Held == Body(Stream, IF pc = "ready" THEN EndOfSpeech ELSE buf)

Recogniser == INSTANCE Recogniser WITH fed <- Returned, held <- Held

\* BytedanceV2 is a recogniser: whatever breaks, a text holds frames handed
\* over since the last end mark only, in order, and all since the connection was
\* opened.
ImplementsRecogniser == Recogniser!Spec
=============================================================================
