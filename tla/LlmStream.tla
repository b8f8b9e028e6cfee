----------------------------- MODULE LlmStream -----------------------------
(***************************************************************************)
(* One answer of the language model: request::stream_post with parse_chunk     *)
(* (common/request.cpp) and, on what it hands over, the callback of one of the  *)
(* three providers that createLLM may make: Openai, Dify or CozeV3 (llm/).     *)
(*                                                                         *)
(* The response is a sequence of tokens <<kind, number>>; bytes that matter      *)
(* alike are one token, and a line may be cut between any two of them:          *)
(*   http end                  the response's header and the line that ends it    *)
(*   size cr lf                the size line of a chunk, cr lf again after it      *)
(*   da ta j1 j2 nl            "data:" and JSON, in two pieces each; the number    *)
(*                             is that of the event, 0 for [DONE]                *)
(*   ev nl                     Coze's line that names the event that follows       *)
(***************************************************************************)
EXTENDS Integers, Sequences, SequencesExt, FiniteSetsExt

CONSTANTS Answers,   \* sequences of events, by provider: what an answer may be
          MaxCuts,   \* chunk boundaries inside it at most
          MaxReads   \* reads at most before the one that brings all the rest

Providers == {"Openai", "Dify", "CozeV3"}

VARIABLES
    provider,          \* of the answer
    events,            \* the events of the answer
    wire,              \* the response
    pc,                \* the co_await that response() is at, or how it ended
    reads,             \* reads so far
    arrived, consumed, \* tokens read from the stream; of those, taken from buffer
    last_line,         \* Openai's
    is_active,         \* Openai: no <think> is open
    heard,             \* events whose content was handed to the caller
    torn,              \* history: a read has ended inside a chunk
    split              \* history: a callback has got what it cannot cope with

vars == <<provider, events, wire, pc, reads, arrived, consumed, last_line, is_active, heard,
          torn, split>>

T(kind, n) == <<kind, n>>
Crlf == <<T("cr", 0), T("lf", 0)>>
Newline == T("nl", 0)

\* The lines of event n, as the providers send them.
Line(n) == <<T("da", 0), T("ta", 0), T("j1", n), T("j2", n), Newline>>
EventLines(p, n) ==
    CASE p = "CozeV3" -> <<T("ev", n), Newline>> \o Line(n)
      [] p = "Dify"   -> Append(Line(n), Newline)
      [] p = "Openai" -> Line(n)
Events(p) ==
    CASE p = "CozeV3" -> {"chat", "delta", "completed", "done"}
      [] p = "Dify"   -> {"text", "error"}
      [] p = "Openai" -> {"text", "open", "close"}
Body(p, es) ==
    FlattenSeq([n \in DOMAIN es |-> EventLines(p, n)]) \o IF p = "Openai" THEN Line(0) ELSE <<>>

\* Where the chunks of a body may end, and where chunk i does.
End(ends, i) == IF i = 0 THEN 0 ELSE ends[i]
Chunkings(body) ==
    {ends \in UNION {[1..k -> 1..Len(body)] : k \in 0..MaxCuts + 1} :
       /\ End(ends, Len(ends)) = Len(body)
       /\ \A i \in DOMAIN ends : End(ends, i - 1) < ends[i]}

\* What follows the last, empty chunk is never looked at.
Chunked(body, ends) ==
    LET Chunk(i) == <<T("size", ends[i] - End(ends, i - 1))>> \o Crlf
                    \o SubSeq(body, End(ends, i - 1) + 1, ends[i]) \o Crlf
    IN  <<T("http", 0), T("end", 0)>> \o FlattenSeq([i \in DOMAIN ends |-> Chunk(i)])
        \o <<T("size", 0)>> \o Crlf

ASSUME LlmStreamAssumption ==
    /\ \A p \in Providers : Answers[p] \subseteq Seq(Events(p))
    /\ MaxCuts \in Nat /\ MaxReads \in Nat

Init ==
    /\ provider \in Providers
    /\ events \in Answers[provider]
    /\ LET body == Body(provider, events)
       IN  \E ends \in Chunkings(body) : wire = Chunked(body, ends)
    /\ pc = "connect" /\ reads = 0 /\ arrived = 0 /\ consumed = 0
    /\ last_line = <<>> /\ is_active = TRUE /\ heard = <<>>
    /\ torn = FALSE /\ split = FALSE

-----------------------------------------------------------------------------
(* parse_chunk *)

\* stoul on a line: white space is skipped.  "data:" begins with the digits of 218
\* and "event:" with that of 14, JSON cut in the middle with whatever g stands for;
\* where there is no digit, stoul throws.
Invalid == -1
Stoul(line, g) ==
    LET ink == {i \in DOMAIN line : line[i][1] \notin {"cr", "lf", "nl"}}
        first == line[Min(ink)]
    IN  IF ink = {} THEN Invalid
        ELSE CASE first[1] = "size" -> first[2]
               [] first[1] \in {"da", "ev"} -> Max({1, g})
               [] first[1] = "j2" -> g
               [] OTHER -> Invalid

\* What parse_chunk may read where a size should stand.
Garbage == {Invalid, 0, 2, Len(wire)}

\* Mutant: the position may lie behind the end.
ConsumedBlindly(view, pos) == pos

\* flat_buffer::consume takes no more than there is.
Consumed(view, pos) == Min({pos, Len(view)})

\* One round of parse_chunk's loop: a chunk that is complete.  Of one that is not the
\* size line is gone, its data stays.
NextChunk(view, g, s) ==
    LET ends == {i \in s.pos + 1..Len(view) - 1 : view[i][1] = "cr"}
        data == Min(ends) + 1
        size == Stoul(SubSeq(view, s.pos + 1, data - 2), g)
    IN  IF s.result # "next" THEN s
        ELSE IF ends = {} THEN [s EXCEPT !.result = "more"]
        ELSE IF size = Invalid THEN [s EXCEPT !.body = <<>>, !.result = "throws"]
        ELSE IF size = 0 THEN [s EXCEPT !.pos = data, !.result = "over"]
        ELSE IF data + size > Len(view) THEN [s EXCEPT !.pos = data, !.result = "more"]
        ELSE [s EXCEPT !.pos = data + size + 2, !.body = @ \o SubSeq(view, data + 1, data + size)]

\* The bodies of the chunks and what of the buffer is consumed: nothing before the
\* header is complete.
parse_chunk(view, g) ==
    LET header == IF view[1] = T("http", 0) THEN 2 ELSE 0
        after[k \in 0..Len(view)] ==
          IF k = 0 THEN [body |-> <<>>, pos |-> header, result |-> "next"]
          ELSE CHOOSE s \in {NextChunk(view, g, before) : before \in {after[k - 1]}} : TRUE
        parsed == after[Len(view)]
    IN  IF Len(view) < header THEN [body |-> <<>>, pos |-> 0, result |-> "more"]
        ELSE [parsed EXCEPT !.pos = Consumed(view, @)]

-----------------------------------------------------------------------------
(* The callbacks *)

IsData(line) == Len(line) >= 2 /\ SubSeq(line, 1, 2) = SubSeq(Line(0), 1, 2)

\* The event of a "data:" line whose JSON is whole, or Invalid.
Parsed(line) ==
    IF \E n \in 0..Len(events) : Append(line, Newline) = Line(n) THEN line[3][2] ELSE Invalid

\* A line that does not begin with "data:" is joined to the last that was not JSON.
Joined(s, line) ==
    IF IsData(line) THEN [line |-> line, last_line |-> s.last_line]
    ELSE [line |-> s.last_line \o line, last_line |-> <<>>]

\* Mutant: a thought once begun never ends.
ThinksOn(s, n) == s.is_active /\ events[n] # "open"

Active(s, n) == events[n] = "close" \/ (s.is_active /\ events[n] # "open")

\* Openai: the content is handed over unless a <think> is open; one event may close
\* it and go on.
OpenaiLine(s, raw) ==
    LET j == Joined(s, raw)
        n == Parsed(j.line)
    IN  IF raw = <<>> THEN s
        ELSE IF ~IsData(j.line) THEN [s EXCEPT !.last_line = j.last_line]
        ELSE IF n = Invalid THEN [s EXCEPT !.last_line = j.line]
        ELSE IF n = 0 THEN [s EXCEPT !.last_line = j.last_line]
        ELSE [s EXCEPT !.last_line = j.last_line, !.is_active = Active(s, n),
                       !.heard = IF Active(s, n) THEN Append(@, n) ELSE @]

\* Dify: what is not JSON throws.
DifyLine(s, line) ==
    IF s.threw \/ ~IsData(line) THEN s
    ELSE IF Parsed(line) = Invalid THEN [s EXCEPT !.threw = TRUE]
    ELSE IF events[Parsed(line)] = "text" THEN [s EXCEPT !.heard = Append(@, Parsed(line))]
    ELSE s

\* Mutant: the data of an event is taken whether a delta was announced or not.
CozeTakesAny(s, line) ==
    LET n == Parsed(line) IN
    IF s.threw \/ ~IsData(line) THEN s
    ELSE IF n = Invalid \/ events[n] = "done" THEN [s EXCEPT !.threw = TRUE]
    ELSE IF events[n] \in {"delta", "completed"} THEN [s EXCEPT !.heard = Append(@, n)]
    ELSE s

\* CozeV3: once a delta was announced, every event's data is taken for one; that
\* of the last event, "done", is no object.
CozeLine(s, line) ==
    LET n == Parsed(line) IN
    IF s.threw THEN s
    ELSE IF Len(line) = 1 /\ line[1][1] = "ev" /\ events[line[1][2]] = "delta"
         THEN [s EXCEPT !.is_delta = TRUE]
    ELSE IF ~s.is_delta \/ ~IsData(line) THEN s
    ELSE IF n = Invalid \/ events[n] = "done" THEN [s EXCEPT !.threw = TRUE]
    ELSE IF events[n] \in {"delta", "completed"} THEN [s EXCEPT !.heard = Append(@, n)]
    ELSE s

TakeLine(s, line) ==
    CASE provider = "Openai" -> OpenaiLine(s, line)
      [] provider = "Dify"   -> DifyLine(s, line)
      [] provider = "CozeV3" -> CozeLine(s, line)

\* boost::split on "\n", and the lines one after another, each with what those before
\* it have left.
Callback(res) ==
    LET NextToken(i, s) ==
          IF i <= Len(res) /\ res[i] # Newline THEN [s EXCEPT !.line = Append(@, res[i])]
          ELSE [TakeLine(s, s.line) EXCEPT !.line = <<>>]
        after[i \in 0..Len(res) + 1] ==
          IF i = 0
          THEN [line |-> <<>>, last_line |-> last_line, is_active |-> is_active,
                heard |-> heard, is_delta |-> FALSE, threw |-> FALSE]
          ELSE CHOOSE s \in {NextToken(i, before) : before \in {after[i - 1]}} : TRUE
    IN  after[Len(res) + 1]

-----------------------------------------------------------------------------
(* History: what the callbacks and parse_chunk cannot cope with *)

\* Position p is inside a chunk: behind its size line, not behind the cr after it.
InChunk(p) ==
    \E b \in 3..p :
      /\ wire[b][1] = "size" /\ wire[b][2] > 0
      /\ p \in b + 2..b + 2 + wire[b][2]

\* Openai: "data:" is cut.  Dify: a line is.  CozeV3: a line is, or the name of an
\* event and its data are in two calls, or another event follows a delta in one.
Harmful(res) ==
    CASE provider = "Openai" -> Last(res)[1] = "da"
      [] provider = "Dify"   -> Last(res) # Newline
      [] provider = "CozeV3" ->
           \/ Last(res) # Newline \/ (Len(res) > 1 /\ Last(Front(res))[1] = "ev")
           \/ \E i, k \in DOMAIN res :
                /\ i < k /\ res[i][1] = "ev" /\ res[k][1] = "ev"
                /\ events[res[i][2]] = "delta" /\ events[res[k][2]] # "delta"

-----------------------------------------------------------------------------
(* stream_post *)

Progress == <<reads, arrived, consumed, last_line, is_active, heard, torn, split>>

\* connect() and send() are done, or throw.
Opens ==
    /\ \/ pc = "connect" /\ pc' = "send"
       \/ pc = "send" /\ pc' = "read"
       \/ pc \in {"connect", "send"} /\ pc' = "thrown"
    /\ UNCHANGED <<provider, events, wire, Progress>>

\* async_read_some brings some more of the response.
Reads ==
    /\ pc = "read" /\ arrived < Len(wire)
    /\ reads' = reads + 1
    /\ \E upTo \in (IF reads < MaxReads THEN arrived + 1 ELSE Len(wire))..Len(wire),
          g \in IF torn THEN Garbage ELSE {Invalid} :
         /\ arrived' = upTo /\ torn' = (torn \/ InChunk(upTo))
         /\ \E p \in {parse_chunk(SubSeq(wire, consumed + 1, upTo), g)} :
            \E s \in {Callback(p.body)} :
              /\ consumed' = consumed + p.pos
              /\ last_line' = s.last_line /\ is_active' = s.is_active /\ heard' = s.heard
              /\ split' = (split \/ (p.body # <<>> /\ Harmful(p.body)))
              /\ pc' = CASE p.result = "throws" \/ s.threw -> "thrown"
                         [] p.result = "over" -> "over"
                         [] OTHER -> "read"
    /\ UNCHANGED <<provider, events, wire>>

\* Mutant: an error is logged only.
ReadErrorIgnored ==
    /\ pc = "read"
    /\ UNCHANGED vars

\* The connection is closed or nothing came for 30 s: taken for the end.
ReadFails ==
    /\ pc = "read"
    /\ pc' = "cut"
    /\ UNCHANGED <<provider, events, wire, Progress>>

\* close(), with an error or without.
Closes ==
    /\ pc \in {"over", "cut"}
    /\ pc' = IF pc = "over" THEN "answered" ELSE "returned"
    /\ UNCHANGED <<provider, events, wire, Progress>>

Ended == pc \in {"answered", "returned", "thrown"} /\ UNCHANGED vars

Next == Opens \/ Reads \/ ReadFails \/ Closes \/ Ended

\* connect(), send() and every read have a limit of 30 s.
Spec == Init /\ [][Next]_vars /\ WF_vars(Opens) /\ WF_vars(ReadFails \/ Reads)
             /\ WF_vars(Closes)
-----------------------------------------------------------------------------
(* Properties *)

\* Type invariant of stream_post and the callbacks.
TypeOK ==
    /\ pc \in {"connect", "send", "read", "over", "cut", "answered", "returned", "thrown"}
    /\ reads \in 0..MaxReads + 1
    /\ arrived \in 0..Len(wire) /\ consumed \in 0..arrived
    /\ ToSet(last_line) \subseteq ToSet(wire) /\ is_active \in BOOLEAN
    /\ heard \in Seq(DOMAIN events) /\ torn \in BOOLEAN /\ split \in BOOLEAN

\* Whatever goes wrong, no event is heard twice or before an earlier one.
HeardInOrder == \A i, k \in DOMAIN heard : i < k => heard[i] < heard[k]

\* The events a caller should hear: what is not thought, not repeated at the end.
Expected ==
    LET Thought(n) == \E a \in 1..n :
          events[a] = "open" /\ \A b \in a..n : events[b] # "close"
    IN  {n \in DOMAIN events : events[n] \in {"text", "close", "delta"} /\ ~Thought(n)}

\* However the answer is cut into chunks and reads, as long as no read ends inside
\* a chunk and no callback gets a piece its provider cannot use: the caller hears the
\* answer from its beginning and, when the response is over, all of it.
AnswerIsWhole ==
    ~torn /\ ~split =>
      /\ HeardInOrder
      /\ \E m \in 0..Len(events) :
           /\ ToSet(heard) = Expected \cap 1..m
           /\ pc \in {"over", "answered"} => m = Len(events)

\* The caller is told nothing twice.  No event is heard twice or before an earlier one,
\* whatever goes wrong; and Coze's "completed", an event of its own that repeats the
\* whole answer, is not heard either, unless a read ended inside a chunk or a callback
\* got what CozeV3 cannot cope with: a delta and the completed answer in one call, of
\* which is_delta lets both pass (cozev3.cpp:60-73).
NothingIsRepeated ==
    /\ HeardInOrder
    /\ (\E i \in DOMAIN heard : events[heard[i]] = "completed") => torn \/ split

\* Every answer ends: response() returns or throws.
AnswerEnds == <>(pc \in {"answered", "returned", "thrown"})
=============================================================================
