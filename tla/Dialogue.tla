------------------------------ MODULE Dialogue ------------------------------
(***************************************************************************)
(* The handlers of handle_asr_text (connection.cpp).  asr_loop spawns one     *)
(* for every utterance and does not wait for it: several may run at the same  *)
(* time, each on any thread of the pool.  They share dialogue_, a JSON array   *)
(* without a lock, and the llm_response_ queue, which has one.               *)
(*                                                                         *)
(* Neither a push_back on dialogue_ nor the provider's reading of it is atomic: *)
(* each is two steps here.  A push_back that overlaps another access is a data *)
(* race; from then on an access may find the array as it was or as it has      *)
(* become, throw, or end the whole process.                                  *)
(*                                                                         *)
(* A handler is the number of its utterance.  What the language model answers  *)
(* is abstracted to the sentences that push_llm_response makes of it.         *)
(***************************************************************************)
EXTENDS Naturals, Sequences

CONSTANTS MaxHandlers,   \* utterances at most
          MaxSentences   \* sentences of all answers at most

ASSUME DialogueAssumption == MaxHandlers \in Nat /\ MaxSentences \in Nat

VARIABLES
    is_released_,
    spawned,     \* handlers spawned so far
    handler,     \* where each handler is
    dialogue_,   \* the entries after the system prompt
    seen,        \* the array as a handler found it when its access began
    asked,       \* the array as each handler's provider read it
    answers,     \* which handler pushed the n-th sentence
    raced        \* history: a push_back has overlapped another access to dialogue_

dialogueVars == <<handler, dialogue_, seen, asked, answers, raced>>
vars == <<is_released_, spawned, dialogueVars>>

Handler == 1..MaxHandlers

HandlerPc == {"ready", "adding_question", "asking", "reading_dialogue",
              "answering", "answered", "adding_answer", "done", "exited",
              "failed", "crashed"}

Roles == {"user", "assistant"}
\* Mutant: the role of the first message is copied along, whoever speaks.
SystemEntry(role, h) == [role |-> "system", of |-> h]

Entry(role, h) == [role |-> role, of |-> h]

Init ==
    /\ is_released_ = FALSE
    /\ spawned = 0
    /\ handler = [h \in Handler |-> "ready"]
    /\ dialogue_ = <<>>
    /\ seen = [h \in Handler |-> <<>>]
    /\ asked = [h \in Handler |-> <<>>]
    /\ answers = <<>>
    /\ raced = FALSE

Appending == {"adding_question", "adding_answer"}
Accessing == Appending \union {"reading_dialogue"}

\* The process runs, unless the access of a handler has brought it down.
Alive == \A h \in Handler : handler[h] # "crashed"

Goes(h, from, to) ==
    /\ Alive
    /\ h <= spawned
    /\ handler[h] = from
    /\ handler' = [handler EXCEPT ![h] = to]

\* asr_loop spawns the next handler.
Spawn ==
    /\ Alive
    /\ spawned < MaxHandlers
    /\ spawned' = spawned + 1
    /\ UNCHANGED <<is_released_, dialogueVars>>

\* handle() ends; the handlers do not look at the flag and go on.
Release ==
    /\ Alive
    /\ is_released_' = TRUE
    /\ UNCHANGED <<spawned, dialogueVars>>

\* The text is one of CMD_exit.
RecognisesExit(h) ==
    /\ Goes(h, "ready", "exited")
    /\ is_released_' = TRUE
    /\ UNCHANGED <<spawned, dialogue_, seen, asked, answers, raced>>

\* A push_back begins: the handler finds the array as it is.
BeginsToAppend(h) ==
    /\ seen' = [seen EXCEPT ![h] = dialogue_]
    /\ raced' = (raced \/ \E g \in Handler : handler[g] \in Accessing)

\* It ends: what the handler found, and the entry behind it.  After a race what it
\* found may have changed under it.
Appends(h, entry) ==
    /\ \E found \in {seen[h]} \union (IF raced THEN {dialogue_} ELSE {}) :
         dialogue_' = Append(found, entry)
    /\ seen' = [seen EXCEPT ![h] = <<>>]

BeginsQuestion(h) ==
    /\ Goes(h, "ready", "adding_question")
    /\ BeginsToAppend(h)
    /\ UNCHANGED <<is_released_, spawned, dialogue_, asked, answers>>

AddsQuestion(h) ==
    /\ Goes(h, "adding_question", "asking")
    /\ Appends(h, Entry("user", h))
    /\ UNCHANGED <<is_released_, spawned, asked, answers, raced>>

\* llm_->response begins to read the dialogue: one provider copies it into its
\* request, the others search it for a question.
BeginsToAsk(h) ==
    /\ Goes(h, "asking", "reading_dialogue")
    /\ seen' = [seen EXCEPT ![h] = dialogue_]
    /\ raced' = (raced \/ \E g \in Handler : handler[g] \in Appending)
    /\ UNCHANGED <<is_released_, spawned, dialogue_, asked, answers>>

\* It has read it; after a race, the array that was, the one that is, or neither.
Asks(h) ==
    /\ Goes(h, "reading_dialogue", "answering")
    /\ \E found \in {dialogue_} \union (IF raced THEN {seen[h], <<>>} ELSE {}) :
         asked' = [asked EXCEPT ![h] = found]
    /\ seen' = [seen EXCEPT ![h] = <<>>]
    /\ UNCHANGED <<is_released_, spawned, dialogue_, answers, raced>>

\* The search steps its reverse iterator backwards: unless the last entry is a
\* question it runs off the end of the array, race or no race.
SearchRunsOff ==
    \A i \in DOMAIN dialogue_ : i = Len(dialogue_) => dialogue_[i].role # "user"

\* What is read is no entry and throws; the exception ends the handler.
ReadThrows(h) ==
    /\ raced \/ SearchRunsOff
    /\ Goes(h, "reading_dialogue", "failed")
    /\ seen' = [seen EXCEPT ![h] = <<>>]
    /\ UNCHANGED <<is_released_, spawned, dialogue_, asked, answers, raced>>

\* Memory that is not the array's is read or written: the process ends.
Crashes(h) ==
    /\ \/ raced /\ handler[h] \in Accessing
       \/ SearchRunsOff /\ handler[h] = "reading_dialogue"
    /\ Goes(h, handler[h], "crashed")
    /\ UNCHANGED <<is_released_, spawned, dialogue_, seen, asked, answers, raced>>

\* A piece of the answer completes a sentence, which is pushed.
PushesSentence(h) ==
    /\ Goes(h, "answering", "answering")
    /\ Len(answers) < MaxSentences
    /\ answers' = Append(answers, h)
    /\ UNCHANGED <<is_released_, spawned, dialogue_, seen, asked, raced>>

\* The answer ends; what is left of it is pushed, or nothing is left.
PushesRest(h) ==
    /\ Goes(h, "answering", "answered")
    /\ Len(answers) < MaxSentences
    /\ answers' = Append(answers, h)
    /\ UNCHANGED <<is_released_, spawned, dialogue_, seen, asked, raced>>

AnswerEnds(h) ==
    /\ Goes(h, "answering", "answered")
    /\ UNCHANGED <<is_released_, spawned, dialogue_, seen, asked, answers, raced>>

\* The request fails (no connection, unreadable data): the exception ends the
\* handler; its question stays in the dialogue without an answer.
Fails(h) ==
    /\ Goes(h, "answering", "failed")
    /\ UNCHANGED <<is_released_, spawned, dialogue_, seen, asked, answers, raced>>

\* Mutant: a handler waits while another is about to append its answer.
WaitsToBeginAnswer(h) ==
    /\ Goes(h, "answered", "adding_answer")
    /\ \A g \in Handler \ {h} : handler[g] # "answered"
    /\ BeginsToAppend(h)
    /\ UNCHANGED <<is_released_, spawned, dialogue_, asked, answers>>

BeginsAnswer(h) ==
    /\ Goes(h, "answered", "adding_answer")
    /\ BeginsToAppend(h)
    /\ UNCHANGED <<is_released_, spawned, dialogue_, asked, answers>>

\* Mutant: the answer goes behind the dialogue as it was asked.
AddsAnswerToAsked(h) ==
    /\ Goes(h, "adding_answer", "done")
    /\ dialogue_' = Append(asked[h], Entry("assistant", h))
    /\ seen' = [seen EXCEPT ![h] = <<>>]
    /\ UNCHANGED <<is_released_, spawned, asked, answers, raced>>

AddsAnswer(h) ==
    /\ Goes(h, "adding_answer", "done")
    /\ Appends(h, Entry("assistant", h))
    /\ UNCHANGED <<is_released_, spawned, asked, answers, raced>>

\* The steps that push a sentence, and the others.
Speaks(h) == PushesSentence(h) \/ PushesRest(h)
Converses(h) ==
    \/ RecognisesExit(h) \/ BeginsQuestion(h) \/ AddsQuestion(h)
    \/ BeginsToAsk(h) \/ Asks(h) \/ ReadThrows(h) \/ AnswerEnds(h) \/ Fails(h)
    \/ BeginsAnswer(h) \/ AddsAnswer(h) \/ Crashes(h)

Handles(h) == Speaks(h) \/ Converses(h)

Handled(h) == handler[h] \in {"done", "failed", "exited"}

\* All utterances are handled and no other comes, or the process has ended.
Ended ==
    /\ ~Alive \/ \A h \in Handler : h <= spawned => Handled(h)
    /\ UNCHANGED vars

Next == Spawn \/ Release \/ (\E h \in Handler : Handles(h)) \/ Ended

Spec == Init /\ [][Next]_vars

\* The pool runs every handler, and the language model's answer ends or its
\* connection fails (each read of it has a limit of 30 s).
Fairness ==
    \A h \in Handler :
        /\ WF_vars(RecognisesExit(h) \/ BeginsQuestion(h))
        /\ WF_vars(AddsQuestion(h) \/ BeginsToAsk(h) \/ Asks(h))
        /\ WF_vars(AnswerEnds(h) \/ Fails(h))
        /\ WF_vars(BeginsAnswer(h) \/ AddsAnswer(h))

FairSpec == Spec /\ Fairness

-----------------------------------------------------------------------------
(* Properties *)

\* Type invariant.
TypeOK ==
    /\ is_released_ \in BOOLEAN
    /\ spawned \in 0..MaxHandlers
    /\ handler \in [Handler -> HandlerPc]
    /\ dialogue_ \in Seq([role : Roles, of : Handler])
    /\ seen \in [Handler -> Seq([role : Roles, of : Handler])]
    /\ asked \in [Handler -> Seq([role : Roles, of : Handler])]
    /\ answers \in Seq(Handler)
    /\ raced \in BOOLEAN

EntriesOf(h) ==
    (IF handler[h] \in {"asking", "reading_dialogue", "answering", "answered",
                       "adding_answer", "done", "failed"} THEN {Entry("user", h)} ELSE {})
    \union (IF handler[h] = "done" THEN {Entry("assistant", h)} ELSE {})

Entries(d) == {d[i] : i \in DOMAIN d}

\* The handlers share dialogue_ while their answers are awaited, and still no
\* question and no answer is lost or doubled, every answer stands behind its
\* question, and every provider reads its handler's question, as long as no
\* push_back overlaps another push_back or a provider's reading: a lock around
\* these accesses would do.
OnlyRacesLoseEntries ==
    ~raced /\ Alive =>
        /\ Entries(dialogue_) = UNION {EntriesOf(h) : h \in Handler}
        /\ \A i, j \in DOMAIN dialogue_ : dialogue_[i] = dialogue_[j] => i = j
        /\ \A i, j \in DOMAIN dialogue_ : \A h \in Handler :
             dialogue_[i] = Entry("user", h) /\ dialogue_[j] = Entry("assistant", h)
               => i < j
        /\ \A h \in Handler :
             handler[h] \in {"answering", "answered", "adding_answer", "done"}
               => Entry("user", h) \in Entries(asked[h])

\* Every utterance handed over is answered, refused by the language model, or
\* ends the connection, unless the process ends; no handler waits for another.
EveryUtteranceIsHandled ==
    \A h \in Handler : spawned >= h ~> Handled(h) \/ ~Alive
=============================================================================
