--------------------------- MODULE DialogueProofs ---------------------------
(***************************************************************************)
(* Theorems about Dialogue for any number of handlers and sentences.            *)
(***************************************************************************)
EXTENDS Dialogue, SequenceTheorems, TLAPS

EntrySet == [role : Roles, of : Handler]

\* What every action does to the places of the handlers, and what it leaves alone.
LEMMA Moves ==
    ASSUME TypeOK, NEW h \in Handler, NEW from \in HandlerPc, NEW to \in HandlerPc,
           Goes(h, from, to)
    PROVE  /\ handler' \in [Handler -> HandlerPc] /\ handler[h] = from /\ handler'[h] = to
           /\ \A g \in Handler : g # h => handler'[g] = handler[g]
  BY DEF Goes, TypeOK

LEMMA TypeInit == Init => TypeOK
  <1>1. \A S : <<>> \in Seq(S)
    BY EmptySeq
  <1>2. 0 \in 0..MaxHandlers
    BY DialogueAssumption
  <1>3. "ready" \in HandlerPc
    BY DEF HandlerPc
  <1> QED
    BY <1>1, <1>2, <1>3 DEF Init, TypeOK

\* An entry behind a dialogue.
LEMMA EntryAppended ==
    ASSUME NEW d \in Seq(EntrySet), NEW e \in EntrySet
    PROVE  /\ Append(d, e) \in Seq(EntrySet)
           /\ Len(d) \in Nat /\ Len(Append(d, e)) = Len(d) + 1
           /\ \A i \in 1..Len(d) : Append(d, e)[i] = d[i]
           /\ Append(d, e)[Len(d) + 1] = e
           /\ Entries(Append(d, e)) = Entries(d) \union {e}
  <1>1. /\ Append(d, e) \in Seq(EntrySet) /\ Len(d) \in Nat
        /\ Len(Append(d, e)) = Len(d) + 1
        /\ \A i \in 1..Len(d) : Append(d, e)[i] = d[i]
        /\ Append(d, e)[Len(d) + 1] = e
    BY AppendProperties, LenProperties
  <1>2. DOMAIN d = 1..Len(d) /\ DOMAIN Append(d, e) = 1..Len(d) + 1
    BY <1>1, LenProperties
  <1>3. 1..Len(d) + 1 = 1..Len(d) \union {Len(d) + 1}
    BY <1>1
  <1>4. Entries(Append(d, e)) = {Append(d, e)[i] : i \in 1..Len(d)} \union {e}
    BY <1>1, <1>2, <1>3 DEF Entries
  <1> QED
    BY <1>1, <1>2, <1>4 DEF Entries

LEMMA TypeStep == ASSUME TypeOK, [Next]_vars PROVE TypeOK'
  <1>1. CASE Spawn
    <2>1. spawned' \in 0..MaxHandlers
      BY <1>1, DialogueAssumption DEF Spawn, TypeOK
    <2> QED
      BY <1>1, <2>1 DEF Spawn, TypeOK, dialogueVars
  <1>2. CASE Release
    BY <1>2 DEF Release, TypeOK, dialogueVars
  <1>3. ASSUME NEW h \in Handler, Handles(h) PROVE TypeOK'
    <2>1. handler' \in [Handler -> HandlerPc]
      BY <1>3 DEF Handles, Speaks, Converses, RecognisesExit, BeginsQuestion, AddsQuestion, BeginsToAsk,
      Asks, ReadThrows, PushesSentence, PushesRest, AnswerEnds, Fails, BeginsAnswer,
      AddsAnswer, Crashes, Goes, TypeOK, HandlerPc
    <2>2. dialogue_' \in Seq(EntrySet) /\ seen' \in [Handler -> Seq(EntrySet)]
          /\ asked' \in [Handler -> Seq(EntrySet)]
      <3>1. Entry("user", h) \in EntrySet /\ Entry("assistant", h) \in EntrySet
        BY DEF Entry, EntrySet, Roles
      <3>2. /\ dialogue_ \in Seq(EntrySet) /\ seen \in [Handler -> Seq(EntrySet)]
            /\ asked \in [Handler -> Seq(EntrySet)] /\ <<>> \in Seq(EntrySet)
        BY EmptySeq DEF TypeOK, EntrySet
      <3>3. \A found \in Seq(EntrySet) : /\ Append(found, Entry("user", h)) \in Seq(EntrySet)
                                       /\ Append(found, Entry("assistant", h)) \in Seq(EntrySet)
        BY <3>1, EntryAppended
      <3>4. CASE AddsQuestion(h) \/ AddsAnswer(h)
        <4>1. PICK entry \in {Entry("user", h), Entry("assistant", h)} : Appends(h, entry)
          BY <3>4 DEF AddsQuestion, AddsAnswer
        <4>2. PICK found \in {seen[h]} \union (IF raced THEN {dialogue_} ELSE {}) :
                dialogue_' = Append(found, entry)
          BY <4>1 DEF Appends
        <4>3. found \in Seq(EntrySet)
          BY <3>2, <4>2
        <4> QED
          BY <3>2, <3>3, <3>4, <4>1, <4>2, <4>3 DEF AddsQuestion, AddsAnswer, Appends
      <3>5. CASE BeginsQuestion(h) \/ BeginsAnswer(h) \/ BeginsToAsk(h)
        BY <3>2, <3>5 DEF BeginsQuestion, BeginsAnswer, BeginsToAppend, BeginsToAsk
      <3>6. CASE Asks(h) \/ ReadThrows(h)
        BY <3>2, <3>6 DEF Asks, ReadThrows
      <3>7. CASE RecognisesExit(h) \/ Speaks(h) \/ AnswerEnds(h) \/ Fails(h) \/ Crashes(h)
        BY <3>2, <3>7 DEF RecognisesExit, Speaks, PushesSentence, PushesRest, AnswerEnds,
                          Fails, Crashes
      <3> QED
        BY <1>3, <3>4, <3>5, <3>6, <3>7 DEF Handles, Converses
    <2>4. answers' \in Seq(Handler)
      <3>1. Append(answers, h) \in Seq(Handler)
        BY AppendProperties DEF TypeOK
      <3> QED
        BY <1>3, <3>1 DEF Handles, Speaks, Converses, RecognisesExit, BeginsQuestion, AddsQuestion, BeginsToAsk,
      Asks, ReadThrows, PushesSentence, PushesRest, AnswerEnds, Fails, BeginsAnswer,
      AddsAnswer, Crashes, TypeOK
    <2>5. raced' \in BOOLEAN
      BY <1>3, Zenon DEF Handles, Speaks, Converses, RecognisesExit, BeginsQuestion, AddsQuestion, BeginsToAsk,
      Asks, ReadThrows, PushesSentence, PushesRest, AnswerEnds, Fails, BeginsAnswer,
      AddsAnswer, Crashes,
           BeginsToAppend, TypeOK
    <2>6. spawned' = spawned /\ is_released_' \in BOOLEAN
      BY <1>3 DEF Handles, Speaks, Converses, RecognisesExit, BeginsQuestion, AddsQuestion, BeginsToAsk,
      Asks, ReadThrows, PushesSentence, PushesRest, AnswerEnds, Fails, BeginsAnswer,
      AddsAnswer, Crashes, TypeOK
    <2> QED
      BY <2>1, <2>2, <2>4, <2>5, <2>6 DEF TypeOK, EntrySet
  <1>4. CASE Ended \/ UNCHANGED vars
    BY <1>4 DEF Ended, vars, TypeOK, dialogueVars
  <1> QED
    BY <1>1, <1>2, <1>3, <1>4 DEF Next

\* The types of the handlers and of the dialogue they share.
THEOREM TypeCorrect == Spec => []TypeOK
  BY TypeInit, TypeStep, PTL DEF Spec

-----------------------------------------------------------------------------
(* The entries *)

\* The places where the question of a handler is in the dialogue, and those where
\* its provider has read it there.
Asked == {"asking", "reading_dialogue", "answering", "answered", "adding_answer", "done", "failed"}
Read == {"answering", "answered", "adding_answer", "done"}

\* Unless accesses have overlapped: while a push_back is under way nothing else is,
\* it has found the array as it is, and the entries are those that the handlers'
\* places tell, the answers behind their questions.
EntriesInv ==
    ~raced /\ Alive =>
      /\ \A g, h \in Handler : handler[g] \in Accessing /\ handler[h] \in Appending => g = h
      /\ \A h \in Handler : handler[h] \in Appending => seen[h] = dialogue_
      /\ \A e \in EntrySet :
           e \in Entries(dialogue_) <=>
             \/ e.role = "user" /\ handler[e.of] \in Asked
             \/ e.role = "assistant" /\ handler[e.of] = "done"
      /\ \A i, j \in 1..Len(dialogue_) : dialogue_[i] = dialogue_[j] => i = j
      /\ \A i, j \in 1..Len(dialogue_) : \A h \in Handler :
           dialogue_[i] = Entry("user", h) /\ dialogue_[j] = Entry("assistant", h) => i < j
      /\ \A h \in Handler : handler[h] \in Read => Entry("user", h) \in Entries(asked[h])

LEMMA EntriesInit == Init => EntriesInv
  <1> SUFFICES ASSUME Init PROVE EntriesInv
    OBVIOUS
  <1>1. Len(<<>>) = 0 /\ 1..0 = {} /\ Entries(<<>>) = {}
    BY DEF Entries
  <1>2. \A h \in Handler : handler[h] = "ready"
    BY DEF Init
  <1>3. \A e \in EntrySet : e.of \in Handler
    BY DEF EntrySet
  <1> QED
    BY <1>1, <1>2, <1>3 DEF Init, EntriesInv, Appending, Accessing, Asked, Read

\* A step that begins no access and adds no entry.
LEMMA QuietStep ==
    ASSUME TypeOK, EntriesInv, NEW h \in Handler, NEW from \in HandlerPc, NEW to \in HandlerPc,
           Goes(h, from, to), dialogue_' = dialogue_,
           \A g \in Handler : g # h => seen'[g] = seen[g],
           asked' = asked, raced' = raced, to \notin Accessing,
           from \in Asked <=> to \in Asked, from # "done", to # "done",
           to \in Read => from \in Read
    PROVE  EntriesInv'
  <1>1. /\ handler[h] = from /\ handler'[h] = to
        /\ \A g \in Handler : g # h => handler'[g] = handler[g]
    BY Moves
  <1>2. \A g \in Handler : /\ handler'[g] \in Accessing => g # h /\ handler[g] \in Accessing
                           /\ handler'[g] \in Appending => g # h /\ handler[g] \in Appending
                           /\ handler'[g] \in Asked <=> handler[g] \in Asked
                           /\ handler'[g] = "done" <=> handler[g] = "done"
                           /\ handler'[g] \in Read => handler[g] \in Read
    BY <1>1 DEF Accessing
  <1>3. \A e \in EntrySet : e.of \in Handler
    BY DEF EntrySet
  <1>4. Alive
    BY DEF Goes
  <1> QED
    BY <1>2, <1>3, <1>4 DEF EntriesInv

\* An access begins: a push_back, which nothing else may overlap, or a reading,
\* which no push_back may.
LEMMA BeginStep ==
    ASSUME TypeOK, EntriesInv, NEW h \in Handler, NEW from \in HandlerPc, NEW to \in Accessing,
           Goes(h, from, to), dialogue_' = dialogue_, asked' = asked,
           seen' = [seen EXCEPT ![h] = dialogue_],
           ~raced' => ~raced /\ \A g \in Handler :
             handler[g] \notin Appending /\ (to \in Appending => handler[g] \notin Accessing),
           from \in Asked <=> to \in Asked, from # "done", to \in Read => from \in Read
    PROVE  EntriesInv'
  <1>1. to \in HandlerPc
    BY DEF Accessing, Appending, HandlerPc
  <1>2. /\ handler[h] = from /\ handler'[h] = to /\ Alive
        /\ \A g \in Handler : g # h => handler'[g] = handler[g]
    BY <1>1, Moves DEF Goes
  <1>3. SUFFICES ASSUME ~raced' PROVE EntriesInv'
    BY DEF EntriesInv
  <1>4. ~raced /\ \A g \in Handler : /\ handler[g] \notin Appending
                                     /\ to \in Appending => handler[g] \notin Accessing
    BY <1>3
  <1>5. \A g, k \in Handler : handler'[g] \in Accessing /\ handler'[k] \in Appending => g = k
    <2> SUFFICES ASSUME NEW g \in Handler, NEW k \in Handler,
                        handler'[g] \in Accessing, handler'[k] \in Appending
                 PROVE  g = k
      OBVIOUS
    <2>1. k = h /\ to \in Appending
      BY <1>2, <1>4
    <2>2. g = h
      BY <1>2, <1>4, <2>1
    <2> QED
      BY <2>1, <2>2
  <1>6. \A g \in Handler : handler'[g] \in Appending => seen'[g] = dialogue_'
    <2>1. \A g \in Handler : handler'[g] \in Appending => g = h
      BY <1>2, <1>4
    <2>2. seen'[h] = dialogue_'
      BY DEF TypeOK
    <2> QED
      BY <2>1, <2>2
  <1>7. \A g \in Handler : /\ handler'[g] \in Asked <=> handler[g] \in Asked
                           /\ handler'[g] = "done" <=> handler[g] = "done"
                           /\ handler'[g] \in Read => handler[g] \in Read
    BY <1>2 DEF Accessing, Appending
  <1>8. \A e \in EntrySet : e.of \in Handler
    BY DEF EntrySet
  <1> QED
    BY <1>2, <1>4, <1>5, <1>6, <1>7, <1>8 DEF EntriesInv

\* A push_back ends: the entry was not there yet.
LEMMA AppendStep ==
    ASSUME TypeOK, EntriesInv, NEW h \in Handler, NEW from \in HandlerPc, NEW to \in HandlerPc,
           NEW role \in Roles, Goes(h, from, to), Appends(h, Entry(role, h)),
           asked' = asked, raced' = raced,
           <<role, from, to>> = <<"user", "adding_question", "asking">>
           \/ <<role, from, to>> = <<"assistant", "adding_answer", "done">>
    PROVE  EntriesInv'
  <1>1. /\ handler[h] = from /\ handler'[h] = to
        /\ \A g \in Handler : g # h => handler'[g] = handler[g]
    BY Moves
  <1>2. SUFFICES ASSUME ~raced PROVE EntriesInv'
    BY DEF EntriesInv
  <1>3. from \in Appending /\ to \notin Accessing /\ Alive
    BY DEF Appending, Accessing, Goes
  <1>4. seen[h] = dialogue_ /\ \A g \in Handler : handler[g] \in Accessing => g = h
    BY <1>1, <1>2, <1>3 DEF EntriesInv
  <1>5. dialogue_' = Append(dialogue_, Entry(role, h))
    BY <1>4 DEF Appends
  <1>6. Entry(role, h) \in EntrySet /\ dialogue_ \in Seq(EntrySet)
        /\ Entry(role, h).role = role /\ Entry(role, h).of = h
    BY DEF Entry, EntrySet, TypeOK
  <1>7. Entry(role, h) \notin Entries(dialogue_)
    BY <1>1, <1>2, <1>3, <1>6 DEF EntriesInv, Asked
  <1>8. /\ Len(dialogue_) \in Nat /\ Len(dialogue_') = Len(dialogue_) + 1
        /\ \A i \in 1..Len(dialogue_) : dialogue_'[i] = dialogue_[i]
        /\ dialogue_'[Len(dialogue_) + 1] = Entry(role, h)
        /\ Entries(dialogue_') = Entries(dialogue_) \union {Entry(role, h)}
    BY <1>5, <1>6, EntryAppended
  <1>9. \A g \in Handler : handler'[g] \notin Appending
    BY <1>1, <1>3, <1>4 DEF Accessing
  <1>10. ASSUME NEW e \in EntrySet
         PROVE  e \in Entries(dialogue_') <=>
                  \/ e.role = "user" /\ handler'[e.of] \in Asked
                  \/ e.role = "assistant" /\ handler'[e.of] = "done"
    <2>1. e.of \in Handler /\ e.role \in Roles /\ e = [role |-> e.role, of |-> e.of]
      BY DEF EntrySet
    <2>2. e = Entry(role, h) <=> e.role = role /\ e.of = h
      BY <2>1 DEF Entry
    <2>3. e \in Entries(dialogue_) <=>
            \/ e.role = "user" /\ handler[e.of] \in Asked
            \/ e.role = "assistant" /\ handler[e.of] = "done"
      BY <1>2, <1>3 DEF EntriesInv
    <2>4. CASE e.of = h
      BY <1>1, <1>8, <2>1, <2>2, <2>3, <2>4 DEF Asked, Roles
    <2>5. CASE e.of # h
      BY <1>1, <1>8, <2>1, <2>2, <2>3, <2>5
    <2> QED
      BY <2>4, <2>5
  <1>11. ASSUME NEW i \in 1..Len(dialogue_'), NEW j \in 1..Len(dialogue_'),
                dialogue_'[i] = dialogue_'[j]
         PROVE  i = j
    <2>1. \A k \in 1..Len(dialogue_') : k \in 1..Len(dialogue_) \/ k = Len(dialogue_) + 1
      BY <1>8
    <2>2. \A k \in 1..Len(dialogue_) : dialogue_[k] # Entry(role, h)
      <3>1. DOMAIN dialogue_ = 1..Len(dialogue_)
        BY <1>6, LenProperties
      <3> QED
        BY <1>7, <3>1 DEF Entries
    <2>3. CASE i \in 1..Len(dialogue_) /\ j \in 1..Len(dialogue_)
      BY <1>2, <1>3, <1>8, <1>11, <2>3 DEF EntriesInv
    <2>4. CASE i = Len(dialogue_) + 1 /\ j \in 1..Len(dialogue_)
      BY <1>8, <1>11, <2>2, <2>4
    <2>5. CASE i \in 1..Len(dialogue_) /\ j = Len(dialogue_) + 1
      BY <1>8, <1>11, <2>2, <2>5
    <2> QED
      BY <2>1, <2>3, <2>4, <2>5
  <1>12. ASSUME NEW i \in 1..Len(dialogue_'), NEW j \in 1..Len(dialogue_'), NEW g \in Handler,
                dialogue_'[i] = Entry("user", g), dialogue_'[j] = Entry("assistant", g)
         PROVE  i < j
    <2>1. \A k \in 1..Len(dialogue_') : k \in 1..Len(dialogue_) \/ k = Len(dialogue_) + 1
      BY <1>8
    <2>2. CASE i \in 1..Len(dialogue_) /\ j \in 1..Len(dialogue_)
      BY <1>2, <1>3, <1>8, <1>12, <2>2 DEF EntriesInv
    <2>3. CASE j = Len(dialogue_) + 1
      <3>1. i # j
        BY <1>12 DEF Entry
      <3> QED
        BY <1>8, <2>1, <2>3, <3>1
    <2>4. CASE i = Len(dialogue_) + 1 /\ j \in 1..Len(dialogue_)
      <3>1. Entry("user", g) = Entry(role, h) /\ dialogue_[j] = Entry("assistant", g)
        BY <1>8, <1>12, <2>4
      <3>2. g = h /\ handler[h] # "done"
        BY <1>1, <3>1 DEF Entry
      <3>3. Entry("assistant", h) \in EntrySet /\ Entry("assistant", h).of = h
            /\ Entry("assistant", h).role # "user"
        BY DEF Entry, EntrySet, Roles
      <3>4. DOMAIN dialogue_ = 1..Len(dialogue_)
        BY <1>6, LenProperties
      <3>5. Entry("assistant", h) \in Entries(dialogue_)
        BY <2>4, <3>1, <3>2, <3>4 DEF Entries
      <3> QED
        BY <1>2, <1>3, <3>2, <3>3, <3>5 DEF EntriesInv
    <2> QED
      BY <2>1, <2>2, <2>3, <2>4
  <1>13. \A g \in Handler : handler'[g] \in Read => handler[g] \in Read
    BY <1>1 DEF Read
  <1>14. \A g \in Handler : handler'[g] \in Read => Entry("user", g) \in Entries(asked'[g])
    BY <1>2, <1>3, <1>13 DEF EntriesInv
  <1> QED
    BY <1>9, <1>10, <1>11, <1>12, <1>14 DEF EntriesInv

\* The reading ends: the dialogue is as it is, and has the question in it.
LEMMA AskStep == ASSUME TypeOK, EntriesInv, NEW h \in Handler, Asks(h) PROVE EntriesInv'
  <1>1. "reading_dialogue" \in HandlerPc /\ "answering" \in HandlerPc
    BY DEF HandlerPc
  <1>2. /\ handler[h] = "reading_dialogue" /\ handler'[h] = "answering" /\ Alive
        /\ \A g \in Handler : g # h => handler'[g] = handler[g]
    BY <1>1, Moves DEF Asks, Goes
  <1>3. /\ dialogue_' = dialogue_ /\ raced' = raced
        /\ \A g \in Handler : g # h => asked'[g] = asked[g] /\ seen'[g] = seen[g]
        /\ ~raced => asked'[h] = dialogue_
    BY DEF Asks, TypeOK
  <1>4. SUFFICES ASSUME ~raced PROVE EntriesInv'
    BY <1>3 DEF EntriesInv
  <1>5. \A g \in Handler : /\ handler'[g] \in Appending => g # h /\ handler[g] \in Appending
                           /\ handler'[g] \in Accessing => handler[g] \in Accessing
                           /\ handler'[g] \in Asked <=> handler[g] \in Asked
                           /\ handler'[g] = "done" <=> handler[g] = "done"
    BY <1>2 DEF Appending, Accessing, Asked
  <1>6. Entry("user", h) \in Entries(dialogue_)
    <2>1. Entry("user", h) \in EntrySet /\ Entry("user", h).role = "user"
          /\ Entry("user", h).of = h
      BY DEF Entry, EntrySet, Roles
    <2>2. "reading_dialogue" \in Asked
      BY DEF Asked
    <2> QED
      BY <1>2, <1>4, <2>1, <2>2 DEF EntriesInv
  <1>7. \A g \in Handler : handler'[g] \in Read => Entry("user", g) \in Entries(asked'[g])
    BY <1>2, <1>3, <1>4, <1>6 DEF EntriesInv
  <1>8. \A e \in EntrySet : e.of \in Handler
    BY DEF EntrySet
  <1> QED
    BY <1>2, <1>3, <1>4, <1>5, <1>7, <1>8 DEF EntriesInv

LEMMA EntriesStep == ASSUME TypeOK, EntriesInv, [Next]_vars PROVE EntriesInv'
  <1> USE DEF HandlerPc
  <1>1. CASE Spawn \/ Release \/ Ended \/ UNCHANGED vars
    BY <1>1 DEF Spawn, Release, Ended, vars, dialogueVars, EntriesInv, Alive
  <1>2. ASSUME NEW h \in Handler, Handles(h) PROVE EntriesInv'
    <2> USE DEF Appending, Accessing, Asked, Read
    <2>1. CASE RecognisesExit(h)
      BY <2>1, QuietStep DEF RecognisesExit
    <2>2. CASE BeginsQuestion(h)
      BY <2>2, BeginStep DEF BeginsQuestion, BeginsToAppend
    <2>3. CASE AddsQuestion(h)
      BY <2>3, AppendStep DEF AddsQuestion, Roles
    <2>4. CASE BeginsToAsk(h)
      BY <2>4, BeginStep DEF BeginsToAsk
    <2>5. CASE Asks(h)
      BY <2>5, AskStep
    <2>6. CASE ReadThrows(h)
      BY <2>6, QuietStep DEF ReadThrows, TypeOK
    <2>7. CASE PushesSentence(h)
      BY <2>7, QuietStep DEF PushesSentence
    <2>8. CASE PushesRest(h)
      BY <2>8, QuietStep DEF PushesRest
    <2>9. CASE AnswerEnds(h)
      BY <2>9, QuietStep DEF AnswerEnds
    <2>10. CASE Fails(h)
      BY <2>10, QuietStep DEF Fails
    <2>11. CASE BeginsAnswer(h)
      BY <2>11, BeginStep DEF BeginsAnswer, BeginsToAppend
    <2>12. CASE AddsAnswer(h)
      BY <2>12, AppendStep DEF AddsAnswer, Roles
    <2>13. CASE Crashes(h)
      <3>1. handler'[h] = "crashed"
        BY <2>13 DEF Crashes, Goes, TypeOK
      <3> QED
        BY <3>1 DEF EntriesInv, Alive
    <2> QED
      BY <1>2, <2>1, <2>2, <2>3, <2>4, <2>5, <2>6, <2>7, <2>8, <2>9, <2>10, <2>11, <2>12,
         <2>13 DEF Handles, Speaks, Converses
  <1> QED
    BY <1>1, <1>2 DEF Next

\* As long as no push_back overlaps another push_back or a reading, no question and no
\* answer of any handler is lost, doubled or out of place, and every provider reads its
\* handler's question.
THEOREM OnlyRacesLose == Spec => []OnlyRacesLoseEntries
  <1>1. ASSUME TypeOK, EntriesInv PROVE OnlyRacesLoseEntries
    <2>1. SUFFICES ASSUME ~raced, Alive PROVE OnlyRacesLoseEntries
      BY DEF OnlyRacesLoseEntries
    <2>2. dialogue_ \in Seq(EntrySet) /\ DOMAIN dialogue_ = 1..Len(dialogue_)
      BY <1>1, LenProperties DEF TypeOK, EntrySet
    <2>3. Entries(dialogue_) \subseteq EntrySet
      BY <2>2, ElementOfSeq DEF Entries
    <2>4. \A h \in Handler : EntriesOf(h) \subseteq EntrySet
      BY DEF EntriesOf, Entry, EntrySet, Roles
    <2>5. ASSUME NEW e \in EntrySet
          PROVE  e \in Entries(dialogue_) <=> e \in UNION {EntriesOf(h) : h \in Handler}
      <3>1. e.of \in Handler /\ e.role \in Roles /\ e = [role |-> e.role, of |-> e.of]
        BY DEF EntrySet
      <3>2. \A h \in Handler : e \in EntriesOf(h) <=>
              /\ e.of = h
              /\ \/ e.role = "user" /\ handler[h] \in Asked
                 \/ e.role = "assistant" /\ handler[h] = "done"
        BY <3>1 DEF EntriesOf, Entry, Asked
      <3> QED
        BY <1>1, <2>1, <3>1, <3>2 DEF EntriesInv
    <2>6. Entries(dialogue_) = UNION {EntriesOf(h) : h \in Handler}
      BY <2>3, <2>4, <2>5
    <2>7. \A h \in Handler :
            handler[h] \in {"answering", "answered", "adding_answer", "done"}
              => Entry("user", h) \in Entries(asked[h])
      BY <1>1, <2>1 DEF EntriesInv, Read
    <2> QED
      BY <1>1, <2>1, <2>2, <2>6, <2>7 DEF OnlyRacesLoseEntries, EntriesInv
  <1> QED
    BY <1>1, TypeInit, TypeStep, EntriesInit, EntriesStep, PTL DEF Spec
=============================================================================
