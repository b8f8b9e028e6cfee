---------------------------- MODULE Segmentation ----------------------------
(***************************************************************************)
(* How an answer becomes sentences: the callback of handle_asr_text and       *)
(* push_llm_response (connection.cpp), find_last_segment and is_segment        *)
(* (common/tools.cpp).                                                      *)
(*                                                                         *)
(* A message is a sequence of bytes; bytes the code does not tell apart are     *)
(* one: "a" (ASCII, no mark), "," (a mark), " " (white space), z1 z2 z3 (a        *)
(* Chinese character) and m1 m2 m3 (a Chinese mark).  A position counts the      *)
(* bytes before it.  A sentence that was pushed is the pair of its ends in the    *)
(* message, which only grows.                                               *)
(***************************************************************************)
EXTENDS Integers, Sequences, FiniteSetsExt

CONSTANTS Pieces,    \* what the language model hands over at a time
          MaxBytes,  \* of a message at most
          SizeMax    \* size_t is a number modulo this

Byte == {"a", ",", " ", "z1", "z2", "z3", "m1", "m2", "m3"}

\* The bytes that begin a character, and that end one.
IsBegin(b) == b \in {"a", ",", " ", "z1", "m1"}
IsEnd(b) == b \in {"a", ",", " ", "z3", "m3"}

\* x and y are neighbours wherever one of them is.
Together(s, x, y) ==
    \A i \in 1..Len(s) : /\ s[i] = x => i + 1 <= Len(s) /\ s[i + 1] = y
                         /\ s[i] = y => i - 1 >= 1 /\ s[i - 1] = x

IsText(s) ==
    Together(s, "z1", "z2") /\ Together(s, "z2", "z3")
    /\ Together(s, "m1", "m2") /\ Together(s, "m2", "m3")

\* JSON strings hold whole characters; no message fills the memory.
ASSUME SegmentationAssumption ==
    /\ Pieces \subseteq Seq(Byte) /\ \A s \in Pieces : IsText(s)
    /\ MaxBytes \in Nat /\ SizeMax \in Nat /\ SizeMax > MaxBytes

VARIABLES
    message, pos,   \* the locals of handle_asr_text
    llm_response_,  \* the sentences pushed
    pc              \* where handle_asr_text is

vars == <<message, pos, llm_response_, pc>>

Init ==
    /\ message = <<>> /\ pos = 0
    /\ llm_response_ = <<>>
    /\ pc = "answering"

is_segment(b) == IF b = "," THEN "EN" ELSE IF b = "m1" THEN "CHINESE" ELSE "NONE"

\* The end of the last mark, or npos where there is none.
npos == 0

\* Mutant: a Chinese mark taken for one byte.
FirstByteOfMark(s) ==
    LET marks == {i \in DOMAIN s : is_segment(s[i]) # "NONE"}
    IN  IF marks = {} THEN npos ELSE Max(marks)

find_last_segment(s) ==
    LET marks == {i \in DOMAIN s : is_segment(s[i]) # "NONE"}
        last == Max(marks)
    IN  IF marks = {} THEN npos
        ELSE IF is_segment(s[last]) = "CHINESE" THEN last + 2 ELSE last

\* regex_replace takes leading white space away; its second alternative, with the
\* asterisks and hashes, wants a character behind the end and never matches.
InkFrom(s, a, b) == Min({f \in a..b : f = b \/ s[f + 1] # " "})

push_llm_response(queue, s, a, b) ==
    LET from == InkFrom(s, a, b)
    IN  IF from < b THEN Append(queue, <<from, b>>) ELSE queue

\* Mutant: the next sentence begins with the mark of the last.
BeginsAtMark(p) == p - 1

NextSentence(p) == p

\* The callback: p - pos + 1 in size_t must be more than 6 bytes.
Takes(piece) ==
    /\ pc = "answering" /\ Len(message) + Len(piece) <= MaxBytes
    /\ message' = message \o piece
    /\ LET p == find_last_segment(message')
       IN  IF p # npos /\ (p - pos) % SizeMax > 6
           THEN /\ llm_response_' = push_llm_response(llm_response_, message', pos, p)
                /\ pos' = NextSentence(p)
           ELSE UNCHANGED <<pos, llm_response_>>
    /\ UNCHANGED pc

\* response() returns; what is left is pushed.
Finishes ==
    /\ pc = "answering"
    /\ pc' = "done"
    /\ llm_response_' = IF pos < Len(message)
                        THEN push_llm_response(llm_response_, message, pos, Len(message))
                        ELSE llm_response_
    /\ UNCHANGED <<message, pos>>

\* response() throws; what is left is forgotten.
Fails ==
    /\ pc = "answering"
    /\ pc' = "failed"
    /\ UNCHANGED <<message, pos, llm_response_>>

Ended == pc # "answering" /\ UNCHANGED vars

Next == (\E piece \in Pieces : Takes(piece)) \/ Finishes \/ Fails \/ Ended

Spec == Init /\ [][Next]_vars
-----------------------------------------------------------------------------
(* Properties *)

\* What has been handed to the queue, or dropped as white space.
HandedOver == IF pc = "done" THEN Len(message) ELSE pos

\* However the answer is cut into pieces, the sentences are that answer: they
\* follow each other, none has a byte of another, and what no sentence has is white
\* space or has not been reached.
SentencesAreTheAnswer ==
    /\ \A k \in DOMAIN llm_response_ :
         /\ llm_response_[k][1] < llm_response_[k][2]
         /\ llm_response_[k][2] <= HandedOver
         /\ \A l \in DOMAIN llm_response_ :
              k < l => llm_response_[k][2] <= llm_response_[l][1]
    /\ \A i \in 1..HandedOver :
         \/ message[i] = " "
         \/ \E k \in DOMAIN llm_response_ : i > llm_response_[k][1] /\ i <= llm_response_[k][2]

\* The cut is found byte by byte from the end, and yet no sentence begins or ends
\* inside a character; and none but the last lacks its mark.
NoCharacterIsCut ==
    \A k \in DOMAIN llm_response_ :
      /\ IsBegin(message[llm_response_[k][1] + 1]) /\ IsEnd(message[llm_response_[k][2]])
      /\ message[llm_response_[k][2]] \in {",", "m3"}
         \/ (pc = "done" /\ k = Len(llm_response_))
=============================================================================
