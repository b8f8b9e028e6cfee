----------------------------- MODULE Transcript -----------------------------
(***************************************************************************)
(* What the listening half of a connection promises to the dialogue: the    *)
(* client speaks frames 1, 2, 3, ..., and now and then an utterance is       *)
(* delivered, which is a non-empty run of frames in the order they were      *)
(* spoken, every one of them spoken after all frames of the utterances       *)
(* delivered before.  Frames may be missing (audio is lost), none is ever    *)
(* heard twice, in another order, or before it was spoken.                   *)
(***************************************************************************)
EXTENDS Naturals, Sequences

VARIABLES spoken,   \* the number of the youngest frame
          said      \* the utterances delivered so far, oldest first

Last(s) == s[Len(s)]

\* The youngest frame that any delivered utterance holds.
LastSaid == IF said = <<>> THEN 0 ELSE Last(Last(said))

\* The utterances made of frames of low..high.
Utterances(low, high) ==
    {u \in UNION {[1..n -> low..high] : n \in 1..high} :
        \A i, j \in DOMAIN u : i < j => u[i] < u[j]}

Init == spoken = 0 /\ said = <<>>

Speak == spoken' = spoken + 1 /\ said' = said

Deliver ==
    /\ \E u \in Utterances(LastSaid + 1, spoken) : said' = Append(said, u)
    /\ spoken' = spoken

Next == Speak \/ Deliver

Spec == Init /\ [][Next]_<<spoken, said>>
=============================================================================
