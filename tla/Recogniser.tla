----------------------------- MODULE Recogniser -----------------------------
(***************************************************************************)
(* What a recogniser behind asr::Base promises to asr_loop, however it is    *)
(* built: it is handed frames and end marks one at a time; the text that an   *)
(* end mark brings is made of frames handed over since the last end mark, in  *)
(* order, and of all of them but for those at which something went wrong.     *)
(* A frame is its number, a text the frames it was recognised from.          *)
(***************************************************************************)
EXTENDS Naturals, Sequences

VARIABLES
    fed,    \* frames handed over so far
    held,   \* those the next text will be made from
    said    \* the texts returned for the end marks

vars == <<fed, held, said>>

Init == fed = 0 /\ held = <<>> /\ said = <<>>

\* The frame is added, or it is lost.
Feed ==
    /\ fed' = fed + 1
    /\ held' \in {Append(held, fed + 1), held, <<>>}
    /\ UNCHANGED said

\* The text of all frames held, or none.
Flush ==
    /\ said' \in {Append(said, held), Append(said, <<>>)}
    /\ held' = <<>>
    /\ UNCHANGED fed

\* The stream to the recogniser breaks.
Lose == held' = <<>> /\ UNCHANGED <<fed, said>>

Next == Feed \/ Flush \/ Lose

Spec == Init /\ [][Next]_vars
=============================================================================
