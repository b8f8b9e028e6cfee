----------------------------- MODULE MCDialogue -----------------------------
(* A small instance of Dialogue: two utterances, handled at the same time. *)
EXTENDS Dialogue
=============================================================================
