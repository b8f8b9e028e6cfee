--------------------------- MODULE MCSpeechInput ---------------------------
(* A small instance of SpeechInput. *)
EXTENDS SpeechInput

\* Paraformer loses undecodable frames and may find no text; BytedanceV2 may
\* lose its connection and with it the stream, and an unreadable answer throws.
AllFaults == {"frame_lost", "stream_lost", "no_text", "throws"}
=============================================================================
