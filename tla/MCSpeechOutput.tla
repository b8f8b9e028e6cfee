--------------------------- MODULE MCSpeechOutput ---------------------------
(* Small instances of SpeechOutput. *)
EXTENDS SpeechOutput

NothingThrows == {}

AllThrow == {"starting", "synth", "audio_sent", "announcing", "stopping", "aborting"}
=============================================================================
