---------------------------- MODULE MCConnection ----------------------------
(* Small instances of Connection. *)
EXTENDS Connection

NoFaults == {}
SomeFaults == {"throws", "no_text"}

NothingThrows == {}
SomeThrow == {"synth"}
=============================================================================
