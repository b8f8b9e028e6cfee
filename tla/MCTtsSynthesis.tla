--------------------------- MODULE MCTtsSynthesis ---------------------------
\* Packets of 20 ms, which divide a frame, and of 40 ms, which do not.
EXTENDS TtsSynthesis

MCDurations == {2, 4}
=============================================================================
