--------------------------- MODULE MCRecognisers ---------------------------
\* Packets of 40 and of 60 ms; weights from none to a whole token per row.
EXTENDS Recognisers

MCDurations == {8, 12}
MCWeightings == {<<0, 13, 7, 20, 19>>}
=============================================================================
