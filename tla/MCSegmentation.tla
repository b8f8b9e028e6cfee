--------------------------- MODULE MCSegmentation ---------------------------
\* Pieces that are a character, a mark with what precedes or follows it, or both.
EXTENDS Segmentation

MCPieces == {<<" ">>, <<"z1", "z2", "z3">>, <<"m1", "m2", "m3">>, <<"a", ",">>,
             <<"m1", "m2", "m3", "a">>, <<"z1", "z2", "z3", ",", " ">>}
=============================================================================
