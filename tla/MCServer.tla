------------------------------ MODULE MCServer ------------------------------
\* Two clients, one of whom may be silent, on one thread or two.
EXTENDS Server
=============================================================================
