------------------------------ MODULE MC_Wire ------------------------------
EXTENDS Wire

\* As shorts of three bits: bodies of 0 and of MAX_LENGTH = 2 bytes, a length
\* that is too long (3), -2 and -1, and an id that is too large.
MCHeads == [id : {1}, len : {0, 2, 3, 6, 7}] \cup [id : {3}, len : {0}]
=============================================================================
