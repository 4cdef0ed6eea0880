------------------------------ MODULE MCReader ------------------------------
(* Small instances of Reader for TLC.                                      *)
EXTENDS Reader

\* One reciter lacks the last verse.
OneMissing == (Verse \X Reciter) \ {<<LastVerse, r>> : r \in Reciter \ {FirstReciter}}
=============================================================================
