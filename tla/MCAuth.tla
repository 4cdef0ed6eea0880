------------------------------- MODULE MCAuth -------------------------------
(* A small instance of Auth.                                               *)
EXTENDS Auth

\* "Never", the shortest delay and one that is longer than it by more than
\* one minute, so that a timer kept from before a change shows.
Delays == {0, 1, 3}
=============================================================================
