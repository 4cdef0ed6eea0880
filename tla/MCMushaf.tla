------------------------------ MODULE MCMushaf -------------------------------
(* Editions of two pages; one begins at its second.                        *)
EXTENDS Mushaf

FirstPages == [e \in Edition |-> IF e = CHOOSE x \in Edition : TRUE THEN 1 ELSE 2]
LastPages == [e \in Edition |-> FirstPages[e] + 1]
=============================================================================
