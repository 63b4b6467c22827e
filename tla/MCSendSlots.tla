---------------------------- MODULE MCSendSlots ----------------------------
(* Instances of SendSlots for TLC.                                         *)
EXTENDS SendSlots, TLC

CONSTANTS s1, s2

\* One session with a soft cap, one without.
CapOnFirst == [s \in Session |-> IF s = s1 THEN 1 ELSE 0]
NoCap == [s \in Session |-> 0]
\* Who saves a document saves that of the session with the cap.
Capped == [d \in Saver |-> s1]
OnePerWindow == [s \in Session |-> 1]

Symmetry == Permutations(Message)
=============================================================================
