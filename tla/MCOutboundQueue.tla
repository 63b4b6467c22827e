-------------------------- MODULE MCOutboundQueue --------------------------
(* Instances of OutboundQueue for TLC.                                     *)
EXTENDS OutboundQueue, TLC

\* Two attempts; a retry comes one unit after the first failure.
ShortBackoff == <<0, 1>>
\* _BACKOFF_MINUTES as shipped.
ShippedBackoff == <<0, 1, 3, 10, 30, 60>>

Symmetry == Permutations(Row) \cup Permutations(Worker)
=============================================================================
