------------------------- MODULE MCSessionLifecycle -------------------------
(* Instances of SessionLifecycle for TLC.                                  *)
EXTENDS SessionLifecycle, TLC

\* The gateway comes up and goes down by itself.
UpAndDown == {"Connected", "Disconnected"}
\* It stays down.
DownOnly == {"Disconnected"}
=============================================================================
