-------------------------- MODULE MCWebhookIngest --------------------------
(* Instances of WebhookIngest for TLC.                                     *)
EXTENDS WebhookIngest, TLC

CONSTANTS d1, d2, a1, a2, m1, o1

\* Two deliveries of one message, two acks of another.
AboutAll == [d \in Delivery |-> IF d \in Inbound THEN m1 ELSE o1]
SentThenRead == [a \in Ack |-> IF a = a1 THEN "Sent" ELSE "Read"]
\* The gateway delivers d1 up to twice, everything else once.
FirstTwice == [d \in Delivery |-> IF d = d1 THEN 2 ELSE 1]
=============================================================================
