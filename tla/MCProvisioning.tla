--------------------------- MODULE MCProvisioning ---------------------------
(* Instances of Provisioning for TLC.                                      *)
EXTENDS Provisioning, TLC

\* Session names with one slug, or a document made again.
SameName == [d \in Document |-> "site-sales"]
=============================================================================
