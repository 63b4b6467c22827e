--------------------------- MODULE MCMessageSend ---------------------------
(* Instances of MessageSend for TLC: an account with two sessions, s1 its   *)
(* default.                                                                *)
EXTENDS MessageSend, TLC

CONSTANTS s1, s2

Base == [openwa |-> TRUE, mode |-> "", allow |-> TRUE, queue |-> FALSE, fallback |-> TRUE,
         linked |-> Session, default |-> {s1}, ext |-> None]
\* The modes, with and without queueing and fallback.
ModeWorlds == {[Base EXCEPT !.mode = mode, !.queue = q, !.fallback = ~q] :
                  mode \in {"", "Message-level", "Hybrid"}, q \in BOOLEAN}
\* No session linked, no default session, an account of Meta's.
OddWorlds == {[Base EXCEPT !.linked = {}, !.default = {}, !.ext = s1],
              [Base EXCEPT !.default = {}, !.queue = TRUE],
              [Base EXCEPT !.openwa = FALSE, !.mode = "Message-level"]}
SomeWorlds == ModeWorlds \cup OddWorlds

Plain == [asks |-> "", mode |-> "", pool |-> {}, random |-> FALSE]
Campaign == [Plain EXCEPT !.mode = "Message-level", !.pool = {s2}]
OneNumber == [Plain EXCEPT !.mode = "Account-level", !.pool = {s2}]
Ways == {[via |-> "document", req |-> r] : r \in {Plain, Campaign, OneNumber}}
          \cup {[via |-> "notification", req |-> [Plain EXCEPT !.random = TRUE]],
                [via |-> "api", req |-> [Plain EXCEPT !.asks = "openwa"]]}

MessageSymmetry == Permutations(Message)
=============================================================================
