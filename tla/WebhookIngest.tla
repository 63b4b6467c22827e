--------------------------- MODULE WebhookIngest ---------------------------
(***************************************************************************)
(* The inbound webhook (api/webhook.py receive, utils/idempotency.py).     *)
(*                                                                         *)
(* The gateway delivers events over HTTP and sends a delivery again, with  *)
(* the same idempotency key, until one attempt is answered with success.   *)
(* It gives up waiting at any time, so attempts of one delivery overlap.   *)
(* Every attempt is a request with a database transaction of its own; the  *)
(* claims that tell attempts of one occurrence apart are keys in Redis and *)
(* belong to no transaction.                                               *)
(*                                                                         *)
(* Two kinds of events are modelled: a message received, stored as a new   *)
(* row, and an acknowledgement, which updates the status of a message that *)
(* was sent.  Claims live for 24 hours, longer than any behaviour here.    *)
(***************************************************************************)
EXTENDS Integers, FiniteSets

CONSTANTS
    Inbound,  \* deliveries of message.received
    Ack,      \* deliveries of message.ack and message.failed
    Message,  \* messages received
    Sent,     \* messages sent, which acks are about
    About,    \* [Inbound -> Message] and [Ack -> Sent], in one function
    AckStatus,\* [Ack -> AckStatuses]: the status an ack announces
    Keyless,  \* deliveries without the header X-OpenWA-Idempotency-Key
    MaxSends, \* bound: [Delivery -> Nat]: attempts (the gateway's retryCount + 1)
    MaxFaults \* bound: requests killed

Delivery == Inbound \cup Ack
Request == UNION {{d} \X (1..MaxSends[d]) : d \in Delivery}
AckStatuses == {"Pending", "Sent", "Delivered", "Read", "Failed"}
\* A message sent has no row until its own transaction commits; it then has the
\* status "Success" (overrides/whatsapp_message.py).
NoRow == "no row"
Nothing == "nothing"
Statuses == AckStatuses \cup {"Success"}

ASSUME DeliveryAssumption ==
    /\ Inbound \cap Ack = {} /\ Message \cap Sent = {}
    /\ About \in [Delivery -> Message \cup Sent]
    /\ \A d \in Inbound : About[d] \in Message
    /\ \A d \in Ack : About[d] \in Sent
    /\ AckStatus \in [Ack -> AckStatuses]
    /\ Keyless \subseteq Delivery
ASSUME BoundAssumption == MaxSends \in [Delivery -> Nat] /\ MaxFaults \in Nat

\* Where a request is, or how it ended: answered with success ("ok",
\* "noAccount", "duplicate", "stale"), answered with an error after the failure
\* was committed ("reported") or rolled back ("raised", "refused"), or killed.
InFlight == {"arrived", "log", "handle", "store", "follow", "apply", "fail", "commit"}
Accepted == {"ok", "noAccount", "duplicate", "stale"}
Ended == Accepted \cup {"refused", "reported", "raised", "dead"}

VARIABLES
    at,      \* [Request -> "unsent", InFlight or Ended]
    claims,  \* keys in Redis
    rowOf,   \* [Request -> BOOLEAN]: its transaction inserted a message row
    stored,  \* [Message -> Nat]: committed rows
    read,    \* [Request -> status read by an ack, or Nothing]
    wrote,   \* [Request -> status its transaction wrote, or Nothing]
    status,  \* [Sent -> committed status, or NoRow]
    faults

database == <<rowOf, stored, read, wrote, status>>
vars == <<at, claims, database, faults>>

-----------------------------------------------------------------------------
(* Keys.  make_key puts the site's prefix in front of what it is given.    *)

Key == [kind : {"delivery", "message"}, id : Delivery \cup Message, prefixes : Nat]
MakeKey(key) == [key EXCEPT !.prefixes = @ + 1]

DeliveryKeyById(d) ==                             \* mutant: no event_type
    IF d \in Inbound THEN [kind |-> "message", id |-> About[d], prefixes |-> 0]
    ELSE [kind |-> "delivery", id |-> d, prefixes |-> 0]
DeliveryKey(d) == [kind |-> "delivery", id |-> d, prefixes |-> 0]
MessageKey(d) == [kind |-> "message", id |-> About[d], prefixes |-> 0]

\* claim_event: SET NX on the key with its prefix.
FreeUnprefixed(key) == key \notin claims          \* mutant: looks up the bare key
Free(key) == MakeKey(key) \notin claims
Claim(key) == claims' = claims \cup {MakeKey(key)}

\* release_event hands delete_value a key made by make_key; delete_value makes
\* a key of that, as it does for the bare names it is given elsewhere
\* (utils/cron.py:26, api/webhook.py:124).
ReleasedOnce(key) == MakeKey(key)                 \* mutant: deletes what was set
Released(key) == MakeKey(MakeKey(key))
Release(key) == claims' = claims \ {Released(key)}

-----------------------------------------------------------------------------
TypeOK ==
    /\ at \in [Request -> {"unsent"} \cup InFlight \cup Ended]
    /\ claims \subseteq Key
    /\ rowOf \in [Request -> BOOLEAN]
    /\ stored \in [Message -> Nat]
    /\ read \in [Request -> Statuses \cup {NoRow, Nothing}]
    /\ wrote \in [Request -> Statuses \cup {Nothing}]
    /\ status \in [Sent -> Statuses \cup {NoRow}]
    /\ faults \in Nat
    \* Only an open transaction holds anything.
    /\ \A r \in Request : rowOf[r] \/ wrote[r] # Nothing => at[r] \in InFlight

Init ==
    /\ at = [r \in Request |-> "unsent"]
    /\ claims = {}
    /\ rowOf = [r \in Request |-> FALSE]
    /\ stored = [m \in Message |-> 0]
    /\ read = [r \in Request |-> Nothing]
    /\ wrote = [r \in Request |-> Nothing]
    /\ status = [o \in Sent |-> NoRow]
    /\ faults = 0

Goto(r, phase) == at' = [at EXCEPT ![r] = phase]

\* The end of r's transaction.
CommitRows(r) ==
    LET about == About[r[1]] IN
    /\ stored' = IF rowOf[r] THEN [stored EXCEPT ![about] = @ + 1] ELSE stored
    /\ status' = IF wrote[r] # Nothing THEN [status EXCEPT ![about] = wrote[r]] ELSE status
    /\ rowOf' = [rowOf EXCEPT ![r] = FALSE]
    /\ wrote' = [wrote EXCEPT ![r] = Nothing]
    /\ UNCHANGED read
Rollback(r) ==
    /\ rowOf' = [rowOf EXCEPT ![r] = FALSE]
    /\ wrote' = [wrote EXCEPT ![r] = Nothing]
    /\ UNCHANGED <<stored, read, status>>

-----------------------------------------------------------------------------
(* The gateway, and receive up to its handlers.                            *)

(* The first attempt, or another when the last was not answered with       *)
(* success, or not in time.                                                *)
Deliver(r) ==
    /\ at[r] = "unsent"
    /\ \/ r[2] = 1
       \/ r[2] > 1 /\ at[<<r[1], r[2] - 1>>] \notin {"unsent"} \cup Accepted
    /\ Goto(r, "arrived")
    /\ UNCHANGED <<claims, database, faults>>

(* The rate limit, or a signature whose secret is not known yet.           *)
Refuse(r) ==
    /\ at[r] = "arrived"
    /\ Goto(r, "refused")
    /\ UNCHANGED <<claims, database, faults>>

(* A retry carries the timestamp of the first attempt.                     *)
IgnoreStale(r) ==
    /\ at[r] = "arrived"
    /\ r[2] > 1
    /\ Goto(r, "stale")
    /\ UNCHANGED <<claims, database, faults>>

(* Without an idempotency key nothing is claimed, and no attempt is a      *)
(* duplicate; release_event has nothing to give back then.                 *)
PassUnclaimed(r) ==
    /\ at[r] = "arrived"
    /\ r[1] \in Keyless
    /\ Goto(r, "log")
    /\ UNCHANGED <<claims, database, faults>>

ClaimDelivery(r) ==
    /\ at[r] = "arrived"
    /\ r[1] \notin Keyless
    /\ Free(DeliveryKey(r[1]))
    /\ Claim(DeliveryKey(r[1]))
    /\ Goto(r, "log")
    /\ UNCHANGED <<database, faults>>

IgnoreDuplicate(r) ==
    /\ at[r] = "arrived"
    /\ ~Free(DeliveryKey(r[1]))
    /\ Goto(r, "duplicate")
    /\ UNCHANGED <<claims, database, faults>>

(* The log row is inserted outside the try: a failure goes straight out.   *)
InsertLog(r) ==
    /\ at[r] = "log"
    /\ \E phase \in {"handle", "raised"} : Goto(r, phase)
    /\ UNCHANGED <<claims, database, faults>>

-----------------------------------------------------------------------------
(* _handle_inbound_message and _store_inbound_message.                     *)

ClaimMessage(r) ==
    /\ at[r] = "handle" /\ r[1] \in Inbound
    /\ Free(MessageKey(r[1]))
    /\ Claim(MessageKey(r[1]))
    /\ Goto(r, "store")
    /\ UNCHANGED <<database, faults>>

SkipDuplicate(r) ==
    /\ at[r] = "handle" /\ r[1] \in Inbound
    /\ ~Free(MessageKey(r[1]))
    /\ Goto(r, "commit")
    /\ UNCHANGED <<claims, database, faults>>

(* Nothing is stored and the log row says why; the request succeeds, or    *)
(* the log cannot be saved, or the commit fails.                           *)
NoAccount(r) ==
    /\ at[r] = "store"
    /\ Release(MessageKey(r[1]))
    /\ \E phase \in {"noAccount", "fail", "raised"} : Goto(r, phase)
    /\ UNCHANGED <<database, faults>>

InsertMessage(r) ==
    /\ at[r] = "store"
    /\ rowOf' = [rowOf EXCEPT ![r] = TRUE]
    /\ Goto(r, "follow")
    /\ UNCHANGED <<claims, stored, read, wrote, status, faults>>

(* insert() raises before it wrote the row, or after, in a later hook.     *)
InsertFails(r) ==
    /\ at[r] = "store"
    /\ Release(MessageKey(r[1]))
    /\ \E written \in BOOLEAN : rowOf' = [rowOf EXCEPT ![r] = written]
    /\ Goto(r, "fail")
    /\ UNCHANGED <<stored, read, wrote, status, faults>>

(* _after_inbound_message; the claim is kept even when it raises.          *)
FollowUp(r) ==
    /\ at[r] = "follow"
    /\ \E phase \in {"commit", "fail"} : Goto(r, phase)
    /\ UNCHANGED <<claims, database, faults>>

-----------------------------------------------------------------------------
(* _handle_ack.                                                            *)

ReadStatus(r) ==
    /\ at[r] = "handle" /\ r[1] \in Ack
    /\ read' = [read EXCEPT ![r] = status[About[r[1]]]]
    /\ Goto(r, "apply")
    /\ UNCHANGED <<claims, rowOf, stored, wrote, status, faults>>

Ranked == {"Pending", "Sent", "Delivered", "Read"}
Rank == [s \in Ranked |-> CASE s = "Pending" -> 0 [] s = "Sent" -> 1
                            [] s = "Delivered" -> 2 [] s = "Read" -> 3]
SupersedesAlways(current, incoming) == TRUE       \* mutant: applied blindly
Supersedes(current, incoming) ==
    {current, incoming} \subseteq Ranked => Rank[incoming] > Rank[current]

Applicable(r) == read[r] # NoRow /\ Supersedes(read[r], AckStatus[r[1]])

(* set_value waits for the row's lock and tests nothing.                   *)
ApplyAck(r) ==
    /\ at[r] = "apply"
    /\ Applicable(r)
    /\ \A q \in Request : About[q[1]] = About[r[1]] => wrote[q] = Nothing
    /\ wrote' = [wrote EXCEPT ![r] = AckStatus[r[1]]]
    /\ Goto(r, "commit")
    /\ UNCHANGED <<claims, rowOf, stored, read, status, faults>>

(* No such message, or not a later status: only the log says so.           *)
SkipAck(r) ==
    /\ at[r] = "apply"
    /\ ~Applicable(r)
    /\ Goto(r, "commit")
    /\ UNCHANGED <<claims, database, faults>>

AckFails(r) ==
    /\ at[r] = "apply"
    /\ Goto(r, "fail")
    /\ UNCHANGED <<claims, database, faults>>

-----------------------------------------------------------------------------
(* The ends of a request.                                                  *)

(* The request's transaction commits after receive returned, or fails to.  *)
Commit(r) ==
    /\ at[r] = "commit"
    /\ \/ CommitRows(r) /\ Goto(r, "ok")
       \/ Rollback(r) /\ Goto(r, "raised")
    /\ UNCHANGED <<claims, faults>>

(* The except branch: the traceback is saved, the delivery's claim given   *)
(* back and everything so far committed before the error goes out.         *)
ReportFailure(r) ==
    /\ at[r] = "fail"
    /\ Release(DeliveryKey(r[1]))
    /\ CommitRows(r)
    /\ Goto(r, "reported")
    /\ UNCHANGED faults

(* Saving the traceback raises as well.                                    *)
ReportRaises(r) ==
    /\ at[r] = "fail"
    /\ Rollback(r)
    /\ Goto(r, "raised")
    /\ UNCHANGED <<claims, faults>>

KillKeepsRows(r) ==                               \* mutant: no rollback
    /\ at[r] \in InFlight
    /\ faults < MaxFaults
    /\ faults' = faults + 1
    /\ Goto(r, "dead")
    /\ UNCHANGED <<claims, database>>
Kill(r) ==
    /\ at[r] \in InFlight
    /\ faults < MaxFaults
    /\ faults' = faults + 1
    /\ Rollback(r)
    /\ Goto(r, "dead")
    /\ UNCHANGED claims

(* The transaction that sent o commits; acks may have come before.         *)
SentCommits(o) ==
    /\ status[o] = NoRow
    /\ status' = [status EXCEPT ![o] = "Success"]
    /\ UNCHANGED <<at, claims, rowOf, stored, read, wrote, faults>>

RequestStep(r) ==
    \/ Deliver(r) \/ Refuse(r) \/ IgnoreStale(r)
    \/ PassUnclaimed(r) \/ ClaimDelivery(r) \/ IgnoreDuplicate(r) \/ InsertLog(r)
    \/ ClaimMessage(r) \/ SkipDuplicate(r) \/ NoAccount(r) \/ InsertMessage(r)
    \/ InsertFails(r) \/ FollowUp(r)
    \/ ReadStatus(r) \/ ApplyAck(r) \/ SkipAck(r) \/ AckFails(r)
    \/ Commit(r) \/ ReportFailure(r) \/ ReportRaises(r) \/ Kill(r)

Next == (\E r \in Request : RequestStep(r)) \/ (\E o \in Sent : SentCommits(o))

Spec == Init /\ [][Next]_vars

-----------------------------------------------------------------------------
(* Properties.                                                             *)

Requests(m) == {r \in Request : About[r[1]] = m}

\* Overlapping attempts, other deliveries of the same message, and attempts
\* that fail after the row was written and are committed all the same
\* (webhook.py:101-106) never store a message twice.
StoredOnce ==
    \A m \in Message : stored[m] + Cardinality({r \in Requests(m) : rowOf[r]}) <= 1

\* A message whose row is stored or about to be is claimed, so no later
\* delivery inserts it (webhook.py:293-306).
StoredIsClaimed ==
    \A r \in Request :
        r[1] \in Inbound /\ (rowOf[r] \/ stored[About[r[1]]] > 0) => ~Free(MessageKey(r[1]))

\* What happened to a request that explains why its message is not there.
Lost == {"reported", "raised", "noAccount", "dead", "stale"}

\* Deduplication alone loses nothing: when the gateway was told that a message
\* was accepted and nobody is working on it, it is stored, or some request for
\* it failed, was killed, came too late or found no account.
LossIsExplained ==
    \A m \in Message :
        (\E r \in Requests(m) : at[r] \in Accepted)
        /\ (\A r \in Requests(m) : at[r] \notin InFlight)
        => stored[m] > 0 \/ \E r \in Requests(m) : at[r] \in Lost

Backward(before, after) ==
    {before, after} \subseteq Ranked /\ Rank[after] < Rank[before]

\* The delivery status of a message goes backward only when an ack overwrites
\* one that was committed after it had read the row (webhook.py:516-527).
OnlyStaleAcksGoBack ==
    [][\A o \in Sent : Backward(status[o], status'[o]) =>
          \E r \in Requests(o) : wrote[r] = status'[o] /\ read[r] # status[o]]_vars

-----------------------------------------------------------------------------
(* What the comments say beyond that.                                      *)

\* A delivery is dismissed as a duplicate only if there is an original: an
\* attempt that succeeded, is still running, or was cut off before its failure
\* could be reported (webhook.py:87-90).
RetryIsHandled ==
    \A q, r \in Request :
        q[1] = r[1] /\ q[2] < r[2] /\ at[q] = "reported" /\ at[r] = "duplicate" =>
            \E s \in Request :
                s[1] = r[1] /\ at[s] \in InFlight \cup {"ok", "raised", "dead"}

\* "Only forward moves are applied" (webhook.py:524).
AcksMoveForward == [][\A o \in Sent : ~Backward(status[o], status'[o])]_vars
=============================================================================
