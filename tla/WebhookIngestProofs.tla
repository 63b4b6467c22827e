------------------------ MODULE WebhookIngestProofs ------------------------
(* Theorems about WebhookIngest, for every set of deliveries and messages  *)
(* and any number of attempts.                                             *)
EXTENDS WebhookIngest, FiniteSetTheorems, TLAPS

-----------------------------------------------------------------------------
(* Types.                                                                  *)

\* A transaction holds a message row only in the phases after the insert, and
\* a status only between its write and its commit.
RowPhase ==
    \A r \in Request :
        /\ rowOf[r] => at[r] \in {"follow", "fail", "commit"} /\ r[1] \in Inbound
        /\ at[r] \in {"store", "follow"} => r[1] \in Inbound
        /\ at[r] = "apply" => r[1] \in Ack
        /\ wrote[r] # Nothing => at[r] = "commit" /\ r[1] \in Ack

TypeInv == TypeOK /\ RowPhase

LEMMA RequestDelivery ==
    ASSUME NEW r \in Request
    PROVE  r[1] \in Delivery
  BY DEF Request

LEMMA KeyTypes ==
    ASSUME NEW d \in Delivery
    PROVE  /\ MakeKey(DeliveryKey(d)) \in Key
           /\ d \in Inbound => MakeKey(MessageKey(d)) \in Key
  BY DeliveryAssumption DEF MakeKey, DeliveryKey, MessageKey, Key

LEMMA CommitTypes ==
    ASSUME TypeInv, NEW r \in Request, CommitRows(r)
    PROVE  stored' \in [Message -> Nat] /\ status' \in [Sent -> Statuses \cup {NoRow}]
  <1> USE DEF TypeInv, TypeOK, RowPhase, CommitRows
  <1>1. stored' \in [Message -> Nat]
    <2>1. CASE rowOf[r]
      <3>1. About[r[1]] \in Message
        BY <2>1, DeliveryAssumption
      <3>2. stored[About[r[1]]] + 1 \in Nat
        BY <3>1
      <3>3. QED
        BY <2>1, <3>1, <3>2
    <2>2. CASE ~rowOf[r]
      BY <2>2
    <2>3. QED
      BY <2>1, <2>2
  <1>2. status' \in [Sent -> Statuses \cup {NoRow}]
    OBVIOUS
  <1>3. QED
    BY <1>1, <1>2

LEMMA KillTypes ==
    ASSUME TypeInv, NEW r \in Request, Kill(r)
    PROVE  TypeOK'
  <1>1. faults \in Nat /\ faults' = faults + 1
    BY DEF TypeInv, TypeOK, Kill
  <1>2. faults' \in Nat
    BY <1>1
  <1>3. claims' \subseteq Key /\ stored' \in [Message -> Nat]
        /\ read' \in [Request -> Statuses \cup {NoRow, Nothing}]
        /\ status' \in [Sent -> Statuses \cup {NoRow}]
    BY DEF TypeInv, TypeOK, Kill, Rollback
  <1>4. /\ at' = [at EXCEPT ![r] = "dead"]
        /\ rowOf' = [rowOf EXCEPT ![r] = FALSE]
        /\ wrote' = [wrote EXCEPT ![r] = Nothing]
    BY DEF Kill, Rollback, Goto
  <1>5. QED
    BY <1>2, <1>3, <1>4 DEF TypeInv, TypeOK, Ended

LEMMA InitTypeInv == Init => TypeInv
  <1> SUFFICES ASSUME Init PROVE TypeInv
    OBVIOUS
  <1>1. TypeOK
    BY DEF Init, TypeOK, Nothing
  <1>2. RowPhase
    BY DEF Init, RowPhase, Nothing
  <1>3. QED
    BY <1>1, <1>2 DEF TypeInv

LEMMA StepTypeInv == TypeInv /\ [Next]_vars => TypeInv'
  <1> SUFFICES ASSUME TypeInv, [Next]_vars
               PROVE  TypeInv'
    OBVIOUS
  <1> USE DEF TypeInv, TypeOK, RowPhase, InFlight, Ended, Accepted, database,
              Goto, Statuses, AckStatuses, Nothing, NoRow
  <1>1. ASSUME NEW r \in Request, Deliver(r) PROVE TypeInv'
    BY <1>1 DEF Deliver
  <1>2. ASSUME NEW r \in Request, Refuse(r) PROVE TypeInv'
    BY <1>2 DEF Refuse
  <1>3. ASSUME NEW r \in Request, IgnoreStale(r) \/ PassUnclaimed(r) PROVE TypeInv'
    <2>1. PICK phase \in {"stale", "log"} : Goto(r, phase)
      BY <1>3 DEF IgnoreStale, PassUnclaimed
    <2>2. at[r] = "arrived" /\ UNCHANGED <<claims, database, faults>>
      BY <1>3 DEF IgnoreStale, PassUnclaimed
    <2>3. QED
      BY <2>1, <2>2
  <1>4. ASSUME NEW r \in Request, ClaimDelivery(r) PROVE TypeInv'
    BY <1>4, RequestDelivery, KeyTypes DEF ClaimDelivery, Claim
  <1>5. ASSUME NEW r \in Request, IgnoreDuplicate(r) PROVE TypeInv'
    BY <1>5 DEF IgnoreDuplicate
  <1>6. ASSUME NEW r \in Request, InsertLog(r) PROVE TypeInv'
    <2>1. PICK phase \in {"handle", "raised"} : Goto(r, phase)
      BY <1>6 DEF InsertLog
    <2>2. QED
      BY <1>6, <2>1 DEF InsertLog
  <1>7. ASSUME NEW r \in Request, ClaimMessage(r) PROVE TypeInv'
    BY <1>7, RequestDelivery, KeyTypes DEF ClaimMessage, Claim
  <1>8. ASSUME NEW r \in Request, SkipDuplicate(r) PROVE TypeInv'
    BY <1>8 DEF SkipDuplicate
  <1>9. ASSUME NEW r \in Request, NoAccount(r) PROVE TypeInv'
    <2>1. PICK phase \in {"noAccount", "fail", "raised"} : Goto(r, phase)
      BY <1>9 DEF NoAccount
    <2>2. QED
      BY <1>9, <2>1 DEF NoAccount, Release
  <1>10. ASSUME NEW r \in Request, InsertMessage(r) PROVE TypeInv'
    BY <1>10 DEF InsertMessage
  <1>11. ASSUME NEW r \in Request, InsertFails(r) PROVE TypeInv'
    BY <1>11 DEF InsertFails, Release
  <1>12. ASSUME NEW r \in Request, FollowUp(r) PROVE TypeInv'
    <2>1. PICK phase \in {"commit", "fail"} : Goto(r, phase)
      BY <1>12 DEF FollowUp
    <2>2. QED
      BY <1>12, <2>1 DEF FollowUp
  <1>13. ASSUME NEW r \in Request, ReadStatus(r) PROVE TypeInv'
    <2>1. status[About[r[1]]] \in Statuses \cup {NoRow}
      BY <1>13, DeliveryAssumption DEF ReadStatus
    <2>2. QED
      BY <1>13, <2>1 DEF ReadStatus
  <1>14. ASSUME NEW r \in Request, ApplyAck(r) PROVE TypeInv'
    <2>1. AckStatus[r[1]] \in AckStatuses /\ r[1] \in Ack
      BY <1>14, DeliveryAssumption DEF ApplyAck
    <2>2. QED
      BY <1>14, <2>1 DEF ApplyAck
  <1>15. ASSUME NEW r \in Request, SkipAck(r) PROVE TypeInv'
    BY <1>15 DEF SkipAck
  <1>16. ASSUME NEW r \in Request, AckFails(r) PROVE TypeInv'
    BY <1>16 DEF AckFails
  <1>17. ASSUME NEW r \in Request, Commit(r) PROVE TypeInv'
    <2>1. CASE CommitRows(r) /\ Goto(r, "ok")
      <3>1. UNCHANGED <<claims, faults, read>> /\ at' = [at EXCEPT ![r] = "ok"]
        BY <1>17, <2>1 DEF Commit, CommitRows
      <3>2. rowOf' = [rowOf EXCEPT ![r] = FALSE] /\ wrote' = [wrote EXCEPT ![r] = Nothing]
        BY <2>1 DEF CommitRows
      <3>3. stored' \in [Message -> Nat] /\ status' \in [Sent -> Statuses \cup {NoRow}]
        BY <2>1, CommitTypes
      <3>4. TypeOK'
        BY <3>1, <3>2, <3>3
      <3>5. RowPhase'
        BY <3>1, <3>2
      <3>6. QED
        BY <3>4, <3>5
    <2>2. CASE Rollback(r) /\ Goto(r, "raised")
      BY <1>17, <2>2 DEF Commit, Rollback
    <2>3. QED
      BY <1>17, <2>1, <2>2 DEF Commit
  <1>18. ASSUME NEW r \in Request, ReportFailure(r) PROVE TypeInv'
    <2>1. claims' \subseteq Key
      BY <1>18 DEF ReportFailure, Release
    <2>2. QED
      BY <1>18, <2>1, CommitTypes DEF ReportFailure, CommitRows
  <1>19. ASSUME NEW r \in Request, ReportRaises(r) PROVE TypeInv'
    BY <1>19 DEF ReportRaises, Rollback
  <1>20. ASSUME NEW r \in Request, Kill(r) PROVE TypeInv'
    <2>1. TypeOK'
      BY <1>20, KillTypes
    <2>2. RowPhase'
      BY <1>20 DEF Kill, Rollback
    <2>3. QED
      BY <2>1, <2>2
  <1>21. ASSUME NEW o \in Sent, SentCommits(o) PROVE TypeInv'
    BY <1>21 DEF SentCommits
  <1>22. CASE UNCHANGED vars
    BY <1>22 DEF vars
  <1>23. QED
    BY <1>1, <1>2, <1>3, <1>4, <1>5, <1>6, <1>7, <1>8, <1>9, <1>10, <1>11,
       <1>12, <1>13, <1>14, <1>15, <1>16, <1>17, <1>18, <1>19, <1>20, <1>21,
       <1>22 DEF Next, RequestStep

\* Every variable keeps its type, and only an open transaction holds rows
\* (api/webhook.py receive).
THEOREM TypeCorrect == Spec => []TypeOK
  <1>1. TypeInv => TypeOK
    BY DEF TypeInv
  <1>2. QED
    BY <1>1, InitTypeInv, StepTypeInv, PTL DEF Spec

-----------------------------------------------------------------------------
(* Claims.                                                                 *)

\* r has the right to insert its message, or has inserted it and not
\* committed yet.
Holds(r) == at[r] = "store" \/ rowOf[r]

\* Every key in Redis carries the prefix once, so what release_event deletes is
\* never there.
KeysOnce == \A key \in claims : key.prefixes = 1

ClaimedFor(r) == MakeKey(MessageKey(r[1])) \in claims

OneHolder ==
    \A q, r \in Request : Holds(q) /\ Holds(r) /\ About[q[1]] = About[r[1]] => q = r
HolderInv ==
    \A r \in Request : Holds(r) => ClaimedFor(r) /\ stored[About[r[1]]] = 0
StoredInv ==
    /\ \A m \in Message : stored[m] <= 1
    /\ \A r \in Request : r[1] \in Inbound /\ stored[About[r[1]]] > 0 => ClaimedFor(r)

ClaimInv == KeysOnce /\ OneHolder /\ HolderInv /\ StoredInv

\* The gates have keys of their own, and messages have one each.
LEMMA KeyFacts ==
    ASSUME NEW d \in Delivery, NEW e \in Delivery
    PROVE  /\ MakeKey(DeliveryKey(d)) # MakeKey(MessageKey(e))
           /\ MakeKey(MessageKey(d)) = MakeKey(MessageKey(e)) <=> About[d] = About[e]
           /\ MakeKey(DeliveryKey(d)).prefixes = 1
           /\ MakeKey(MessageKey(d)).prefixes = 1
           /\ Released(DeliveryKey(d)).prefixes = 2
           /\ Released(MessageKey(d)).prefixes = 2
  BY DEF MakeKey, DeliveryKey, MessageKey, Released

LEMMA ReleaseKeepsClaims ==
    ASSUME KeysOnce, NEW d \in Delivery,
           Release(DeliveryKey(d)) \/ Release(MessageKey(d))
    PROVE  claims' = claims
  <1>1. Released(DeliveryKey(d)) \notin claims /\ Released(MessageKey(d)) \notin claims
    BY KeyFacts DEF KeysOnce
  <1>2. QED
    BY <1>1 DEF Release

\* A step that gives nobody the right to insert and stores nothing.
LEMMA HoldsLess ==
    ASSUME ClaimInv, KeysOnce', claims \subseteq claims', stored' = stored,
           \A q \in Request : Holds(q)' => Holds(q)
    PROVE  ClaimInv'
  BY DEF ClaimInv, OneHolder, HolderInv, StoredInv, ClaimedFor

\* A step of r that leaves claims and rows alone, to a phase other than "store".
LEMMA Moves ==
    ASSUME TypeInv, ClaimInv, NEW r \in Request, NEW phase, phase # "store",
           Goto(r, phase), claims' = claims, stored' = stored,
           rowOf' = rowOf \/ rowOf' = [rowOf EXCEPT ![r] = FALSE]
    PROVE  ClaimInv'
  <1>1. \A q \in Request : Holds(q)' => Holds(q)
    BY DEF TypeInv, TypeOK, Goto, Holds
  <1>2. KeysOnce'
    BY DEF ClaimInv, KeysOnce
  <1>3. QED
    BY <1>1, <1>2, HoldsLess

\* The end of a transaction that is committed.
LEMMA CommitKeepsClaims ==
    ASSUME TypeInv, ClaimInv, NEW r \in Request, NEW phase, phase # "store",
           Goto(r, phase), claims' = claims, CommitRows(r)
    PROVE  ClaimInv'
  <1>1. CASE ~rowOf[r]
    BY <1>1, Moves DEF CommitRows
  <1>2. CASE rowOf[r]
    <2> DEFINE m == About[r[1]]
    <2>1. r[1] \in Inbound /\ m \in Message
      BY <1>2, DeliveryAssumption DEF TypeInv, RowPhase
    <2>2. Holds(r) /\ ClaimedFor(r) /\ stored[m] = 0
      BY <1>2 DEF Holds, ClaimInv, HolderInv
    <2>3. stored' = [stored EXCEPT ![m] = 1]
      BY <1>2, <2>1, <2>2 DEF CommitRows, TypeInv, TypeOK
    <2>4. ~Holds(r)' /\ \A q \in Request : Holds(q)' => Holds(q)
      BY DEF TypeInv, TypeOK, Goto, Holds, CommitRows
    <2>5. KeysOnce'
      BY DEF ClaimInv, KeysOnce
    <2>6. OneHolder'
      BY <2>4 DEF ClaimInv, OneHolder
    <2>7. HolderInv'
      <3> SUFFICES ASSUME NEW q \in Request, Holds(q)'
                   PROVE  ClaimedFor(q)' /\ stored'[About[q[1]]] = 0
        BY DEF HolderInv
      <3>1. Holds(q) /\ q # r
        BY <2>4
      <3>2. About[q[1]] # m
        BY <3>1, <2>2 DEF ClaimInv, OneHolder
      <3>3. QED
        BY <3>1, <3>2, <2>3 DEF ClaimInv, HolderInv, ClaimedFor, TypeInv, TypeOK
    <2>8. StoredInv'
      <3>1. \A n \in Message : stored'[n] <= 1
        BY <2>3 DEF ClaimInv, StoredInv, TypeInv, TypeOK
      <3>2. ASSUME NEW q \in Request, q[1] \in Inbound, stored'[About[q[1]]] > 0
            PROVE  ClaimedFor(q)'
        <4>1. q[1] \in Delivery /\ r[1] \in Delivery
          BY RequestDelivery
        <4>2. CASE About[q[1]] = m
          BY <4>1, <4>2, <2>2, KeyFacts DEF ClaimedFor
        <4>3. CASE About[q[1]] # m
          BY <4>3, <3>2, <2>3 DEF ClaimInv, StoredInv, ClaimedFor, TypeInv, TypeOK
        <4>4. QED
          BY <4>2, <4>3
      <3>3. QED
        BY <3>1, <3>2 DEF StoredInv
    <2>9. QED
      BY <2>5, <2>6, <2>7, <2>8 DEF ClaimInv
  <1>3. QED
    BY <1>1, <1>2

LEMMA ClaimMessageKeepsClaims ==
    ASSUME TypeInv, ClaimInv, NEW r \in Request, ClaimMessage(r)
    PROVE  ClaimInv'
  <1> DEFINE key == MakeKey(MessageKey(r[1]))
  <1>1. key \notin claims /\ claims' = claims \cup {key}
    BY DEF ClaimMessage, Free, Claim
  <1>2. r[1] \in Inbound /\ r[1] \in Delivery /\ About[r[1]] \in Message
    BY DeliveryAssumption DEF ClaimMessage, Delivery
  <1>3. at' = [at EXCEPT ![r] = "store"] /\ rowOf' = rowOf /\ stored' = stored
    BY DEF ClaimMessage, Goto, database
  <1>4. \A q \in Request : Holds(q)' => q = r \/ Holds(q)
    BY <1>3 DEF Holds, TypeInv, TypeOK
  <1>5. \A q \in Request : Holds(q) => About[q[1]] # About[r[1]]
    BY <1>1, <1>2, KeyFacts, RequestDelivery DEF ClaimInv, HolderInv, ClaimedFor
  <1>6. stored[About[r[1]]] = 0
    BY <1>1, <1>2 DEF ClaimInv, StoredInv, ClaimedFor, TypeInv, TypeOK
  <1>7. KeysOnce'
    BY <1>1, <1>2, KeyFacts DEF ClaimInv, KeysOnce
  <1>8. OneHolder'
    BY <1>4, <1>5 DEF ClaimInv, OneHolder
  <1>9. HolderInv'
    BY <1>1, <1>3, <1>4, <1>6 DEF ClaimInv, HolderInv, ClaimedFor
  <1>10. StoredInv'
    BY <1>1, <1>3 DEF ClaimInv, StoredInv, ClaimedFor
  <1>11. QED
    BY <1>7, <1>8, <1>9, <1>10 DEF ClaimInv

LEMMA InitClaimInv == Init => ClaimInv
  <1> SUFFICES ASSUME Init PROVE ClaimInv
    OBVIOUS
  <1>1. \A r \in Request : ~Holds(r)
    BY DEF Init, Holds
  <1>2. \A r \in Request : r[1] \in Inbound => stored[About[r[1]]] = 0
    BY DeliveryAssumption DEF Init
  <1>3. StoredInv
    BY <1>2 DEF Init, StoredInv
  <1>4. QED
    BY <1>1, <1>3 DEF Init, ClaimInv, KeysOnce, OneHolder, HolderInv

LEMMA StepClaimInv == TypeInv /\ ClaimInv /\ [Next]_vars => ClaimInv'
  <1> SUFFICES ASSUME TypeInv, ClaimInv, [Next]_vars
               PROVE  ClaimInv'
    OBVIOUS
  <1> USE DEF database
  <1>1. ASSUME NEW r \in Request, Deliver(r) PROVE ClaimInv'
    BY <1>1, Moves DEF Deliver
  <1>2. ASSUME NEW r \in Request, Refuse(r) PROVE ClaimInv'
    BY <1>2, Moves DEF Refuse
  <1>3. ASSUME NEW r \in Request, IgnoreStale(r) \/ PassUnclaimed(r) PROVE ClaimInv'
    BY <1>3, Moves DEF IgnoreStale, PassUnclaimed
  <1>4. ASSUME NEW r \in Request, ClaimDelivery(r) PROVE ClaimInv'
    <2>1. claims' = claims \cup {MakeKey(DeliveryKey(r[1]))} /\ KeysOnce'
      BY <1>4, RequestDelivery, KeyFacts DEF ClaimDelivery, Claim, ClaimInv, KeysOnce
    <2>2. \A q \in Request : Holds(q)' => Holds(q)
      BY <1>4 DEF ClaimDelivery, Goto, Holds, TypeInv, TypeOK
    <2>3. QED
      BY <1>4, <2>1, <2>2, HoldsLess DEF ClaimDelivery
  <1>5. ASSUME NEW r \in Request, IgnoreDuplicate(r) PROVE ClaimInv'
    BY <1>5, Moves DEF IgnoreDuplicate
  <1>6. ASSUME NEW r \in Request, InsertLog(r) PROVE ClaimInv'
    BY <1>6, Moves DEF InsertLog
  <1>7. ASSUME NEW r \in Request, ClaimMessage(r) PROVE ClaimInv'
    BY <1>7, ClaimMessageKeepsClaims
  <1>8. ASSUME NEW r \in Request, SkipDuplicate(r) PROVE ClaimInv'
    BY <1>8, Moves DEF SkipDuplicate
  <1>9. ASSUME NEW r \in Request, NoAccount(r) PROVE ClaimInv'
    <2>1. claims' = claims
      BY <1>9, ReleaseKeepsClaims, RequestDelivery DEF NoAccount, ClaimInv
    <2>2. QED
      BY <1>9, <2>1, Moves DEF NoAccount
  <1>10. ASSUME NEW r \in Request, InsertMessage(r) PROVE ClaimInv'
    <2>1. \A q \in Request : Holds(q)' => Holds(q)
      BY <1>10 DEF InsertMessage, Goto, Holds, TypeInv, TypeOK
    <2>2. QED
      BY <1>10, <2>1, HoldsLess DEF InsertMessage, ClaimInv, KeysOnce
  <1>11. ASSUME NEW r \in Request, InsertFails(r) PROVE ClaimInv'
    <2>1. claims' = claims
      BY <1>11, ReleaseKeepsClaims, RequestDelivery DEF InsertFails, ClaimInv
    <2>2. \A q \in Request : Holds(q)' => Holds(q)
      BY <1>11 DEF InsertFails, Goto, Holds, TypeInv, TypeOK
    <2>3. QED
      BY <1>11, <2>1, <2>2, HoldsLess DEF InsertFails, ClaimInv, KeysOnce
  <1>12. ASSUME NEW r \in Request, FollowUp(r) PROVE ClaimInv'
    BY <1>12, Moves DEF FollowUp
  <1>13. ASSUME NEW r \in Request, ReadStatus(r) PROVE ClaimInv'
    BY <1>13, Moves DEF ReadStatus
  <1>14. ASSUME NEW r \in Request, ApplyAck(r) PROVE ClaimInv'
    BY <1>14, Moves DEF ApplyAck
  <1>15. ASSUME NEW r \in Request, SkipAck(r) PROVE ClaimInv'
    BY <1>15, Moves DEF SkipAck
  <1>16. ASSUME NEW r \in Request, AckFails(r) PROVE ClaimInv'
    BY <1>16, Moves DEF AckFails
  <1>17. ASSUME NEW r \in Request, Commit(r) PROVE ClaimInv'
    <2>1. CASE CommitRows(r) /\ Goto(r, "ok")
      BY <1>17, <2>1, CommitKeepsClaims DEF Commit
    <2>2. CASE Rollback(r) /\ Goto(r, "raised")
      BY <1>17, <2>2, Moves DEF Commit, Rollback
    <2>3. QED
      BY <1>17, <2>1, <2>2 DEF Commit
  <1>18. ASSUME NEW r \in Request, ReportFailure(r) PROVE ClaimInv'
    <2>1. claims' = claims
      BY <1>18, ReleaseKeepsClaims, RequestDelivery DEF ReportFailure, ClaimInv
    <2>2. QED
      BY <1>18, <2>1, CommitKeepsClaims DEF ReportFailure
  <1>19. ASSUME NEW r \in Request, ReportRaises(r) PROVE ClaimInv'
    BY <1>19, Moves DEF ReportRaises, Rollback
  <1>20. ASSUME NEW r \in Request, Kill(r) PROVE ClaimInv'
    BY <1>20, Moves DEF Kill, Rollback
  <1>21. ASSUME NEW o \in Sent, SentCommits(o) PROVE ClaimInv'
    BY <1>21, HoldsLess DEF SentCommits, ClaimInv, KeysOnce, Holds
  <1>22. CASE UNCHANGED vars
    BY <1>22, HoldsLess DEF vars, ClaimInv, KeysOnce, Holds
  <1>23. QED
    BY <1>1, <1>2, <1>3, <1>4, <1>5, <1>6, <1>7, <1>8, <1>9, <1>10, <1>11,
       <1>12, <1>13, <1>14, <1>15, <1>16, <1>17, <1>18, <1>19, <1>20, <1>21,
       <1>22 DEF Next, RequestStep

\* A message that is stored, or whose insert is not committed yet, is claimed
\* (api/webhook.py:293-306).
THEOREM StoredStaysClaimed == Spec => []StoredIsClaimed
  <1>1. TypeInv /\ ClaimInv => StoredIsClaimed
    BY DEF ClaimInv, HolderInv, StoredInv, StoredIsClaimed, ClaimedFor, Holds, Free
  <1>2. QED
    BY <1>1, InitTypeInv, StepTypeInv, InitClaimInv, StepClaimInv, PTL DEF Spec

\* No message is stored twice, counting inserts that are not committed yet
\* (api/webhook.py _store_inbound_message, utils/idempotency.py claim_event).
THEOREM MessagesStoredOnce == Spec => []StoredOnce
  <1>1. ASSUME TypeInv, ClaimInv, NEW m \in Message
        PROVE  stored[m] + Cardinality({r \in Requests(m) : rowOf[r]}) <= 1
    <2> DEFINE holders == {r \in Requests(m) : rowOf[r]}
    <2>1. stored[m] \in Nat /\ stored[m] <= 1
      BY <1>1 DEF TypeInv, TypeOK, ClaimInv, StoredInv
    <2>2. CASE holders = {}
      BY <2>1, <2>2, FS_EmptySet
    <2>3. CASE holders # {}
      <3>1. PICK r \in Request : rowOf[r] /\ About[r[1]] = m
        BY <2>3 DEF Requests
      <3>2. holders = {r}
        BY <1>1, <3>1 DEF ClaimInv, OneHolder, Holds, Requests
      <3>3. stored[m] = 0
        BY <1>1, <3>1 DEF ClaimInv, HolderInv, Holds
      <3>4. Cardinality(holders) = 1
        BY <3>2, FS_Singleton
      <3>5. QED
        BY <3>3, <3>4
    <2>4. QED
      BY <2>2, <2>3
  <1>2. TypeInv /\ ClaimInv => StoredOnce
    BY <1>1 DEF StoredOnce
  <1>3. QED
    BY <1>2, InitTypeInv, StepTypeInv, InitClaimInv, StepClaimInv, PTL DEF Spec
-----------------------------------------------------------------------------
(* Acknowledgements.                                                       *)

\* A status waiting to be committed supersedes the one its request read.
AckInv ==
    \A r \in Request : wrote[r] # Nothing => Supersedes(read[r], wrote[r])

\* A later status is not an earlier one.
LEMMA LaterIsNotBackward ==
    ASSUME NEW before, NEW after, Supersedes(before, after)
    PROVE  ~Backward(before, after)
  <1>1. \A s \in Ranked : Rank[s] \in Nat
    BY DEF Ranked, Rank
  <1>2. QED
    BY <1>1 DEF Supersedes, Backward

LEMMA InitAckInv == Init => AckInv
  BY DEF Init, AckInv

LEMMA StepAckInv == TypeInv /\ AckInv /\ [Next]_vars => AckInv'
  <1> SUFFICES ASSUME TypeInv, AckInv, [Next]_vars
               PROVE  AckInv'
    OBVIOUS
  <1> USE DEF AckInv, database
  <1>1. CASE UNCHANGED <<read, wrote>>
    BY <1>1
  <1>2. ASSUME NEW r \in Request, ReadStatus(r) PROVE AckInv'
    <2>1. wrote[r] = Nothing /\ wrote' = wrote
      BY <1>2 DEF ReadStatus, TypeInv, RowPhase
    <2>2. \A q \in Request : q # r => read'[q] = read[q]
      BY <1>2 DEF ReadStatus, TypeInv, TypeOK
    <2>3. QED
      BY <2>1, <2>2
  <1>3. ASSUME NEW r \in Request, ApplyAck(r) PROVE AckInv'
    <2>1. Supersedes(read[r], AckStatus[r[1]]) /\ read' = read
      BY <1>3 DEF ApplyAck, Applicable
    <2>2. wrote' = [wrote EXCEPT ![r] = AckStatus[r[1]]]
      BY <1>3 DEF ApplyAck
    <2>3. QED
      BY <2>1, <2>2 DEF TypeInv, TypeOK
  <1>4. ASSUME NEW r \in Request, CommitRows(r) \/ Rollback(r) PROVE AckInv'
    BY <1>4 DEF CommitRows, Rollback, TypeInv, TypeOK
  <1>5. ASSUME NEW r \in Request, RequestStep(r) PROVE AckInv'
    BY <1>5, <1>1, <1>2, <1>3, <1>4
       DEF RequestStep, Deliver, Refuse, IgnoreStale, PassUnclaimed, ClaimDelivery,
           IgnoreDuplicate, InsertLog, ClaimMessage, SkipDuplicate, NoAccount,
           InsertMessage, InsertFails, FollowUp, SkipAck, AckFails, Commit,
           ReportFailure, ReportRaises, Kill
  <1>6. QED
    BY <1>1, <1>5 DEF Next, SentCommits, vars

\* The status of a message sent goes backward only by an ack whose reading was
\* overtaken (api/webhook.py _handle_ack).
THEOREM AcksGoBackOnlyWhenStale == Spec => OnlyStaleAcksGoBack
  <1> DEFINE Step(o) == Backward(status[o], status'[o]) =>
                 \E r \in Requests(o) : wrote[r] = status'[o] /\ read[r] # status[o]
  <1>1. ASSUME TypeInv, AckInv, [Next]_vars, NEW o \in Sent
        PROVE  Step(o)
    <2>1. CASE status'[o] = status[o]
      <3>1. \A s \in Ranked : Rank[s] \in Nat
        BY DEF Ranked, Rank
      <3>2. QED
        BY <2>1, <3>1 DEF Backward
    <2>2. ASSUME NEW r \in Request, CommitRows(r), status'[o] # status[o]
          PROVE  Step(o)
      <3>1. wrote[r] # Nothing /\ About[r[1]] = o /\ status'[o] = wrote[r]
        BY <2>2 DEF CommitRows, TypeInv, TypeOK
      <3>2. Supersedes(read[r], wrote[r])
        BY <1>1, <3>1 DEF AckInv
      <3>3. CASE read[r] = status[o]
        BY <3>1, <3>2, <3>3, LaterIsNotBackward
      <3>4. CASE read[r] # status[o]
        BY <3>1, <3>4 DEF Requests
      <3>5. QED
        BY <3>3, <3>4
    <2>3. ASSUME NEW q \in Sent, SentCommits(q), status'[o] # status[o]
          PROVE  Step(o)
      <3>1. status[o] = NoRow
        BY <2>3 DEF SentCommits, TypeInv, TypeOK
      <3>2. QED
        BY <3>1 DEF Backward, Ranked, NoRow
    <2>4. CASE \E r \in Request : RequestStep(r)
      BY <2>4, <2>1, <2>2
         DEF RequestStep, Deliver, Refuse, IgnoreStale, PassUnclaimed, ClaimDelivery,
             IgnoreDuplicate, InsertLog, ClaimMessage, SkipDuplicate, NoAccount,
             InsertMessage, InsertFails, FollowUp, ReadStatus, ApplyAck, SkipAck,
             AckFails, Commit, ReportFailure, ReportRaises, Kill, Rollback, database
    <2>5. QED
      BY <1>1, <2>1, <2>3, <2>4 DEF Next, vars, database
  <1>2. TypeInv /\ AckInv /\ [Next]_vars => [\A o \in Sent : Step(o)]_vars
    BY <1>1
  <1>3. QED
    BY <1>2, InitTypeInv, StepTypeInv, InitAckInv, StepAckInv, PTL
       DEF Spec, OnlyStaleAcksGoBack

-----------------------------------------------------------------------------
(* What a claim stands for.                                                *)

\* r will store its message, or end in a way that explains that it does not.
Carries(r) == at[r] \in Lost \cup {"store", "fail"} \/ rowOf[r]
Explained(m) == stored[m] > 0 \/ \E r \in Requests(m) : Carries(r)
BeforeGate(d) == \E r \in Request : r[1] = d /\ at[r] \in {"log", "handle"}

\* Whatever dismisses a request as a duplicate has somebody behind it.
GateInv ==
    /\ \A d \in Inbound : MakeKey(MessageKey(d)) \in claims => Explained(About[d])
    /\ \A d \in Inbound :
          MakeKey(DeliveryKey(d)) \in claims => Explained(About[d]) \/ BeforeGate(d)
    /\ \A r \in Request :
          /\ r[1] \in Inbound /\ at[r] \in {"commit", "ok"} => Explained(About[r[1]])
          /\ r[1] \in Inbound /\ at[r] = "duplicate" => MakeKey(DeliveryKey(r[1])) \in claims
          /\ at[r] = "follow" => rowOf[r]

LEMMA AboutInbound ==
    ASSUME NEW d \in Inbound
    PROVE  d \in Delivery /\ About[d] \in Message
  BY DeliveryAssumption DEF Delivery

\* A step of r keeps what is behind the claims if r goes on carrying what it
\* carries, or has stored it.
LEMMA GateKeeps ==
    ASSUME TypeInv, GateInv, NEW r \in Request,
           \A q \in Request : q # r => at'[q] = at[q] /\ rowOf'[q] = rowOf[q],
           \A m \in Message : stored[m] > 0 => stored'[m] > 0,
           claims \subseteq claims',
           Carries(r) => Carries(r)' \/ stored'[About[r[1]]] > 0,
           \A d \in Inbound : MakeKey(MessageKey(d)) \in claims' =>
               MakeKey(MessageKey(d)) \in claims \/ Explained(About[d])',
           \A d \in Inbound : MakeKey(DeliveryKey(d)) \in claims' =>
               MakeKey(DeliveryKey(d)) \in claims \/ BeforeGate(d)',
           r[1] \in Inbound /\ at[r] \in {"log", "handle"} =>
               at'[r] \in {"log", "handle"} \/ Explained(About[r[1]])',
           r[1] \in Inbound /\ at'[r] \in {"commit", "ok"} => Explained(About[r[1]])',
           r[1] \in Inbound /\ at'[r] = "duplicate" => MakeKey(DeliveryKey(r[1])) \in claims',
           at'[r] = "follow" => rowOf'[r]
    PROVE  GateInv'
  <1>1. ASSUME NEW m \in Message, Explained(m) PROVE Explained(m)'
    <2>1. CASE stored[m] > 0
      BY <2>1 DEF Explained
    <2>2. ASSUME NEW q \in Requests(m), Carries(q) PROVE Explained(m)'
      <3>1. q \in Request /\ About[q[1]] = m
        BY DEF Requests
      <3>2. CASE q # r
        BY <2>2, <3>1, <3>2 DEF Carries, Explained, Requests
      <3>3. CASE q = r
        BY <2>2, <3>1, <3>3 DEF Explained, Requests
      <3>4. QED
        BY <3>2, <3>3
    <2>3. QED
      BY <1>1, <2>1, <2>2 DEF Explained
  <1>2. \A d \in Inbound : MakeKey(MessageKey(d)) \in claims' => Explained(About[d])'
    BY <1>1, AboutInbound DEF GateInv
  <1>3. ASSUME NEW d \in Inbound, MakeKey(DeliveryKey(d)) \in claims'
        PROVE  Explained(About[d])' \/ BeforeGate(d)'
    <2>1. CASE Explained(About[d])
      BY <1>1, <2>1, AboutInbound
    <2>2. ASSUME NEW q \in Request, q[1] = d, at[q] \in {"log", "handle"}
          PROVE  Explained(About[d])' \/ BeforeGate(d)'
      BY <2>2 DEF BeforeGate
    <2>3. QED
      BY <1>3, <2>1, <2>2 DEF GateInv, BeforeGate
  <1>4. ASSUME NEW q \in Request
        PROVE  /\ q[1] \in Inbound /\ at'[q] \in {"commit", "ok"} => Explained(About[q[1]])'
               /\ q[1] \in Inbound /\ at'[q] = "duplicate" =>
                     MakeKey(DeliveryKey(q[1])) \in claims'
               /\ at'[q] = "follow" => rowOf'[q]
    BY <1>1, AboutInbound DEF GateInv
  <1>5. QED
    BY <1>2, <1>3, <1>4 DEF GateInv, MakeKey, MessageKey, DeliveryKey

\* A step of r that claims nothing, to a phase where nothing new is promised.
LEMMA GateMoves ==
    ASSUME TypeInv, GateInv, NEW r \in Request, NEW phase, Goto(r, phase), claims' = claims,
           \A q \in Request : q # r => rowOf'[q] = rowOf[q],
           \A m \in Message : stored[m] > 0 => stored'[m] > 0,
           Carries(r) => Carries(r)' \/ stored'[About[r[1]]] > 0,
           r[1] \in Inbound /\ at[r] \in {"log", "handle"} =>
               phase = "handle" \/ Explained(About[r[1]])',
           r[1] \in Inbound /\ phase \in {"commit", "ok"} => Explained(About[r[1]])',
           phase # "duplicate", phase = "follow" => rowOf'[r]
    PROVE  GateInv'
  <1>1. at'[r] = phase /\ \A q \in Request : q # r => at'[q] = at[q]
    BY DEF TypeInv, TypeOK, Goto
  <1>2. QED
    BY <1>1, GateKeeps

\* The end of a transaction that is committed.
LEMMA CommittedIsStored ==
    ASSUME TypeInv, NEW r \in Request, CommitRows(r)
    PROVE  /\ \A q \in Request : q # r => rowOf'[q] = rowOf[q]
           /\ \A m \in Message : stored[m] > 0 => stored'[m] > 0
           /\ rowOf[r] => stored'[About[r[1]]] > 0
  <1>1. rowOf[r] => About[r[1]] \in Message
    BY DeliveryAssumption DEF TypeInv, RowPhase
  <1>2. QED
    BY <1>1 DEF CommitRows, TypeInv, TypeOK

LEMMA InitGateInv == Init => GateInv
  BY DEF Init, GateInv

LEMMA StepGateInv == TypeInv /\ ClaimInv /\ GateInv /\ [Next]_vars => GateInv'
  <1> SUFFICES ASSUME TypeInv, ClaimInv, GateInv, [Next]_vars
               PROVE  GateInv'
    OBVIOUS
  <1> USE DEF database
  <1>1. ASSUME NEW r \in Request,
               Deliver(r) \/ Refuse(r) \/ IgnoreStale(r) \/ PassUnclaimed(r)
        PROVE  GateInv'
    <2>1. PICK phase \in {"arrived", "refused", "stale", "log"} : Goto(r, phase)
      BY <1>1 DEF Deliver, Refuse, IgnoreStale, PassUnclaimed
    <2>2. at[r] \in {"unsent", "arrived"} /\ ~Carries(r)
      BY <1>1 DEF Deliver, Refuse, IgnoreStale, PassUnclaimed, Carries, Lost, TypeInv, RowPhase
    <2>3. QED
      BY <1>1, <2>1, <2>2, GateMoves DEF Deliver, Refuse, IgnoreStale, PassUnclaimed
  <1>2. ASSUME NEW r \in Request, ClaimDelivery(r) PROVE GateInv'
    <2>1. /\ claims' = claims \cup {MakeKey(DeliveryKey(r[1]))} /\ UNCHANGED <<rowOf, stored>>
          /\ at[r] = "arrived" /\ at'[r] = "log"
          /\ \A q \in Request : q # r => at'[q] = at[q]
      BY <1>2 DEF ClaimDelivery, Claim, Goto, TypeInv, TypeOK
    <2>2. \A d \in Inbound : MakeKey(MessageKey(d)) \in claims' => MakeKey(MessageKey(d)) \in claims
      BY <2>1, KeyFacts, RequestDelivery, AboutInbound
    <2>3. ASSUME NEW d \in Inbound, MakeKey(DeliveryKey(d)) \in claims',
                 MakeKey(DeliveryKey(d)) \notin claims
          PROVE  BeforeGate(d)'
      <3>1. d = r[1]
        BY <2>1, <2>3 DEF MakeKey, DeliveryKey
      <3>2. QED
        BY <2>1, <3>1 DEF BeforeGate
    <2>4. ~Carries(r)
      BY <2>1 DEF Carries, Lost, TypeInv, RowPhase
    <2>5. QED
      BY <2>1, <2>2, <2>3, <2>4, GateKeeps
  <1>3. ASSUME NEW r \in Request, IgnoreDuplicate(r) PROVE GateInv'
    <2>1. /\ UNCHANGED <<claims, rowOf, stored>> /\ at[r] = "arrived" /\ at'[r] = "duplicate"
          /\ MakeKey(DeliveryKey(r[1])) \in claims
          /\ \A q \in Request : q # r => at'[q] = at[q]
      BY <1>3 DEF IgnoreDuplicate, Free, Goto, TypeInv, TypeOK
    <2>2. ~Carries(r)
      BY <2>1 DEF Carries, Lost, TypeInv, RowPhase
    <2>3. QED
      BY <2>1, <2>2, GateKeeps
  <1>4. ASSUME NEW r \in Request, InsertLog(r) PROVE GateInv'
    <2>1. PICK phase \in {"handle", "raised"} : Goto(r, phase)
      BY <1>4 DEF InsertLog
    <2>2. at[r] = "log" /\ UNCHANGED <<claims, rowOf, stored>> /\ at'[r] = phase
      BY <1>4, <2>1 DEF InsertLog, Goto, TypeInv, TypeOK
    <2>3. phase = "raised" => Explained(About[r[1]])'
      BY <2>2 DEF Explained, Requests, Carries, Lost
    <2>4. ~Carries(r)
      BY <2>2 DEF Carries, Lost, TypeInv, RowPhase
    <2>5. QED
      BY <2>1, <2>2, <2>3, <2>4, GateMoves
  <1>5. ASSUME NEW r \in Request, ClaimMessage(r) PROVE GateInv'
    <2>1. /\ claims' = claims \cup {MakeKey(MessageKey(r[1]))} /\ UNCHANGED <<rowOf, stored>>
          /\ at[r] = "handle" /\ at'[r] = "store" /\ r[1] \in Inbound
          /\ \A q \in Request : q # r => at'[q] = at[q]
      BY <1>5 DEF ClaimMessage, Claim, Goto, TypeInv, TypeOK
    <2>2. Explained(About[r[1]])'
      BY <2>1 DEF Explained, Requests, Carries
    <2>3. ASSUME NEW d \in Inbound, MakeKey(MessageKey(d)) \in claims',
                 MakeKey(MessageKey(d)) \notin claims
          PROVE  Explained(About[d])'
      <3>1. About[d] = About[r[1]]
        BY <2>1, <2>3, KeyFacts, AboutInbound
      <3>2. QED
        BY <2>2, <3>1
    <2>4. \A d \in Inbound :
              MakeKey(DeliveryKey(d)) \in claims' => MakeKey(DeliveryKey(d)) \in claims
      BY <2>1, KeyFacts, AboutInbound
    <2>5. ~Carries(r)
      BY <2>1 DEF Carries, Lost, TypeInv, RowPhase
    <2>6. QED
      BY <2>1, <2>2, <2>3, <2>4, <2>5, GateKeeps
  <1>6. ASSUME NEW r \in Request, SkipDuplicate(r) PROVE GateInv'
    <2>1. /\ UNCHANGED <<claims, rowOf, stored>> /\ at[r] = "handle" /\ Goto(r, "commit")
          /\ r[1] \in Inbound /\ MakeKey(MessageKey(r[1])) \in claims
          /\ at'[r] = "commit" /\ \A q \in Request : q # r => at'[q] = at[q]
      BY <1>6 DEF SkipDuplicate, Free, Goto, TypeInv, TypeOK
    <2>2. ~Carries(r)
      BY <2>1 DEF Carries, Lost, TypeInv, RowPhase
    <2>3. Explained(About[r[1]])'
      BY <2>1, <2>2 DEF GateInv, Explained, Requests, Carries
    <2>4. QED
      BY <2>1, <2>2, <2>3, GateMoves
  <1>7. ASSUME NEW r \in Request, NoAccount(r) \/ InsertMessage(r) \/ InsertFails(r)
        PROVE  GateInv'
    <2>1. claims' = claims
      BY <1>7, ReleaseKeepsClaims, RequestDelivery DEF NoAccount, InsertMessage, InsertFails, ClaimInv
    <2>2. PICK phase \in {"noAccount", "follow", "fail", "raised"} : Goto(r, phase)
      BY <1>7 DEF NoAccount, InsertMessage, InsertFails
    <2>3. /\ at[r] = "store" /\ stored' = stored /\ at'[r] = phase
          /\ \A q \in Request : q # r => rowOf'[q] = rowOf[q]
      BY <1>7, <2>2 DEF NoAccount, InsertMessage, InsertFails, Goto, TypeInv, TypeOK
    <2>4. phase = "follow" => rowOf'[r]
      BY <1>7, <2>3 DEF NoAccount, InsertMessage, InsertFails, Goto, TypeInv, TypeOK
    <2>5. Carries(r)'
      BY <2>3, <2>4 DEF Carries, Lost
    <2>6. QED
      BY <2>1, <2>2, <2>3, <2>4, <2>5, GateMoves
  <1>8. ASSUME NEW r \in Request, FollowUp(r) PROVE GateInv'
    <2>1. PICK phase \in {"commit", "fail"} : Goto(r, phase)
      BY <1>8 DEF FollowUp
    <2>2. UNCHANGED <<claims, rowOf, stored>> /\ at[r] = "follow" /\ rowOf[r]
      BY <1>8 DEF FollowUp, GateInv
    <2>3. Carries(r)' /\ Explained(About[r[1]])'
      BY <2>2 DEF Carries, Explained, Requests
    <2>4. QED
      BY <2>1, <2>2, <2>3, GateMoves
  <1>9. ASSUME NEW r \in Request, ReadStatus(r) \/ ApplyAck(r) \/ SkipAck(r) \/ AckFails(r)
        PROVE  GateInv'
    <2>1. PICK phase \in {"apply", "commit", "fail"} : Goto(r, phase)
      BY <1>9 DEF ReadStatus, ApplyAck, SkipAck, AckFails
    <2>2. /\ UNCHANGED <<claims, rowOf, stored>> /\ at[r] \in {"handle", "apply"}
          /\ r[1] \notin Inbound
      BY <1>9, DeliveryAssumption
         DEF ReadStatus, ApplyAck, SkipAck, AckFails, TypeInv, RowPhase
    <2>3. ~Carries(r)
      BY <2>2 DEF Carries, Lost, TypeInv, RowPhase
    <2>4. QED
      BY <2>1, <2>2, <2>3, GateMoves
  <1>10. ASSUME NEW r \in Request, Commit(r) PROVE GateInv'
    <2>1. at[r] = "commit" /\ claims' = claims
      BY <1>10 DEF Commit
    <2>2. CASE CommitRows(r) /\ Goto(r, "ok")
      <3>1. ASSUME r[1] \in Inbound PROVE Explained(About[r[1]])'
        <4>1. Explained(About[r[1]]) /\ About[r[1]] \in Message
          BY <2>1, <3>1, AboutInbound DEF GateInv
        <4>2. CASE rowOf[r]
          BY <2>2, <4>2, CommittedIsStored DEF Explained
        <4>3. CASE ~rowOf[r]
          <5>1. \A q \in Request : q # r => at'[q] = at[q] /\ rowOf'[q] = rowOf[q]
            BY <2>2, CommittedIsStored DEF Goto, TypeInv, TypeOK
          <5>2. ~Carries(r)
            BY <2>1, <4>3 DEF Carries, Lost
          <5>3. QED
            BY <2>2, <4>1, <5>1, <5>2, CommittedIsStored DEF Explained, Requests, Carries
        <4>4. QED
          BY <4>2, <4>3
      <3>2. Carries(r) => stored'[About[r[1]]] > 0
        BY <2>1, <2>2, CommittedIsStored DEF Carries, Lost
      <3>3. QED
        BY <2>1, <2>2, <3>1, <3>2, CommittedIsStored, GateMoves
    <2>3. CASE Rollback(r) /\ Goto(r, "raised")
      <3>1. /\ stored' = stored /\ at'[r] = "raised"
            /\ \A q \in Request : q # r => rowOf'[q] = rowOf[q]
        BY <2>3 DEF Rollback, Goto, TypeInv, TypeOK
      <3>2. Carries(r)'
        BY <3>1 DEF Carries, Lost
      <3>3. QED
        BY <2>1, <2>3, <3>1, <3>2, GateMoves
    <2>4. QED
      BY <1>10, <2>2, <2>3 DEF Commit
  <1>11. ASSUME NEW r \in Request, ReportFailure(r) PROVE GateInv'
    <2>1. claims' = claims
      BY <1>11, ReleaseKeepsClaims, RequestDelivery DEF ReportFailure, ClaimInv
    <2>2. at[r] = "fail" /\ Goto(r, "reported") /\ CommitRows(r) /\ at'[r] = "reported"
      BY <1>11 DEF ReportFailure, Goto, TypeInv, TypeOK
    <2>3. Carries(r)'
      BY <2>2 DEF Carries, Lost
    <2>4. QED
      BY <2>1, <2>2, <2>3, CommittedIsStored, GateMoves
  <1>12. ASSUME NEW r \in Request, ReportRaises(r) \/ Kill(r) PROVE GateInv'
    <2>1. PICK phase \in {"raised", "dead"} : Goto(r, phase)
      BY <1>12 DEF ReportRaises, Kill
    <2>2. /\ stored' = stored /\ claims' = claims /\ at'[r] = phase
          /\ \A q \in Request : q # r => rowOf'[q] = rowOf[q]
      BY <1>12, <2>1 DEF ReportRaises, Kill, Rollback, Goto, TypeInv, TypeOK
    <2>3. Carries(r)' /\ Explained(About[r[1]])'
      BY <2>2 DEF Carries, Lost, Explained, Requests
    <2>4. QED
      BY <2>1, <2>2, <2>3, GateMoves
  <1>13. CASE UNCHANGED vars \/ \E o \in Sent : SentCommits(o)
    <2>1. UNCHANGED <<at, claims, rowOf, stored>>
      BY <1>13 DEF vars, SentCommits
    <2>2. QED
      BY <2>1 DEF GateInv, Explained, BeforeGate, Carries, MakeKey, MessageKey, DeliveryKey
  <1>14. QED
    BY <1>1, <1>2, <1>3, <1>4, <1>5, <1>6, <1>7, <1>8, <1>9, <1>10, <1>11, <1>12, <1>13
       DEF Next, RequestStep

\* Deduplication alone loses no message: behind every claim that dismisses a
\* delivery is a row, a request at work, or one that failed
\* (api/webhook.py:51-61, 293-306).
THEOREM NothingLostSilently == Spec => []LossIsExplained
  <1>1. ASSUME TypeInv, GateInv, NEW m \in Message, NEW r \in Requests(m), at[r] \in Accepted,
               \A q \in Requests(m) : at[q] \notin InFlight
        PROVE  stored[m] > 0 \/ \E q \in Requests(m) : at[q] \in Lost
    <2>1. r \in Request /\ About[r[1]] = m /\ r[1] \in Inbound
      BY <1>1, DeliveryAssumption, RequestDelivery DEF Requests, Delivery
    <2>2. CASE at[r] \in {"noAccount", "stale"}
      BY <2>2 DEF Lost
    <2>3. CASE at[r] \in {"ok", "duplicate"}
      <3>1. ~BeforeGate(r[1])
        BY <1>1, <2>1 DEF BeforeGate, Requests, InFlight
      <3>2. Explained(About[r[1]]) \/ BeforeGate(r[1])
        BY <1>1, <2>1, <2>3 DEF GateInv
      <3>3. Explained(m)
        BY <2>1, <3>1, <3>2
      <3>4. ASSUME NEW q \in Requests(m), Carries(q) PROVE at[q] \in Lost
        BY <1>1, <3>4 DEF Carries, Requests, TypeInv, TypeOK, InFlight
      <3>5. QED
        BY <3>3, <3>4 DEF Explained
    <2>4. QED
      BY <1>1, <2>2, <2>3 DEF Accepted
  <1>2. TypeInv /\ GateInv => LossIsExplained
    BY <1>1 DEF LossIsExplained
  <1>3. QED
    BY <1>2, InitTypeInv, StepTypeInv, InitClaimInv, StepClaimInv, InitGateInv, StepGateInv, PTL
       DEF Spec

=============================================================================
