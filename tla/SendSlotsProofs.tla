-------------------------- MODULE SendSlotsProofs --------------------------
(* Theorems about SendSlots, for every set of sessions and messages, every *)
(* cap and rate, and any number of faults and midnights.  The counters and *)
(* the windows do not need each other: each has an invariant of its own.   *)
EXTENDS SendSlots, FoldLemmas

-----------------------------------------------------------------------------
(* The inductive invariant.                                                *)

\* The types of the variables the counters depend on.
CountTypes ==
    /\ counter \in [Session -> Nat]
    /\ pc \in [Message -> Phases]
    /\ on \in [Message -> Session \cup {NoSession}]
    /\ change \in [Message -> {-1, 0, 1}]
    /\ doc \in [Saver -> Doc]
    /\ restored \in [Session -> Nat]
    /\ wentOut \subseteq Message
    /\ today \subseteq wentOut
    /\ booked \subseteq wentOut

\* What each phase tells of a message.
PhaseFacts ==
    \A m \in Message :
        /\ pc[m] # "idle" => on[m] \in Session
        /\ m \in wentOut => pc[m] \notin {"idle", "gateway", "session", "claim", "send"}
        /\ change[m] # 0 => InTransaction(m)
        /\ change[m] = 1 /\ pc[m] = "commit" => m \in booked
        /\ change[m] = -1 => pc[m] = "commit"
        /\ pc[m] = "send" => change[m] = 1

\* Open transactions exclude each other as the row locks say.
LocksExclude ==
    \A p, q \in Message :
        p # q /\ InTransaction(p) /\ InTransaction(q) => on[p] # on[q]

\* While a message holds a claim and has not been sent, the cap it was granted
\* under still has room: nobody else could write the row since.
ClaimStillGood ==
    \A m \in Message :
        pc[m] = "send" =>
            SoftCap[on[m]] = 0 \/ counter[on[m]] < SoftCap[on[m]]

\* Messages of s whose count is committed or lost.
Settled(s) == {m \in booked : on[m] = s /\ change[m] # 1}

\* The counter of s lies between two sets of messages, and the cap holds.
Bounds(s) ==
    /\ counter[s] <= Cardinality(Settled(s)) + restored[s]
    /\ Cardinality(SettledOnCap(s)) <= counter[s]
    /\ SoftCap[s] > 0 => Cardinality(OnCap(s)) <= SoftCap[s]

CountersBounded == \A s \in Session : Bounds(s)

\* A document read since the last reset holds no more than that.
DocsBounded ==
    \A d \in Saver : \A s \in Session :
        doc[d].of = s /\ ~doc[d].reset =>
            doc[d].count <= Cardinality(Settled(s)) + restored[s]

IInv == /\ CountTypes /\ PhaseFacts /\ LocksExclude /\ ClaimStillGood
        /\ CountersBounded /\ DocsBounded

-----------------------------------------------------------------------------
(* Types and phases.                                                       *)

\* Every step keeps both.
LEMMA StepTypes ==
    ASSUME CountTypes, PhaseFacts, [Next]_vars
    PROVE  CountTypes' /\ PhaseFacts'
  <1> USE DEF CountTypes, PhaseFacts, InTransaction, Phases, Goto, BackToIdle,
              windows, history
  <1>1. ASSUME NEW m \in Message, Begin(m) PROVE CountTypes' /\ PhaseFacts'
    BY <1>1 DEF Begin
  <1>2. ASSUME NEW m \in Message, TakeGateway(m) PROVE CountTypes' /\ PhaseFacts'
    BY <1>2 DEF TakeGateway
  <1>3. ASSUME NEW m \in Message, GatewayRefuses(m) PROVE CountTypes' /\ PhaseFacts'
    BY <1>3 DEF GatewayRefuses
  <1>4. ASSUME NEW m \in Message, TakeSession(m) PROVE CountTypes' /\ PhaseFacts'
    BY <1>4 DEF TakeSession
  <1>5. ASSUME NEW m \in Message, SessionRefuses(m) PROVE CountTypes' /\ PhaseFacts'
    BY <1>5 DEF SessionRefuses
  <1>6. ASSUME NEW m \in Message, Claim(m) PROVE CountTypes' /\ PhaseFacts'
    BY <1>6 DEF Claim
  <1>7. ASSUME NEW m \in Message, ClaimRefused(m) PROVE CountTypes' /\ PhaseFacts'
    BY <1>7 DEF ClaimRefused
  <1>8. ASSUME NEW m \in Message, Send(m) PROVE CountTypes' /\ PhaseFacts'
    BY <1>8 DEF Send
  <1>9. ASSUME NEW m \in Message, GiveBackSession(m) PROVE CountTypes' /\ PhaseFacts'
    BY <1>9 DEF GiveBackSession
  <1>10. ASSUME NEW m \in Message, GiveBackGateway(m) PROVE CountTypes' /\ PhaseFacts'
    BY <1>10 DEF GiveBackGateway
  <1>11. ASSUME NEW m \in Message, GiveBackDay(m) PROVE CountTypes' /\ PhaseFacts'
    BY <1>11 DEF GiveBackDay
  <1>12. ASSUME NEW m \in Message, CountSlot(m) PROVE CountTypes' /\ PhaseFacts'
    BY <1>12 DEF CountSlot
  <1>13. ASSUME NEW m \in Message, Commit(m) PROVE CountTypes' /\ PhaseFacts'
    BY <1>13 DEF Commit, Recount
  <1>14. ASSUME NEW m \in Message, Abort(m) PROVE CountTypes' /\ PhaseFacts'
    BY <1>14 DEF Abort
  <1>15. CASE Midnight
    BY <1>15 DEF Midnight
  <1>16. CASE ResetCounters
    <2>1. doc' \in [Saver -> Doc]
      <3>1. \A d \in Saver :
               [doc[d] EXCEPT !.reset = @ \/ doc[d].of \in Session] \in Doc
        <4> SUFFICES ASSUME NEW d \in Saver, NEW b \in BOOLEAN
                     PROVE  [doc[d] EXCEPT !.reset = b] \in Doc
          BY Zenon
        <4>1. doc[d] \in Doc
          BY Zenon
        <4>2. QED
          BY <4>1 DEF Doc
      <3>2. doc' = [d \in Saver |->
                      [doc[d] EXCEPT !.reset = @ \/ doc[d].of \in Session]]
        BY <1>16 DEF ResetCounters
      <3>3. QED
        BY <3>1, <3>2, Zenon
    <2>2. QED
      BY <1>16, <2>1 DEF ResetCounters
  <1>17. CASE ResetFails
    BY <1>17 DEF ResetFails
  <1>18. CASE Tick
    BY <1>18 DEF Tick
  <1>19. CASE UNCHANGED vars
    BY <1>19 DEF vars
  <1>20. ASSUME NEW m \in Message, ReleaseAgain(m) PROVE CountTypes' /\ PhaseFacts'
    BY <1>20 DEF ReleaseAgain
  <1>21. ASSUME NEW d \in Saver, ReadRow(d) PROVE CountTypes' /\ PhaseFacts'
    BY <1>21, SessionAssumption DEF ReadRow, Doc
  <1>22. ASSUME NEW d \in Saver, SaveRow(d) PROVE CountTypes' /\ PhaseFacts'
    BY <1>22 DEF SaveRow, Recount, Doc, NoDoc
  <1>23. QED
    BY <1>1, <1>2, <1>3, <1>4, <1>5, <1>6, <1>7, <1>8, <1>9, <1>10, <1>11,
       <1>12, <1>13, <1>14, <1>15, <1>16, <1>17, <1>18, <1>19, <1>20, <1>21,
       <1>22 DEF Next, MessageStep

-----------------------------------------------------------------------------
(* Locks.                                                                  *)

\* Only a claim, and a count of a notification, open a transaction; both wait
\* for the row.
LEMMA StepLocks ==
    ASSUME CountTypes, PhaseFacts, LocksExclude, [Next]_vars
    PROVE  LocksExclude'
  <1> USE DEF CountTypes, PhaseFacts, LocksExclude, InTransaction, LocksFree,
              Phases, Goto, BackToIdle, windows, history
  <1>1. ASSUME NEW m \in Message, Begin(m) PROVE LocksExclude'
    BY <1>1 DEF Begin
  <1>2. ASSUME NEW m \in Message, TakeGateway(m) PROVE LocksExclude'
    BY <1>2 DEF TakeGateway
  <1>3. ASSUME NEW m \in Message, GatewayRefuses(m) PROVE LocksExclude'
    BY <1>3 DEF GatewayRefuses
  <1>4. ASSUME NEW m \in Message, TakeSession(m) PROVE LocksExclude'
    BY <1>4 DEF TakeSession
  <1>5. ASSUME NEW m \in Message, SessionRefuses(m) PROVE LocksExclude'
    BY <1>5 DEF SessionRefuses
  <1>6. ASSUME NEW m \in Message, Claim(m) PROVE LocksExclude'
    BY <1>6 DEF Claim
  <1>7. ASSUME NEW m \in Message, ClaimRefused(m) PROVE LocksExclude'
    BY <1>7 DEF ClaimRefused
  <1>8. ASSUME NEW m \in Message, Send(m) PROVE LocksExclude'
    BY <1>8 DEF Send
  <1>9. ASSUME NEW m \in Message, GiveBackSession(m) PROVE LocksExclude'
    BY <1>9 DEF GiveBackSession
  <1>10. ASSUME NEW m \in Message, GiveBackGateway(m) PROVE LocksExclude'
    BY <1>10 DEF GiveBackGateway
  <1>11. ASSUME NEW m \in Message, GiveBackDay(m) PROVE LocksExclude'
    BY <1>11 DEF GiveBackDay
  <1>12. ASSUME NEW m \in Message, CountSlot(m) PROVE LocksExclude'
    BY <1>12 DEF CountSlot
  <1>13. ASSUME NEW m \in Message, Commit(m) PROVE LocksExclude'
    BY <1>13 DEF Commit
  <1>14. ASSUME NEW m \in Message, Abort(m) PROVE LocksExclude'
    BY <1>14 DEF Abort
  <1>15. CASE Midnight
    BY <1>15 DEF Midnight
  <1>16. CASE ResetCounters
    BY <1>16 DEF ResetCounters
  <1>17. CASE ResetFails
    BY <1>17 DEF ResetFails
  <1>18. CASE Tick
    BY <1>18 DEF Tick
  <1>19. CASE UNCHANGED vars
    BY <1>19 DEF vars
  <1>20. ASSUME NEW m \in Message, ReleaseAgain(m) PROVE LocksExclude'
    BY <1>20 DEF ReleaseAgain
  <1>21. ASSUME NEW d \in Saver, ReadRow(d) PROVE LocksExclude'
    BY <1>21 DEF ReadRow
  <1>22. ASSUME NEW d \in Saver, SaveRow(d) PROVE LocksExclude'
    BY <1>22 DEF SaveRow
  <1>23. QED
    BY <1>1, <1>2, <1>3, <1>4, <1>5, <1>6, <1>7, <1>8, <1>9, <1>10, <1>11,
       <1>12, <1>13, <1>14, <1>15, <1>16, <1>17, <1>18, <1>19, <1>20, <1>21,
       <1>22 DEF Next, MessageStep

\* Only a commit raises a counter, and it holds the row: no claim on the same
\* session is waiting to be sent.
LEMMA StepClaim ==
    ASSUME CountTypes, PhaseFacts, LocksExclude, ClaimStillGood, [Next]_vars
    PROVE  ClaimStillGood'
  <1> USE LimitAssumption DEF CountTypes, PhaseFacts, ClaimStillGood, Phases,
              Goto, BackToIdle, windows, history
  <1>1. ASSUME NEW m \in Message, Begin(m) PROVE ClaimStillGood'
    BY <1>1 DEF Begin
  <1>2. ASSUME NEW m \in Message, TakeGateway(m) PROVE ClaimStillGood'
    BY <1>2 DEF TakeGateway
  <1>3. ASSUME NEW m \in Message, GatewayRefuses(m) PROVE ClaimStillGood'
    BY <1>3 DEF GatewayRefuses
  <1>4. ASSUME NEW m \in Message, TakeSession(m) PROVE ClaimStillGood'
    BY <1>4 DEF TakeSession
  <1>5. ASSUME NEW m \in Message, SessionRefuses(m) PROVE ClaimStillGood'
    BY <1>5 DEF SessionRefuses
  <1>6. ASSUME NEW m \in Message, Claim(m) PROVE ClaimStillGood'
    BY <1>6 DEF Claim, UnderCaps
  <1>7. ASSUME NEW m \in Message, ClaimRefused(m) PROVE ClaimStillGood'
    BY <1>7 DEF ClaimRefused
  <1>8. ASSUME NEW m \in Message, Send(m) PROVE ClaimStillGood'
    BY <1>8 DEF Send
  <1>9. ASSUME NEW m \in Message, GiveBackSession(m) PROVE ClaimStillGood'
    BY <1>9 DEF GiveBackSession
  <1>10. ASSUME NEW m \in Message, GiveBackGateway(m) PROVE ClaimStillGood'
    BY <1>10 DEF GiveBackGateway
  <1>11. ASSUME NEW m \in Message, GiveBackDay(m) PROVE ClaimStillGood'
    BY <1>11 DEF GiveBackDay
  <1>12. ASSUME NEW m \in Message, CountSlot(m) PROVE ClaimStillGood'
    BY <1>12 DEF CountSlot
  <1>13. ASSUME NEW m \in Message, Commit(m) PROVE ClaimStillGood'
    BY <1>13 DEF Commit, Recount, LocksExclude, InTransaction
  <1>14. ASSUME NEW m \in Message, Abort(m) PROVE ClaimStillGood'
    BY <1>14 DEF Abort
  <1>15. CASE Midnight
    BY <1>15 DEF Midnight
  <1>16. CASE ResetCounters
    BY <1>16 DEF ResetCounters, InTransaction
  <1>17. CASE ResetFails
    BY <1>17 DEF ResetFails
  <1>18. CASE Tick
    BY <1>18 DEF Tick
  <1>19. CASE UNCHANGED vars
    BY <1>19 DEF vars
  <1>20. ASSUME NEW m \in Message, ReleaseAgain(m) PROVE ClaimStillGood'
    BY <1>20 DEF ReleaseAgain
  <1>21. ASSUME NEW d \in Saver, ReadRow(d) PROVE ClaimStillGood'
    BY <1>21 DEF ReadRow
  <1>22. ASSUME NEW d \in Saver, SaveRow(d) PROVE ClaimStillGood'
    BY <1>22 DEF SaveRow, Recount, LocksFree, InTransaction
  <1>23. QED
    BY <1>1, <1>2, <1>3, <1>4, <1>5, <1>6, <1>7, <1>8, <1>9, <1>10, <1>11,
       <1>12, <1>13, <1>14, <1>15, <1>16, <1>17, <1>18, <1>19, <1>20, <1>21,
       <1>22 DEF Next, MessageStep

-----------------------------------------------------------------------------
(* Counters.                                                               *)

LEMMA MessageSets ==
    ASSUME NEW S \in SUBSET Message
    PROVE  /\ IsFiniteSet(S) /\ Cardinality(S) \in Nat
           /\ \A T \in SUBSET S : Cardinality(T) <= Cardinality(S)
  BY FiniteAssumption, FS_Subset, FS_CardinalityType

\* One message more counts for one.
LEMMA OneMore ==
    ASSUME NEW S \in SUBSET Message, NEW m \in Message
    PROVE  /\ Cardinality(S \cup {m}) <= Cardinality(S) + 1
           /\ m \notin S => Cardinality(S \cup {m}) = Cardinality(S) + 1
  BY MessageSets, FS_AddElement

LEMMA CountedSets ==
    ASSUME CountTypes, NEW s \in Session
    PROVE  /\ Settled(s) \in SUBSET Message
           /\ OnCap(s) \in SUBSET Message
           /\ SettledOnCap(s) \in SUBSET OnCap(s)
  BY DEF CountTypes, Settled, OnCap, SettledOnCap, Counted

LEMMA CountedSetsNext ==
    ASSUME CountTypes', NEW s \in Session
    PROVE  /\ Settled(s)' \in SUBSET Message
           /\ OnCap(s)' \in SUBSET Message
           /\ SettledOnCap(s)' \in SUBSET OnCap(s)'
  BY DEF CountTypes, Settled, OnCap, SettledOnCap, Counted

\* What has been lost leaves no more messages than the counter says.
LEMMA RecountFits ==
    ASSUME CountTypes, NEW s \in Session, Bounds(s), NEW n \in Nat, Recount(s, n)
    PROVE  /\ counter'[s] = n /\ missing \subseteq missing'
           /\ Cardinality(SettledOnCap(s) \ missing') <= n
  <1> DEFINE S == SettledOnCap(s)
  <1>1. counter'[s] = n /\ counter[s] \in Nat
    BY DEF Recount, CountTypes
  <1>2. PICK gone \in SUBSET S :
           /\ Cardinality(gone) = IF n < counter[s] /\ n < Cardinality(S)
                                  THEN Cardinality(S) - n ELSE 0
           /\ missing' = missing \cup gone
    BY DEF Recount
  <1>3. IsFiniteSet(S) /\ Cardinality(S) \in Nat /\ Cardinality(S) <= counter[s]
        /\ S \in SUBSET Message
    BY CountedSets, MessageSets DEF Bounds
  <1>4. S \ missing' \subseteq S \ gone
    BY <1>2
  <1> HIDE DEF S
  <1>5. /\ Cardinality(S \ gone) = Cardinality(S) - Cardinality(gone)
        /\ Cardinality(gone) \in Nat /\ Cardinality(S \ gone) \in Nat
    <2>1. S \cap gone = gone /\ IsFiniteSet(gone) /\ IsFiniteSet(S \ gone)
      BY <1>3, FS_Subset
    <2>2. QED
      BY <1>3, <2>1, FS_Difference, FS_CardinalityType
  <1>6. Cardinality(S \ gone) <= n
    BY <1>1, <1>2, <1>3, <1>5
  <1>7. Cardinality(S \ missing') <= Cardinality(S \ gone) /\ Cardinality(S \ missing') \in Nat
    <2>1. S \ gone \in SUBSET Message /\ S \ missing' \in SUBSET (S \ gone)
      BY <1>3, <1>4
    <2>2. QED
      BY <2>1, MessageSets
  <1>8. QED
    BY <1>1, <1>2, <1>5, <1>6, <1>7 DEF S

\* The bounds, put together from what a step does to each part of them.
LEMMA BoundsKept ==
    ASSUME CountTypes, CountTypes', NEW s \in Session, Bounds(s),
           counter'[s] <= Cardinality(Settled(s)') + restored'[s],
           Cardinality(SettledOnCap(s)') <= counter'[s],
           OnCap(s)' \subseteq OnCap(s)
    PROVE  Bounds(s)'
  <1>1. /\ Cardinality(OnCap(s)) \in Nat /\ Cardinality(OnCap(s)') \in Nat
        /\ Cardinality(OnCap(s)') <= Cardinality(OnCap(s)) /\ SoftCap[s] \in Nat
    BY CountedSets, CountedSetsNext, MessageSets, LimitAssumption
  <1>2. SoftCap[s] > 0 => Cardinality(OnCap(s)') <= SoftCap[s]
    BY <1>1 DEF Bounds
  <1>3. QED
    BY <1>2 DEF Bounds

\* A step that leaves the counter of s alone, settles nothing back and puts no
\* message on the cap keeps the bounds.
LEMMA QuietStep ==
    ASSUME CountTypes, CountTypes', NEW s \in Session, Bounds(s),
           counter'[s] = counter[s], restored'[s] = restored[s],
           Settled(s) \subseteq Settled(s)',
           SettledOnCap(s)' \subseteq SettledOnCap(s),
           OnCap(s)' \subseteq OnCap(s)
    PROVE  Bounds(s)'
  <1>1. /\ Cardinality(Settled(s)) \in Nat /\ Cardinality(Settled(s)') \in Nat
        /\ Cardinality(SettledOnCap(s)) \in Nat /\ Cardinality(SettledOnCap(s)') \in Nat
        /\ counter[s] \in Nat /\ restored[s] \in Nat
    BY CountedSets, CountedSetsNext, MessageSets DEF CountTypes
  <1>2. /\ Cardinality(Settled(s)) <= Cardinality(Settled(s)')
        /\ Cardinality(SettledOnCap(s)') <= Cardinality(SettledOnCap(s))
    BY CountedSets, CountedSetsNext, MessageSets
  <1>3. counter[s] <= Cardinality(Settled(s)) + restored[s]
        /\ Cardinality(SettledOnCap(s)) <= counter[s]
    BY DEF Bounds
  <1>4. counter'[s] <= Cardinality(Settled(s)') + restored'[s]
        /\ Cardinality(SettledOnCap(s)') <= counter'[s]
    BY <1>1, <1>2, <1>3
  <1>5. QED
    BY <1>4, BoundsKept

\* A message is sent while its claim is open: it joins the messages on the cap
\* of its session, and the claim is the only one open there.
LEMMA SendBounded ==
    ASSUME IInv, CountTypes', NEW m \in Message, Send(m), NEW s \in Session
    PROVE  Bounds(s)'
  <1> USE DEF IInv, CountersBounded, CountTypes, PhaseFacts
  <1>1. /\ counter' = counter /\ on' = on /\ change' = change /\ missing' = missing
        /\ restored' = restored /\ pc[m] = "send" /\ change[m] = 1
        /\ booked \subseteq booked' /\ booked' \subseteq booked \cup {m}
        /\ today' \subseteq today \cup {m}
    BY DEF Send
  <1>2. Settled(s) \subseteq Settled(s)'
    BY <1>1 DEF Settled
  <1>3. SettledOnCap(s)' \subseteq SettledOnCap(s)
    BY <1>1 DEF SettledOnCap, OnCap, Counted
  <1>4. CASE OnCap(s)' \subseteq OnCap(s)
    BY <1>1, <1>2, <1>3, <1>4, QuietStep
  <1>5. CASE ~(OnCap(s)' \subseteq OnCap(s))
    <2>1. on[m] = s /\ OnCap(s)' \subseteq OnCap(s) \cup {m}
      BY <1>1, <1>5 DEF OnCap, Counted
    <2>2. OnCap(s)' \subseteq SettledOnCap(s) \cup {m}
      BY <1>1, <2>1 DEF OnCap, SettledOnCap, Counted, LocksExclude, InTransaction
    <2>3. SoftCap[s] = 0 \/ counter[s] < SoftCap[s]
      BY <1>1, <2>1 DEF ClaimStillGood
    <2>4. /\ Cardinality(Settled(s)) \in Nat /\ Cardinality(Settled(s)') \in Nat
          /\ Cardinality(SettledOnCap(s)) \in Nat /\ Cardinality(SettledOnCap(s)') \in Nat
          /\ Cardinality(OnCap(s)') \in Nat
      BY CountedSets, CountedSetsNext, MessageSets
    <2>5. /\ Cardinality(Settled(s)) <= Cardinality(Settled(s)')
          /\ Cardinality(SettledOnCap(s)') <= Cardinality(SettledOnCap(s))
      BY <1>2, <1>3, CountedSets, CountedSetsNext, MessageSets
    <2>6. Cardinality(OnCap(s)') <= Cardinality(SettledOnCap(s)) + 1
      <3>1. SettledOnCap(s) \in SUBSET Message
            /\ SettledOnCap(s) \cup {m} \in SUBSET Message
        BY CountedSets
      <3>2. Cardinality(SettledOnCap(s) \cup {m}) <= Cardinality(SettledOnCap(s)) + 1
            /\ Cardinality(SettledOnCap(s) \cup {m}) \in Nat
        BY <3>1, OneMore, MessageSets
      <3>3. Cardinality(OnCap(s)') <= Cardinality(SettledOnCap(s) \cup {m})
        BY <2>2, <3>1, MessageSets
      <3>4. QED
        BY <2>4, <3>2, <3>3
    <2>7. counter[s] \in Nat /\ SoftCap[s] \in Nat /\ counter'[s] = counter[s]
          /\ restored[s] \in Nat /\ restored'[s] = restored[s]
      BY <1>1, LimitAssumption
    <2>8. counter[s] <= Cardinality(Settled(s)) + restored[s]
          /\ Cardinality(SettledOnCap(s)) <= counter[s]
      BY DEF Bounds
    <2>9. counter'[s] <= Cardinality(Settled(s)') + restored'[s]
      BY <2>4, <2>5, <2>7, <2>8
    <2>10. Cardinality(SettledOnCap(s)') <= counter'[s]
      BY <2>4, <2>5, <2>7, <2>8
    <2>11. SoftCap[s] > 0 => Cardinality(OnCap(s)') <= SoftCap[s]
      BY <2>3, <2>4, <2>6, <2>7, <2>8
    <2>12. QED
      BY <2>9, <2>10, <2>11 DEF Bounds
  <1>6. QED
    BY <1>4, <1>5

\* A commit settles one message and adds 1 to its counter, or takes a count back
\* that was released twice.
LEMMA CommitBounded ==
    ASSUME IInv, CountTypes', NEW m \in Message, Commit(m), NEW s \in Session
    PROVE  Bounds(s)'
  <1> DEFINE sum == counter[s] + change[m]
             n == IF sum < 0 THEN 0 ELSE sum
  <1> USE DEF IInv, CountersBounded, CountTypes, PhaseFacts
  <1>1. /\ pc[m] = "commit" /\ booked' = booked /\ today' = today /\ restored' = restored
        /\ change' = [change EXCEPT ![m] = 0]
        /\ \A q \in Message : q \in wentOut => on'[q] = on[q]
        /\ missing \subseteq missing'
    BY DEF Commit, BackToIdle, Recount
  <1>2. Settled(s) \subseteq Settled(s)' /\ OnCap(s)' \subseteq OnCap(s)
    BY <1>1 DEF Settled, OnCap, Counted
  <1>3. CASE on[m] # s
    <2>1. counter'[s] = counter[s]
      BY <1>1, <1>3 DEF Commit, Recount
    <2>2. SettledOnCap(s)' \subseteq SettledOnCap(s)
      BY <1>1, <1>3 DEF SettledOnCap, OnCap, Counted
    <2>3. QED
      BY <1>1, <1>2, <2>1, <2>2, QuietStep
  <1>4. CASE on[m] = s
    <2>1. /\ counter[s] \in Nat /\ restored[s] \in Nat /\ restored'[s] = restored[s]
          /\ change[m] \in {-1, 0, 1} /\ n \in Nat
      BY <1>1
    <2>2. Recount(s, n)
      BY <1>1, <1>4 DEF Commit
    <2>3. /\ counter'[s] = n /\ Cardinality(SettledOnCap(s) \ missing') <= n
      BY <2>1, <2>2, RecountFits
    <2>4. /\ Cardinality(Settled(s)) \in Nat /\ Cardinality(Settled(s)') \in Nat
          /\ Cardinality(SettledOnCap(s)) \in Nat /\ Cardinality(SettledOnCap(s)') \in Nat
      BY CountedSets, CountedSetsNext, MessageSets
    <2>5. /\ counter[s] <= Cardinality(Settled(s)) + restored[s]
          /\ Cardinality(SettledOnCap(s)) <= counter[s]
      BY DEF Bounds
    <2>6. CASE change[m] # 1
      <3>1. n <= counter[s]
        BY <2>1, <2>6
      <3>2. Cardinality(Settled(s)) <= Cardinality(Settled(s)')
        BY <1>2, CountedSets, CountedSetsNext, MessageSets
      <3>3. counter'[s] <= Cardinality(Settled(s)') + restored'[s]
        BY <2>1, <2>3, <2>4, <2>5, <3>1, <3>2
      <3>4. Cardinality(SettledOnCap(s)') <= counter'[s]
        <4>1. SettledOnCap(s)' \subseteq SettledOnCap(s) \ missing'
          BY <1>1, <2>6 DEF SettledOnCap, OnCap, Counted
        <4>2. SettledOnCap(s) \ missing' \in SUBSET Message
          BY CountedSets
        <4>3. Cardinality(SettledOnCap(s)') <= Cardinality(SettledOnCap(s) \ missing')
              /\ Cardinality(SettledOnCap(s) \ missing') \in Nat
          BY <4>1, <4>2, MessageSets
        <4>4. QED
          BY <2>1, <2>3, <2>4, <4>3
      <3>5. QED
        BY <1>2, <3>3, <3>4, BoundsKept
    <2>7. CASE change[m] = 1
      <3>1. n = counter[s] + 1
        BY <2>1, <2>7
      <3>2. m \notin Settled(s) /\ Settled(s) \cup {m} \subseteq Settled(s)'
        BY <1>1, <1>2, <1>4, <2>7 DEF Settled
      <3>3. Cardinality(Settled(s)) + 1 <= Cardinality(Settled(s)')
        <4>1. Cardinality(Settled(s) \cup {m}) = Cardinality(Settled(s)) + 1
          BY <3>2, CountedSets, OneMore
        <4>2. Cardinality(Settled(s) \cup {m}) <= Cardinality(Settled(s)')
          BY <3>2, CountedSetsNext, MessageSets
        <4>3. QED
          BY <4>1, <4>2
      <3>4. Cardinality(SettledOnCap(s)') <= Cardinality(SettledOnCap(s)) + 1
        <4>1. SettledOnCap(s) \in SUBSET Message
              /\ SettledOnCap(s) \cup {m} \in SUBSET Message
          BY CountedSets
        <4>2. Cardinality(SettledOnCap(s) \cup {m}) <= Cardinality(SettledOnCap(s)) + 1
              /\ Cardinality(SettledOnCap(s) \cup {m}) \in Nat
          BY <4>1, OneMore, MessageSets
        <4>3. SettledOnCap(s)' \subseteq SettledOnCap(s) \cup {m}
          BY <1>1 DEF SettledOnCap, OnCap, Counted
        <4>4. Cardinality(SettledOnCap(s)') <= Cardinality(SettledOnCap(s) \cup {m})
          BY <4>1, <4>3, MessageSets
        <4>5. QED
          BY <2>4, <4>2, <4>4
      <3>5. counter'[s] <= Cardinality(Settled(s)') + restored'[s]
        BY <2>1, <2>3, <2>4, <2>5, <3>1, <3>3
      <3>6. Cardinality(SettledOnCap(s)') <= counter'[s]
        BY <2>1, <2>3, <2>4, <2>5, <3>1, <3>4
      <3>7. QED
        BY <1>2, <3>5, <3>6, BoundsKept
    <2>8. QED
      BY <2>1, <2>6, <2>7
  <1>5. QED
    BY <1>3, <1>4

\* A saved document writes what it holds: no more than its session's messages, or
\* what was reset since; what that loses is missing.
LEMMA SaveBounded ==
    ASSUME IInv, CountTypes', NEW d \in Saver, SaveRow(d), NEW s \in Session
    PROVE  Bounds(s)'
  <1> USE DEF IInv, CountersBounded, CountTypes
  <1>1. /\ booked' = booked /\ today' = today /\ on' = on /\ change' = change
        /\ missing \subseteq missing' /\ doc[d].of \in Session
        /\ Recount(doc[d].of, doc[d].count)
    BY DEF SaveRow, Recount
  <1>2. Settled(s)' = Settled(s) /\ OnCap(s)' \subseteq OnCap(s)
        /\ SettledOnCap(s)' \subseteq SettledOnCap(s) \ missing'
    BY <1>1 DEF Settled, OnCap, SettledOnCap, Counted
  <1>3. CASE doc[d].of # s
    <2>1. counter'[s] = counter[s] /\ restored'[s] = restored[s]
      BY <1>1, <1>3 DEF SaveRow, Recount
    <2>2. QED
      BY <1>2, <2>1, QuietStep
  <1>4. CASE doc[d].of = s
    <2>1. doc[d].count \in Nat /\ restored[s] \in Nat
      BY DEF Doc
    <2>2. /\ counter'[s] = doc[d].count
          /\ Cardinality(SettledOnCap(s) \ missing') <= doc[d].count
      BY <1>1, <1>4, <2>1, RecountFits
    <2>3. Cardinality(Settled(s)') \in Nat
      BY CountedSetsNext, MessageSets
    <2>4. counter'[s] <= Cardinality(Settled(s)') + restored'[s]
      <3>1. CASE doc[d].reset
        <4>1. restored'[s] = doc[d].count
          BY <1>4, <3>1 DEF SaveRow
        <4>2. QED
          BY <2>1, <2>2, <2>3, <4>1
      <3>2. CASE ~doc[d].reset
        <4>1. restored'[s] = restored[s]
          BY <3>2 DEF SaveRow
        <4>2. doc[d].count <= Cardinality(Settled(s)) + restored[s]
          BY <1>4, <3>2 DEF DocsBounded
        <4>3. QED
          BY <1>2, <2>2, <4>1, <4>2
      <3>3. QED
        BY <3>1, <3>2
    <2>5. Cardinality(SettledOnCap(s)') <= counter'[s]
      <3>1. SettledOnCap(s) \ missing' \in SUBSET Message
        BY CountedSets
      <3>2. /\ Cardinality(SettledOnCap(s)') <= Cardinality(SettledOnCap(s) \ missing')
            /\ Cardinality(SettledOnCap(s) \ missing') \in Nat
            /\ Cardinality(SettledOnCap(s)') \in Nat
        BY <1>2, <3>1, CountedSetsNext, MessageSets
      <3>3. QED
        BY <2>1, <2>2, <3>2
    <2>6. QED
      BY <1>2, <2>4, <2>5, BoundsKept
  <1>5. QED
    BY <1>3, <1>4

\* The reset empties the counters, and the messages on the cap with them.
LEMMA ResetBounded ==
    ASSUME CountTypes', ResetCounters, NEW s \in Session
    PROVE  Bounds(s)'
  <1>1. counter'[s] = 0 /\ restored'[s] = 0 /\ OnCap(s)' = {} /\ SettledOnCap(s)' = {}
    BY DEF ResetCounters, OnCap, SettledOnCap, Counted
  <1>2. Cardinality(Settled(s)') \in Nat /\ SoftCap[s] \in Nat
    BY CountedSetsNext, MessageSets, LimitAssumption
  <1>3. Cardinality(OnCap(s)') = 0 /\ Cardinality(SettledOnCap(s)') = 0
    BY <1>1, FS_EmptySet
  <1>4. counter'[s] <= Cardinality(Settled(s)') + restored'[s]
    BY <1>1, <1>2
  <1>5. Cardinality(SettledOnCap(s)') <= counter'[s]
    BY <1>1, <1>3
  <1>6. SoftCap[s] > 0 => Cardinality(OnCap(s)') <= SoftCap[s]
    BY <1>2, <1>3
  <1>7. QED
    BY <1>4, <1>5, <1>6 DEF Bounds

\* Every other step is quiet.
LEMMA OtherStepsQuiet ==
    ASSUME IInv, [Next]_vars, NEW s \in Session,
           \A m \in Message : ~Send(m) /\ ~Commit(m), ~ResetCounters,
           \A d \in Saver : ~SaveRow(d)
    PROVE  /\ counter'[s] = counter[s] /\ restored'[s] = restored[s]
           /\ Settled(s) \subseteq Settled(s)'
           /\ SettledOnCap(s)' \subseteq SettledOnCap(s)
           /\ OnCap(s)' \subseteq OnCap(s)
  <1> DEFINE Quiet == /\ counter'[s] = counter[s] /\ restored'[s] = restored[s]
                      /\ Settled(s) \subseteq Settled(s)'
                      /\ SettledOnCap(s)' \subseteq SettledOnCap(s)
                      /\ OnCap(s)' \subseteq OnCap(s)
  <1> SUFFICES Quiet
    OBVIOUS
  <1> USE DEF IInv, CountTypes, PhaseFacts, Settled, SettledOnCap, OnCap, Counted,
              BackToIdle, InTransaction, windows, history
  <1>1. ASSUME NEW m \in Message, Begin(m) PROVE Quiet
    BY <1>1 DEF Begin
  <1>2. ASSUME NEW m \in Message, TakeGateway(m) PROVE Quiet
    BY <1>2 DEF TakeGateway
  <1>3. ASSUME NEW m \in Message, GatewayRefuses(m) PROVE Quiet
    BY <1>3 DEF GatewayRefuses
  <1>4. ASSUME NEW m \in Message, TakeSession(m) PROVE Quiet
    BY <1>4 DEF TakeSession
  <1>5. ASSUME NEW m \in Message, SessionRefuses(m) PROVE Quiet
    BY <1>5 DEF SessionRefuses
  <1>6. ASSUME NEW m \in Message, Claim(m) PROVE Quiet
    BY <1>6 DEF Claim
  <1>7. ASSUME NEW m \in Message, ClaimRefused(m) PROVE Quiet
    BY <1>7 DEF ClaimRefused
  <1>8. ASSUME NEW m \in Message, GiveBackSession(m) PROVE Quiet
    BY <1>8 DEF GiveBackSession
  <1>9. ASSUME NEW m \in Message, GiveBackGateway(m) PROVE Quiet
    BY <1>9 DEF GiveBackGateway
  <1>10. ASSUME NEW m \in Message, GiveBackDay(m) PROVE Quiet
    BY <1>10 DEF GiveBackDay
  <1>11. ASSUME NEW m \in Message, CountSlot(m) PROVE Quiet
    BY <1>11 DEF CountSlot
  <1>12. ASSUME NEW m \in Message, Abort(m) PROVE Quiet
    BY <1>12 DEF Abort
  <1>13. CASE Midnight
    BY <1>13 DEF Midnight
  <1>14. CASE ResetFails
    BY <1>14 DEF ResetFails
  <1>15. CASE Tick
    BY <1>15 DEF Tick
  <1>16. CASE UNCHANGED vars
    BY <1>16 DEF vars
  <1>17. ASSUME NEW m \in Message, ReleaseAgain(m) PROVE Quiet
    BY <1>17 DEF ReleaseAgain
  <1>18. ASSUME NEW d \in Saver, ReadRow(d) PROVE Quiet
    BY <1>18 DEF ReadRow
  <1>19. QED
    BY <1>1, <1>2, <1>3, <1>4, <1>5, <1>6, <1>7, <1>8,
       <1>9, <1>10, <1>11, <1>12, <1>13, <1>14, <1>15, <1>16, <1>17, <1>18
       DEF Next, MessageStep

LEMMA StepCounters ==
    ASSUME IInv, CountTypes', [Next]_vars
    PROVE  CountersBounded'
  <1> SUFFICES ASSUME NEW s \in Session PROVE Bounds(s)'
    BY DEF CountersBounded
  <1>1. CASE \E m \in Message : Send(m)
    BY <1>1, SendBounded
  <1>2. CASE \E m \in Message : Commit(m)
    BY <1>2, CommitBounded
  <1>3. CASE ResetCounters
    BY <1>3, ResetBounded
  <1>4. CASE \E d \in Saver : SaveRow(d)
    BY <1>4, SaveBounded
  <1>5. CASE /\ \A m \in Message : ~Send(m) /\ ~Commit(m)
             /\ ~ResetCounters
             /\ \A d \in Saver : ~SaveRow(d)
    <2>1. Bounds(s) /\ CountTypes
      BY DEF IInv, CountersBounded
    <2>2. QED
      BY <1>5, <2>1, OtherStepsQuiet, QuietStep
  <1>6. QED
    BY <1>1, <1>2, <1>3, <1>4, <1>5

\* Without a reset the settled messages of a session only grow in number, and
\* only a save changes what was restored.
LEMMA SettledGrows ==
    ASSUME IInv, [Next]_vars, ~ResetCounters, NEW s \in Session
    PROVE  Settled(s) \subseteq Settled(s)'
  <1> USE DEF IInv, CountTypes, PhaseFacts
  <1>1. CASE \E m \in Message : Send(m)
    BY <1>1 DEF Send, Settled
  <1>2. CASE \E m \in Message : Commit(m)
    BY <1>2 DEF Commit, BackToIdle, Settled
  <1>3. CASE \E d \in Saver : SaveRow(d)
    BY <1>3 DEF SaveRow, Settled
  <1>4. CASE /\ \A m \in Message : ~Send(m) /\ ~Commit(m)
             /\ \A d \in Saver : ~SaveRow(d)
    BY <1>4, OtherStepsQuiet
  <1>5. QED
    BY <1>1, <1>2, <1>3, <1>4

\* A document is read from a counter that is bounded; a save refuses the others
\* of its session, a reset marks them all.
LEMMA StepDocs ==
    ASSUME IInv, CountTypes', [Next]_vars
    PROVE  DocsBounded'
  <1> SUFFICES ASSUME NEW e \in Saver, NEW s \in Session,
                      doc'[e].of = s, ~doc'[e].reset
               PROVE  doc'[e].count <= Cardinality(Settled(s)') + restored'[s]
    BY DEF DocsBounded
  <1> USE DEF IInv, CountTypes
  <1>1. /\ Cardinality(Settled(s)) \in Nat /\ Cardinality(Settled(s)') \in Nat
        /\ restored[s] \in Nat /\ counter[s] \in Nat
        /\ NoSession \notin Session
        /\ doc[e].count \in Nat
    BY CountedSets, CountedSetsNext, MessageSets, SessionAssumption DEF Doc
  <1>2. ~ResetCounters
    BY <1>1 DEF ResetCounters, Doc
  <1>3. Cardinality(Settled(s)) <= Cardinality(Settled(s)')
    BY <1>2, SettledGrows, CountedSets, CountedSetsNext, MessageSets
  <1>4. ASSUME doc'[e] = doc[e], restored'[s] = restored[s]
        PROVE  doc'[e].count <= Cardinality(Settled(s)') + restored'[s]
    <2>1. doc[e].count <= Cardinality(Settled(s)) + restored[s]
      BY <1>4 DEF DocsBounded
    <2>2. QED
      BY <1>1, <1>3, <1>4, <2>1
  <1>5. ASSUME NEW d \in Saver, ReadRow(d)
        PROVE  doc'[e].count <= Cardinality(Settled(s)') + restored'[s]
    <2>1. restored' = restored
      BY <1>5 DEF ReadRow, history
    <2>2. CASE d = e
      <3>1. doc'[e].count = counter[s]
        BY <1>5, <2>2 DEF ReadRow
      <3>2. counter[s] <= Cardinality(Settled(s)) + restored[s]
        BY DEF CountersBounded, Bounds
      <3>3. QED
        BY <1>1, <1>3, <2>1, <3>1, <3>2
    <2>3. CASE d # e
      <3>1. doc'[e] = doc[e]
        BY <1>5, <2>3 DEF ReadRow
      <3>2. QED
        BY <1>4, <2>1, <3>1
    <2>4. QED
      BY <2>2, <2>3
  <1>6. ASSUME NEW d \in Saver, SaveRow(d)
        PROVE  doc'[e].count <= Cardinality(Settled(s)') + restored'[s]
    <2>1. doc[e].of # doc[d].of /\ doc'[e] = doc[e]
      BY <1>1, <1>6 DEF SaveRow, NoDoc
    <2>2. restored'[s] = restored[s]
      BY <1>6, <2>1 DEF SaveRow
    <2>3. QED
      BY <1>4, <2>1, <2>2
  <1>7. CASE \A d \in Saver : ~ReadRow(d) /\ ~SaveRow(d)
    <2>1. doc' = doc /\ restored' = restored
      BY <1>2, <1>7 DEF Next, MessageStep, Begin, TakeGateway, GatewayRefuses,
         TakeSession, SessionRefuses, Claim, ClaimRefused, Send, GiveBackSession,
         GiveBackGateway, GiveBackDay, ReleaseAgain, CountSlot, Commit, Abort,
         Midnight, ResetFails, Tick, history, vars
    <2>2. QED
      BY <1>4, <2>1
  <1>8. QED
    BY <1>5, <1>6, <1>7

-----------------------------------------------------------------------------
(* Theorems.                                                               *)

LEMMA InitIInv == Init => IInv
  <1> SUFFICES ASSUME Init PROVE IInv
    OBVIOUS
  <1>1. CountTypes /\ PhaseFacts /\ LocksExclude /\ ClaimStillGood
    BY SessionAssumption
       DEF Init, CountTypes, PhaseFacts, LocksExclude, ClaimStillGood, InTransaction, Phases,
           Doc, NoDoc
  <1>2. ASSUME NEW s \in Session PROVE Bounds(s)
    <2>1. /\ counter[s] = 0 /\ restored[s] = 0
          /\ Settled(s) = {} /\ OnCap(s) = {} /\ SettledOnCap(s) = {}
      BY <1>2 DEF Init, Settled, OnCap, SettledOnCap, Counted
    <2>2. SoftCap[s] \in Nat
      BY <1>2, LimitAssumption
    <2>3. QED
      BY <2>1, <2>2, FS_EmptySet DEF Bounds
  <1>3. DocsBounded
    BY SessionAssumption DEF Init, DocsBounded, NoDoc
  <1>4. QED
    BY <1>1, <1>2, <1>3 DEF IInv, CountersBounded

LEMMA StepIInv == IInv /\ [Next]_vars => IInv'
  <1> SUFFICES ASSUME IInv, [Next]_vars PROVE IInv'
    OBVIOUS
  <1>1. CountTypes' /\ PhaseFacts'
    BY StepTypes DEF IInv
  <1>2. LocksExclude'
    BY StepLocks DEF IInv
  <1>3. ClaimStillGood'
    BY StepClaim DEF IInv
  <1>4. CountersBounded'
    BY <1>1, StepCounters
  <1>5. DocsBounded'
    BY <1>1, StepDocs
  <1>6. QED
    BY <1>1, <1>2, <1>3, <1>4, <1>5 DEF IInv

\* The inductive invariant holds.
THEOREM Invariance == Spec => []IInv
  <1>1. QED
    BY InitIInv, StepIInv, PTL DEF Spec

\* The Daily Soft Cap holds for any number of racing senders, notifications,
\* give-backs, killed processes, saved documents and midnights: the messages a
\* session has sent on reservations and its counter has not lost are never more
\* than its cap (session_cap.py:8-11).
THEOREM SoftCapHolds == Spec => []CapRespected
  <1>1. IInv => CapRespected
    BY DEF IInv, CountersBounded, Bounds, CapRespected
  <1>2. QED
    BY <1>1, Invariance, PTL

\* No slot of the day leaks: a counter never exceeds the messages sent or counted
\* on its session since the last reset (session_cap.py:103-123), whatever is given
\* back, rolled back or killed; and what a document read before the reset and saved
\* after it put back is the whole of the excess (counters.py:15).
THEOREM SlotsDoNotLeak == Spec => []NoSlotLeaks
  <1>1. ASSUME IInv PROVE NoSlotLeaks
    <2> SUFFICES ASSUME NEW s \in Session
                 PROVE  counter[s] <= Cardinality({m \in booked : on[m] = s}) + restored[s]
      BY DEF NoSlotLeaks
    <2> DEFINE All == {m \in booked : on[m] = s}
    <2>1. /\ CountTypes /\ counter[s] <= Cardinality(Settled(s)) + restored[s]
          /\ counter[s] \in Nat /\ restored[s] \in Nat
      BY <1>1 DEF IInv, CountersBounded, Bounds, CountTypes
    <2>2. Settled(s) \in SUBSET All /\ All \in SUBSET Message
      BY <2>1 DEF Settled, CountTypes
    <2>3. Cardinality(Settled(s)) <= Cardinality(All)
          /\ Cardinality(Settled(s)) \in Nat /\ Cardinality(All) \in Nat
      BY <2>2, MessageSets
    <2>4. QED
      BY <2>1, <2>3
  <1>2. QED
    BY <1>1, Invariance, PTL

-----------------------------------------------------------------------------
(* The gateway's limit: a sum over the rows that the claim has locked.     *)

\* With a limit one transaction at a time holds a claim: its SUM locks them all.
OneTransaction ==
    DailyLimit > 0 => \A p, q \in Message : InTransaction(p) /\ InTransaction(q) => p = q

\* The room a claim saw under the limit is there until the message is sent.
TotalStillGood == DailyLimit > 0 => \A m \in Message : pc[m] = "send" => Total < DailyLimit

LimitInv == OneTransaction /\ TotalStillGood /\ DailyLimitRespected

\* A step that touches no transaction.
LEMMA StepOneTransaction ==
    ASSUME IInv, OneTransaction, [Next]_vars
    PROVE  OneTransaction'
  <1> SUFFICES ASSUME DailyLimit > 0,
                      NEW p \in Message, NEW q \in Message,
                      InTransaction(p)', InTransaction(q)', p # q
               PROVE  FALSE
    BY DEF OneTransaction
  <1> USE DEF IInv, CountTypes, InTransaction, OneTransaction, Goto, BackToIdle, Phases
  <1>1. ASSUME NEW m \in Message, Claim(m) PROVE FALSE
    BY <1>1 DEF Claim, LocksFree
  <1>2. ASSUME NEW m \in Message, CountSlot(m) PROVE FALSE
    BY <1>2 DEF CountSlot, LocksFree
  <1>3. ASSUME NEW m \in Message, MessageStep(m), ~Claim(m), ~CountSlot(m) PROVE FALSE
    <2>1. \A r \in Message : InTransaction(r)' => InTransaction(r)
      BY <1>3 DEF MessageStep, Begin, TakeGateway, GatewayRefuses, TakeSession,
         SessionRefuses, ClaimRefused, Send, GiveBackSession, GiveBackGateway,
         GiveBackDay, ReleaseAgain, Commit, Abort
    <2>2. QED
      BY <2>1
  <1>4. CASE Midnight \/ ResetCounters \/ ResetFails \/ Tick \/ UNCHANGED vars
    BY <1>4 DEF Midnight, ResetCounters, ResetFails, Tick, vars
  <1>5. ASSUME NEW d \in Saver, ReadRow(d) \/ SaveRow(d) PROVE FALSE
    BY <1>5 DEF ReadRow, SaveRow
  <1>6. QED
    BY <1>1, <1>2, <1>3, <1>4, <1>5 DEF Next

LEMMA TotalMoves == ASSUME counter' = counter PROVE Total' = Total
  BY DEF Total

LEMMA StepTotal ==
    ASSUME IInv, OneTransaction, TotalStillGood, [Next]_vars
    PROVE  TotalStillGood'
  <1> SUFFICES ASSUME DailyLimit > 0, NEW q \in Message, pc'[q] = "send"
               PROVE  Total' < DailyLimit
    BY DEF TotalStillGood
  <1> USE DEF IInv, CountTypes, InTransaction, OneTransaction, Goto, BackToIdle, Phases
  <1>1. ASSUME NEW m \in Message, Claim(m) PROVE Total' < DailyLimit
    <2>1. DailyLimit # 0 /\ DailyLimit \in Nat
      BY LimitAssumption
    <2>2. Total < DailyLimit /\ counter' = counter
      BY <1>1, <2>1 DEF Claim, UnderCaps
    <2>3. QED
      BY <2>2, TotalMoves
  <1>2. ASSUME NEW m \in Message, Commit(m) PROVE FALSE
    <2>1. pc[m] = "commit" /\ pc'[m] # "send"
      BY <1>2 DEF Commit
    <2>2. q # m /\ pc[q] = "send"
      BY <1>2, <2>1 DEF Commit
    <2>3. QED
      BY <2>1, <2>2
  <1>3. ASSUME NEW m \in Message, MessageStep(m), ~Claim(m), ~Commit(m)
        PROVE  Total' < DailyLimit
    <2>1. pc[q] = "send" /\ counter' = counter
      BY <1>3 DEF MessageStep, Begin, TakeGateway, GatewayRefuses, TakeSession,
         SessionRefuses, ClaimRefused, Send, GiveBackSession, GiveBackGateway,
         GiveBackDay, ReleaseAgain, CountSlot, Abort
    <2>2. QED
      BY <2>1, TotalMoves DEF TotalStillGood
  <1>4. CASE ResetCounters
    BY <1>4 DEF ResetCounters
  <1>5. CASE Midnight \/ ResetFails \/ Tick \/ UNCHANGED vars \/ \E d \in Saver : ReadRow(d)
    <2>1. pc[q] = "send" /\ counter' = counter
      BY <1>5 DEF Midnight, ResetFails, Tick, ReadRow, vars
    <2>2. QED
      BY <2>1, TotalMoves DEF TotalStillGood
  <1>6. ASSUME NEW d \in Saver, SaveRow(d) PROVE FALSE
    BY <1>6 DEF SaveRow, LocksFree
  <1>7. QED
    BY <1>1, <1>2, <1>3, <1>4, <1>5, <1>6 DEF Next

\* The messages of the day whose count is settled fit under the counters.
SettledToday == {m \in Counted : change[m] # 1}

LEMMA SettledFits ==
    ASSUME IInv
    PROVE  Cardinality(SettledToday) <= Total /\ Total \in Int
  <1>1. SettledToday \in SUBSET Message /\ counter \in [Session -> Nat]
    BY DEF IInv, CountTypes, SettledToday, Counted
  <1>2. IsFiniteSet(SettledToday)
    BY <1>1, MessageSets
  <1>3. \A s \in Session : Cardinality({m \in SettledToday : on[m] = s}) <= counter[s]
    <2> SUFFICES ASSUME NEW s \in Session
                 PROVE  Cardinality({m \in SettledToday : on[m] = s}) <= counter[s]
      OBVIOUS
    <2>1. {m \in SettledToday : on[m] = s} = SettledOnCap(s)
      BY DEF SettledToday, SettledOnCap, OnCap
    <2>2. QED
      BY <2>1 DEF IInv, CountersBounded, Bounds
  <1>4. SettledToday = {m \in SettledToday : on[m] \in Session}
    BY DEF IInv, CountTypes, PhaseFacts, SettledToday, Counted
  <1>5. \A s \in Session : counter[s] \in Int
    BY <1>1
  <1>6. Cardinality({m \in SettledToday : on[m] \in Session}) <= Sum(counter, Session)
    <2> HIDE DEF SettledToday
    <2>1. QED
      BY <1>2, <1>3, <1>5, FiniteAssumption, SumHolds
  <1>7. Sum(counter, Session) \in Int
    BY <1>5, FiniteAssumption, SumInt
  <1>8. QED
    BY <1>4, <1>6, <1>7 DEF Total, Sum

\* Only a send adds to the messages of the day.
LEMMA CountedShrinks ==
    ASSUME IInv, [Next]_vars, \A m \in Message : ~Send(m)
    PROVE  Counted' \subseteq Counted
  <1> USE DEF Counted, history, windows
  <1>1. ASSUME NEW m \in Message, MessageStep(m) PROVE Counted' \subseteq Counted
    BY <1>1 DEF MessageStep, Begin, TakeGateway, GatewayRefuses, TakeSession,
       SessionRefuses, Claim, ClaimRefused, GiveBackSession, GiveBackGateway,
       GiveBackDay, ReleaseAgain, CountSlot, Commit, Recount, Abort
  <1>2. CASE Midnight \/ ResetCounters \/ ResetFails \/ Tick \/ UNCHANGED vars
    BY <1>2 DEF Midnight, ResetCounters, ResetFails, Tick, vars
  <1>3. ASSUME NEW d \in Saver, ReadRow(d) \/ SaveRow(d) PROVE Counted' \subseteq Counted
    BY <1>3 DEF ReadRow, SaveRow, Recount
  <1>4. QED
    BY <1>1, <1>2, <1>3 DEF Next

LEMMA StepDailyLimit ==
    ASSUME IInv, LimitInv, [Next]_vars
    PROVE  DailyLimitRespected'
  <1> SUFFICES ASSUME DailyLimit > 0 PROVE Cardinality(Counted') <= DailyLimit
    BY DEF DailyLimitRespected
  <1>1. DailyLimit \in Nat /\ Cardinality(Counted) <= DailyLimit /\ Counted \in SUBSET Message
    BY LimitAssumption DEF LimitInv, DailyLimitRespected, IInv, CountTypes, Counted
  <1>2. ASSUME NEW m \in Message, Send(m) PROVE Cardinality(Counted') <= DailyLimit
    <2>1. pc[m] = "send" /\ Counted' \subseteq Counted \cup {m}
      BY <1>2 DEF Send, Counted
    <2>2. Total < DailyLimit
      BY <2>1 DEF LimitInv, TotalStillGood
    <2>3. Counted' \subseteq SettledToday \cup {m}
      <3>1. \A q \in Message : change[q] = 1 => q = m
        BY <2>1 DEF IInv, PhaseFacts, LimitInv, OneTransaction, InTransaction
      <3>2. QED
        BY <1>1, <2>1, <3>1 DEF SettledToday
    <2>4. SettledToday \in SUBSET Message /\ SettledToday \cup {m} \in SUBSET Message
      BY <1>1 DEF SettledToday
    <2>5. /\ Cardinality(Counted') <= Cardinality(SettledToday \cup {m})
          /\ Cardinality(SettledToday \cup {m}) <= Cardinality(SettledToday) + 1
          /\ Cardinality(Counted') \in Nat /\ Cardinality(SettledToday) \in Nat
          /\ Cardinality(SettledToday \cup {m}) \in Nat
      <3>1. Counted' \in SUBSET Message
        BY <2>3, <2>4
      <3>2. QED
        BY <2>3, <2>4, <3>1, MessageSets, OneMore
    <2>6. Cardinality(SettledToday) <= Total /\ Total \in Int
      BY SettledFits
    <2>7. QED
      BY <1>1, <2>2, <2>5, <2>6
  <1>3. CASE \A m \in Message : ~Send(m)
    <2>1. Counted' \subseteq Counted
      BY <1>3, CountedShrinks
    <2>2. /\ Cardinality(Counted') <= Cardinality(Counted)
          /\ Cardinality(Counted') \in Nat /\ Cardinality(Counted) \in Nat
      BY <1>1, <2>1, MessageSets
    <2>3. QED
      BY <1>1, <2>2
  <1>4. QED
    BY <1>2, <1>3

\* The daily limit of the gateway holds over all sessions: senders that write
\* different rows cannot pass it together (session_cap.py:48-54).
THEOREM DailyLimitHolds == Spec => []DailyLimitRespected
  <1>1. Init => LimitInv
    <2> SUFFICES ASSUME Init PROVE LimitInv
      OBVIOUS
    <2>1. OneTransaction /\ TotalStillGood
      BY DEF Init, OneTransaction, TotalStillGood, InTransaction
    <2>2. Counted = {} /\ DailyLimit \in Nat
      BY LimitAssumption DEF Init, Counted
    <2>3. QED
      BY <2>1, <2>2, FS_EmptySet DEF LimitInv, DailyLimitRespected
  <1>2. IInv /\ LimitInv /\ [Next]_vars => LimitInv'
    BY StepOneTransaction, StepTotal, StepDailyLimit DEF LimitInv
  <1>3. LimitInv => DailyLimitRespected
    BY DEF LimitInv
  <1>4. QED
    BY <1>1, <1>2, <1>3, Invariance, PTL DEF Spec

-----------------------------------------------------------------------------
(* Types.  A window that is written is a window of a session: PhaseFacts.  *)

\* What a step makes of a window is one.
LEMMA WindowSets ==
    ASSUME NEW win \in SUBSET Entry, NEW m \in Message, TypeOK
    PROVE  /\ Trim(win) \in SUBSET win /\ Take(win, m) \in SUBSET Entry
           /\ NewEntry(m) \in Entry
  <1>1. Trim(win) \in SUBSET win
    BY DEF Trim
  <1>2. NewEntry(m) \in Entry
    BY DEF TypeOK, Entry, NewEntry
  <1>3. QED
    BY <1>1, <1>2 DEF Take

\* The types a message's step can disturb, one action at a time.
OtherTypes ==
    /\ sessionWin \in [Session -> SUBSET Entry]
    /\ gatewayWin \subseteq Entry
    /\ slot \in [Message -> SUBSET Entry]
    /\ tries \in [Message -> Nat]
    /\ missing \subseteq Message
    /\ clock \in Nat /\ days \in Nat /\ faults \in Nat /\ resetDue \in BOOLEAN

LEMMA TypeParts ==
    /\ TypeOK => OtherTypes
    /\ CountTypes /\ OtherTypes => TypeOK
  BY DEF TypeOK, CountTypes, OtherTypes

LEMMA TypePartsNext == CountTypes' /\ OtherTypes' => TypeOK'
  BY DEF TypeOK, CountTypes, OtherTypes

\* A recount adds messages to the missing ones.
LEMMA RecountTypes ==
    ASSUME CountTypes, missing \subseteq Message, NEW s, NEW n, Recount(s, n)
    PROVE  missing' \subseteq Message
  <1>1. SettledOnCap(s) \subseteq Message
    BY DEF SettledOnCap, OnCap, Counted, CountTypes
  <1>2. QED
    BY <1>1 DEF Recount

LEMMA StepOtherTypes ==
    ASSUME IInv, TypeOK, [Next]_vars
    PROVE  OtherTypes'
  <1>1. OtherTypes /\ CountTypes /\ PhaseFacts
    BY TypeParts DEF IInv
  <1> USE <1>1 DEF OtherTypes, BackToIdle, windows, history
  <1>2. ASSUME NEW m \in Message, Begin(m) PROVE OtherTypes'
    BY <1>2 DEF Begin
  <1>3. ASSUME NEW m \in Message, TakeGateway(m) PROVE OtherTypes'
    BY <1>3, WindowSets DEF TakeGateway
  <1>4. ASSUME NEW m \in Message, GatewayRefuses(m) PROVE OtherTypes'
    BY <1>4, WindowSets DEF GatewayRefuses
  <1>5. ASSUME NEW m \in Message, TakeSession(m) PROVE OtherTypes'
    <2>1. on[m] \in Session
      BY <1>5 DEF TakeSession, PhaseFacts
    <2>2. Take(sessionWin[on[m]], m) \in SUBSET Entry /\ NewEntry(m) \in Entry
      BY <2>1, WindowSets
    <2>3. QED
      BY <1>5, <2>2 DEF TakeSession
  <1>6. ASSUME NEW m \in Message, SessionRefuses(m) PROVE OtherTypes'
    <2>1. on[m] \in Session
      BY <1>6 DEF SessionRefuses, PhaseFacts
    <2>2. Trim(sessionWin[on[m]]) \in SUBSET Entry
      BY <2>1, WindowSets
    <2>3. QED
      BY <1>6, <2>2 DEF SessionRefuses
  <1>7. ASSUME NEW m \in Message, Claim(m) \/ ClaimRefused(m) \/ Send(m) PROVE OtherTypes'
    BY <1>7 DEF Claim, ClaimRefused, Send
  <1>8. ASSUME NEW m \in Message, GiveBackSession(m) PROVE OtherTypes'
    <2>1. on[m] \in Session
      BY <1>8 DEF GiveBackSession, PhaseFacts
    <2>2. /\ sessionWin' \in [Session -> SUBSET Entry]
          /\ slot' \in [Message -> SUBSET Entry]
      BY <1>8, <2>1 DEF GiveBackSession
    <2>3. QED
      BY <1>8, <2>2 DEF GiveBackSession
  <1>9. ASSUME NEW m \in Message, GiveBackGateway(m) PROVE OtherTypes'
    BY <1>9 DEF GiveBackGateway
  <1>10. ASSUME NEW m \in Message, GiveBackDay(m) PROVE OtherTypes'
    BY <1>10 DEF GiveBackDay
  <1>11. ASSUME NEW m \in Message, CountSlot(m) PROVE OtherTypes'
    BY <1>11, BoundAssumption DEF CountSlot
  <1>12. ASSUME NEW m \in Message, Commit(m) PROVE OtherTypes'
    <2>1. missing' \subseteq Message
      BY <1>12, RecountTypes DEF Commit
    <2>2. QED
      BY <1>12, <2>1 DEF Commit
  <1>19. ASSUME NEW m \in Message, Abort(m) \/ ReleaseAgain(m) PROVE OtherTypes'
    BY <1>19 DEF Abort, ReleaseAgain
  <1>13. CASE Midnight
    BY <1>13 DEF Midnight
  <1>14. CASE ResetCounters
    BY <1>14 DEF ResetCounters, CountTypes
  <1>15. CASE ResetFails
    BY <1>15 DEF ResetFails
  <1>16. CASE Tick
    BY <1>16, BoundAssumption DEF Tick
  <1>17. CASE UNCHANGED vars
    BY <1>17 DEF vars
  <1>18. ASSUME NEW d \in Saver, ReadRow(d) \/ SaveRow(d) PROVE OtherTypes'
    <2>1. CASE ReadRow(d)
      BY <2>1 DEF ReadRow
    <2>2. CASE SaveRow(d)
      <3>1. missing' \subseteq Message
        BY <2>2, RecountTypes DEF SaveRow
      <3>2. QED
        BY <2>2, <3>1 DEF SaveRow
    <2>3. QED
      BY <1>18, <2>1, <2>2
  <1> HIDE DEF OtherTypes
  <1>20. QED
    BY <1>2, <1>3, <1>4, <1>5, <1>6, <1>7, <1>8, <1>9, <1>10, <1>11, <1>12,
       <1>13, <1>14, <1>15, <1>16, <1>17, <1>18, <1>19 DEF Next, MessageStep

\* Every variable keeps its type: in particular no step reads or writes a window
\* or a counter of "no session".
THEOREM TypeCorrect == Spec => []TypeOK
  <1>1. Init => TypeOK
    <2> SUFFICES ASSUME Init PROVE TypeOK
      OBVIOUS
    <2>1. OtherTypes
      <3>1. /\ sessionWin = [s \in Session |-> {}] /\ gatewayWin = {}
            /\ slot = [m \in Message |-> {}] /\ tries = [m \in Message |-> 0]
            /\ missing = {} /\ clock = 0 /\ days = 0 /\ faults = 0
            /\ resetDue = FALSE
        BY DEF Init
      <3>2. QED
        BY <3>1 DEF OtherTypes
    <2>2. QED
      BY <2>1, InitIInv, TypeParts DEF IInv
  <1>2. IInv /\ TypeOK /\ [Next]_vars => TypeOK'
    BY StepTypes, StepOtherTypes, TypePartsNext DEF IInv
  <1>3. QED
    BY <1>1, <1>2, Invariance, PTL DEF Spec

-----------------------------------------------------------------------------
(* The session's window: at most RateMax entries, one for every message     *)
(* that counts, and none for two.                                           *)

RoomKept ==
    \A s \in Session : IsFiniteSet(sessionWin[s]) /\ Cardinality(sessionWin[s]) <= RateMax[s]

NoneHeld == \A m \in Message : pc[m] \in {"idle", "gateway", "session"} => slot[m] = {}

\* An entry that counts for a message is in the window of its session, or too old.
EntryThere ==
    \A m \in Message : \A e \in slot[m] :
        e.at > clock - Window => on[m] \in Session /\ e \in sessionWin[on[m]]

OneEach == \A p, q \in Message : \A e \in slot[p] : e \in slot[q] => p = q

\* The entry a message is about to take is nobody's yet, although its entry of an
\* earlier try may count for another message.
TriesFresh ==
    \A q \in Message : \A e \in slot[q] :
        /\ e.try <= tries[e.msg]
        /\ pc[e.msg] \in {"gateway", "session"} => e.try < tries[e.msg]

WindowInv == RoomKept /\ NoneHeld /\ EntryThere /\ OneEach /\ TriesFresh

\* A script keeps a window within its allowance.
LEMMA WindowRoom ==
    ASSUME NEW win, IsFiniteSet(win), NEW allowance \in Nat,
           Cardinality(win) <= allowance, NEW m
    PROVE  /\ \A part \in SUBSET win :
                 IsFiniteSet(part) /\ Cardinality(part) <= allowance
           /\ HasRoom(win, allowance) =>
                 IsFiniteSet(Take(win, m)) /\ Cardinality(Take(win, m)) <= allowance
  <1>1. ASSUME NEW part \in SUBSET win
        PROVE  IsFiniteSet(part) /\ Cardinality(part) \in Nat /\ Cardinality(part) <= allowance
    <2>1. /\ IsFiniteSet(part) /\ Cardinality(part) <= Cardinality(win)
          /\ Cardinality(part) \in Nat /\ Cardinality(win) \in Nat
      BY FS_Subset, FS_CardinalityType
    <2>2. QED
      BY <2>1
  <1>2. ASSUME HasRoom(win, allowance)
        PROVE  IsFiniteSet(Take(win, m)) /\ Cardinality(Take(win, m)) <= allowance
    <2> DEFINE kept == Trim(win)
               new == NewEntry(m)
    <2>1. kept \in SUBSET win
      BY DEF Trim
    <2>2. IsFiniteSet(kept) /\ Cardinality(kept) \in Nat /\ Cardinality(kept) < allowance
      BY <1>1, <1>2, <2>1 DEF HasRoom
    <2> HIDE DEF kept, new
    <2>3. /\ IsFiniteSet(kept \cup {new})
          /\ \/ Cardinality(kept \cup {new}) = Cardinality(kept)
             \/ Cardinality(kept \cup {new}) = Cardinality(kept) + 1
      BY <2>2, FS_AddElement
    <2>4. QED
      BY <2>2, <2>3 DEF Take, kept, new
  <1>3. QED
    BY <1>1, <1>2

\* A step takes a slot as HasRoom allows, or leaves every window a part of what
\* it was.
LEMMA StepRoom ==
    ASSUME IInv, TypeOK, RoomKept, [Next]_vars
    PROVE  RoomKept'
  <1>1. /\ RateMax \in [Session -> Nat]
        /\ sessionWin \in [Session -> SUBSET Entry] /\ CountTypes /\ PhaseFacts
    BY LimitAssumption DEF TypeOK, IInv
  <1> SUFFICES ASSUME NEW s \in Session
               PROVE  IsFiniteSet(sessionWin'[s]) /\ Cardinality(sessionWin'[s]) <= RateMax[s]
    BY DEF RoomKept
  <1>2. IsFiniteSet(sessionWin[s]) /\ Cardinality(sessionWin[s]) <= RateMax[s]
    BY DEF RoomKept
  <1>3. ASSUME NEW m \in Message, TakeSession(m)
        PROVE  IsFiniteSet(sessionWin'[s]) /\ Cardinality(sessionWin'[s]) <= RateMax[s]
    <2>1. on[m] \in Session /\ HasRoom(sessionWin[on[m]], RateMax[on[m]])
          /\ sessionWin' = [sessionWin EXCEPT ![on[m]] = Take(sessionWin[on[m]], m)]
      BY <1>1, <1>3 DEF TakeSession, PhaseFacts
    <2>2. CASE on[m] = s
      <3>1. sessionWin'[s] = Take(sessionWin[s], m) /\ HasRoom(sessionWin[s], RateMax[s])
        BY <1>1, <2>1, <2>2
      <3>2. QED
        BY <1>1, <1>2, <3>1, WindowRoom
    <2>3. CASE on[m] # s
      BY <1>1, <1>2, <2>1, <2>3
    <2>4. QED
      BY <2>2, <2>3
  <1>4. ASSUME sessionWin'[s] \in SUBSET sessionWin[s]
        PROVE  IsFiniteSet(sessionWin'[s]) /\ Cardinality(sessionWin'[s]) <= RateMax[s]
    BY <1>1, <1>2, <1>4, WindowRoom
  <1>5. ASSUME NEW m \in Message, MessageStep(m), ~TakeSession(m)
        PROVE  sessionWin'[s] \in SUBSET sessionWin[s]
    <2>1. CASE SessionRefuses(m)
      BY <1>1, <2>1 DEF SessionRefuses, Trim
    <2>2. CASE GiveBackSession(m)
      BY <1>1, <2>2 DEF GiveBackSession
    <2>3. CASE ~SessionRefuses(m) /\ ~GiveBackSession(m)
      <3>1. sessionWin' = sessionWin
        BY <1>5, <2>3 DEF MessageStep, Begin, TakeGateway, GatewayRefuses, Claim,
           ClaimRefused, Send, GiveBackGateway, GiveBackDay, ReleaseAgain, CountSlot,
           Commit, Abort,
           windows
      <3>2. QED
        BY <3>1
    <2>4. QED
      BY <2>1, <2>2, <2>3
  <1>6. CASE Midnight \/ ResetCounters \/ ResetFails \/ Tick \/ UNCHANGED vars
    BY <1>4, <1>6 DEF Midnight, ResetCounters, ResetFails, Tick, windows, vars
  <1>7. ASSUME NEW d \in Saver, ReadRow(d) \/ SaveRow(d)
        PROVE  sessionWin'[s] \in SUBSET sessionWin[s]
    BY <1>7 DEF ReadRow, SaveRow, windows
  <1>8. QED
    BY <1>3, <1>4, <1>5, <1>6, <1>7 DEF Next

LEMMA StepNoneHeld ==
    ASSUME IInv, TypeOK, NoneHeld, [Next]_vars
    PROVE  NoneHeld'
  <1> SUFFICES ASSUME NEW q \in Message, pc'[q] \in {"idle", "gateway", "session"}
               PROVE  slot'[q] = {}
    BY DEF NoneHeld
  <1>1. CountTypes /\ PhaseFacts /\ slot \in [Message -> SUBSET Entry]
    BY DEF IInv, TypeOK
  <1> USE <1>1 DEF CountTypes, PhaseFacts, NoneHeld, Goto, BackToIdle, Phases
  <1>2. ASSUME NEW m \in Message, MessageStep(m), ~GiveBackSession(m) PROVE slot'[q] = {}
    BY <1>2 DEF MessageStep, Begin, TakeGateway, GatewayRefuses, TakeSession,
       SessionRefuses, Claim, ClaimRefused, Send, GiveBackGateway, GiveBackDay,
       ReleaseAgain, CountSlot, Commit, Abort
  <1>3. ASSUME NEW m \in Message, GiveBackSession(m) PROVE slot'[q] = {}
    <2>1. pc'[q] = pc[q] /\ q # m /\ slot[q] = {}
      BY <1>3 DEF GiveBackSession
    <2>2. QED
      BY <1>3, <2>1 DEF GiveBackSession
  <1>4. CASE Midnight \/ ResetCounters \/ ResetFails \/ Tick \/ UNCHANGED vars
    BY <1>4 DEF Midnight, ResetCounters, ResetFails, Tick, vars
  <1>5. ASSUME NEW d \in Saver, ReadRow(d) \/ SaveRow(d) PROVE slot'[q] = {}
    BY <1>5 DEF ReadRow, SaveRow
  <1>6. QED
    BY <1>2, <1>3, <1>4, <1>5 DEF Next

\* What a give-back does to the slots: the one who gives has none left, and what it
\* had goes to the one whose entry was popped, if there is one.
LEMMA GivesOver ==
    ASSUME IInv, TypeOK, NEW m \in Message, GiveBackSession(m), sessionWin[on[m]] # {}
    PROVE  /\ on[m] \in Session /\ on' = on /\ clock' = clock
           /\ \E e \in sessionWin[on[m]] :
                 /\ sessionWin' = [sessionWin EXCEPT ![on[m]] = @ \ {e}]
                 /\ \A q \in Message :
                       slot'[q] = IF q = m THEN {}
                                  ELSE IF on[q] = on[m] /\ e \in slot[q] THEN slot[m]
                                  ELSE slot[q]
  BY DEF IInv, PhaseFacts, GiveBackSession, Newest

\* Whoever keeps its session keeps its entry: it leaves a window only when it is
\* too old, when its message gives its slot back, or when a give-back pops it and
\* another entry takes its place.
LEMMA StepEntry ==
    ASSUME IInv, TypeOK, NoneHeld, EntryThere, OneEach, [Next]_vars
    PROVE  EntryThere'
  <1> SUFFICES ASSUME NEW q \in Message, NEW f \in slot'[q], f.at > clock' - Window
               PROVE  on'[q] \in Session /\ f \in sessionWin'[on'[q]]
    BY DEF EntryThere
  <1>1. /\ CountTypes /\ PhaseFacts /\ slot \in [Message -> SUBSET Entry]
        /\ sessionWin \in [Session -> SUBSET Entry]
        /\ clock \in Nat /\ Window \in Nat
    BY LimitAssumption DEF IInv, TypeOK
  <1> DEFINE Kept == on'[q] \in Session /\ f \in sessionWin'[on'[q]]
  \* Enough for q: it had the entry, and what is not too old is still there.
  <1>2. ASSUME f \in slot[q], on'[q] = on[q], clock' \in {clock, clock + 1},
               on[q] \in Session => Trim(sessionWin[on[q]]) \subseteq sessionWin'[on[q]]
        PROVE  Kept
    <2>1. f \in Entry
      BY <1>1, <1>2
    <2>2. f.at > clock - Window
      BY <1>1, <1>2, <2>1 DEF Entry
    <2>3. on[q] \in Session /\ f \in sessionWin[on[q]]
      BY <1>2, <2>2 DEF EntryThere
    <2>4. QED
      BY <1>2, <2>2, <2>3 DEF Trim
  <1>3. ASSUME NEW m \in Message, TakeSession(m) PROVE Kept
    <2>1. /\ pc[m] = "session" /\ on[m] \in Session /\ on' = on /\ clock' = clock
          /\ sessionWin' = [sessionWin EXCEPT ![on[m]] = Take(sessionWin[on[m]], m)]
          /\ slot' = [slot EXCEPT ![m] = {NewEntry(m)}]
      BY <1>1, <1>3 DEF TakeSession, PhaseFacts
    <2>2. CASE q = m
      BY <1>1, <2>1, <2>2 DEF Take
    <2>3. CASE q # m
      <3>1. on[q] \in Session => Trim(sessionWin[on[q]]) \subseteq sessionWin'[on[q]]
        BY <1>1, <2>1 DEF Take, Trim
      <3>2. QED
        BY <1>1, <1>2, <2>1, <2>3, <3>1
    <2>4. QED
      BY <2>2, <2>3
  <1>4. ASSUME NEW m \in Message, SessionRefuses(m) PROVE Kept
    <2>1. /\ pc[m] = "session" /\ on[m] \in Session /\ m \notin wentOut /\ clock' = clock
          /\ sessionWin' = [sessionWin EXCEPT ![on[m]] = Trim(sessionWin[on[m]])]
          /\ slot' = [slot EXCEPT ![m] = {}]
          /\ on' = [on EXCEPT ![m] = NoSession]
      BY <1>1, <1>4 DEF SessionRefuses, PhaseFacts, BackToIdle
    <2>2. q # m /\ f \in slot[q] /\ on'[q] = on[q]
      BY <1>1, <2>1 DEF CountTypes
    <2>3. on[q] \in Session => Trim(sessionWin[on[q]]) \subseteq sessionWin'[on[q]]
      BY <1>1, <2>1 DEF Trim
    <2>4. QED
      BY <1>2, <2>1, <2>2, <2>3
  <1>5. ASSUME NEW m \in Message, GiveBackSession(m) PROVE Kept
    <2>1. CASE sessionWin[on[m]] = {}
      <3>1. /\ slot' = [slot EXCEPT ![m] = {}] /\ sessionWin' = sessionWin
            /\ on' = on /\ clock' = clock
        BY <1>5, <2>1 DEF GiveBackSession
      <3>2. f \in slot[q]
        BY <1>1, <3>1
      <3>3. QED
        BY <1>1, <1>2, <3>1, <3>2 DEF Trim
    <2>2. CASE sessionWin[on[m]] # {}
      <3>1. on[m] \in Session /\ on' = on /\ clock' = clock
        BY <1>5, <2>2, GivesOver
      <3>2. PICK e \in sessionWin[on[m]] :
               /\ sessionWin' = [sessionWin EXCEPT ![on[m]] = @ \ {e}]
               /\ \A p \in Message :
                     slot'[p] = IF p = m THEN {}
                                ELSE IF on[p] = on[m] /\ e \in slot[p] THEN slot[m]
                                ELSE slot[p]
        BY <1>5, <2>2, GivesOver
      <3>3. q # m
        BY <3>2
      <3>4. CASE on[q] = on[m] /\ e \in slot[q]
        <4>1. f \in slot[m]
          BY <3>2, <3>3, <3>4
        <4>2. f \in sessionWin[on[m]]
          BY <3>1, <4>1 DEF EntryThere
        <4>3. f # e
          BY <3>3, <3>4, <4>1 DEF OneEach
        <4>4. QED
          BY <1>1, <3>1, <3>2, <3>4, <4>2, <4>3
      <3>5. CASE ~(on[q] = on[m] /\ e \in slot[q])
        <4>1. f \in slot[q]
          BY <3>2, <3>3, <3>5
        <4>2. on[q] \in Session /\ f \in sessionWin[on[q]]
          BY <3>1, <4>1 DEF EntryThere
        <4>3. QED
          BY <1>1, <3>1, <3>2, <3>5, <4>1, <4>2
      <3>6. QED
        BY <3>4, <3>5
    <2>3. QED
      BY <2>1, <2>2
  <1>6. ASSUME NEW m \in Message, Begin(m) \/ CountSlot(m) PROVE Kept
    <2>1. /\ clock' = clock /\ sessionWin' = sessionWin /\ slot' = slot /\ slot[m] = {}
          /\ \A p \in Message \ {m} : on'[p] = on[p]
      BY <1>1, <1>6 DEF Begin, CountSlot, NoneHeld, CountTypes, windows
    <2>2. q # m
      BY <2>1
    <2>3. QED
      BY <1>1, <1>2, <2>1, <2>2 DEF Trim
  <1>7. ASSUME NEW m \in Message,
               \/ TakeGateway(m) \/ GatewayRefuses(m) \/ Claim(m) \/ ClaimRefused(m)
               \/ Send(m) \/ GiveBackGateway(m) \/ GiveBackDay(m) \/ ReleaseAgain(m)
               \/ Commit(m) \/ Abort(m)
        PROVE  Kept
    <2>1. /\ clock' = clock /\ sessionWin' = sessionWin
          /\ slot'[q] = {} \/ (slot'[q] = slot[q] /\ on'[q] = on[q])
      BY <1>1, <1>7 DEF TakeGateway, GatewayRefuses, Claim, ClaimRefused, Send,
         GiveBackGateway, GiveBackDay, ReleaseAgain, Commit, Abort, BackToIdle,
         CountTypes, windows
    <2>2. QED
      BY <1>1, <1>2, <2>1 DEF Trim
  <1>8. CASE \/ Midnight \/ ResetCounters \/ ResetFails \/ Tick \/ UNCHANGED vars
             \/ \E d \in Saver : ReadRow(d) \/ SaveRow(d)
    <2>1. /\ clock' \in {clock, clock + 1} /\ sessionWin' = sessionWin
          /\ slot' = slot /\ on' = on
      BY <1>8 DEF Midnight, ResetCounters, ResetFails, Tick, ReadRow, SaveRow, vars, windows
    <2>2. QED
      BY <1>1, <1>2, <2>1 DEF Trim
  <1>9. QED
    <2>1. ASSUME NEW m \in Message, MessageStep(m) PROVE Kept
      BY <1>3, <1>4, <1>5, <1>6, <1>7, <2>1 DEF MessageStep
    <2>2. QED
      BY <1>8, <2>1 DEF Next

\* A slot is new when it is taken, and given over only by one who loses it.
LEMMA StepOneEach ==
    ASSUME IInv, TypeOK, OneEach, TriesFresh, [Next]_vars
    PROVE  OneEach'
  <1> SUFFICES ASSUME NEW p \in Message, NEW q \in Message, NEW f \in slot'[p], f \in slot'[q]
               PROVE  p = q
    BY DEF OneEach
  <1>1. slot \in [Message -> SUBSET Entry] /\ tries \in [Message -> Nat]
    BY DEF TypeOK
  <1>2. ASSUME \A r \in Message : slot'[r] \subseteq slot[r] PROVE p = q
    BY <1>2 DEF OneEach
  <1>3. ASSUME NEW m \in Message, TakeSession(m) PROVE p = q
    <2>1. pc[m] = "session" /\ slot' = [slot EXCEPT ![m] = {NewEntry(m)}]
      BY <1>3 DEF TakeSession
    <2>2. \A r \in Message : NewEntry(m) \notin slot[r]
      BY <1>1, <2>1 DEF TriesFresh, NewEntry
    <2>3. QED
      BY <1>1, <2>1, <2>2 DEF OneEach
  <1>4. ASSUME NEW m \in Message, GiveBackSession(m) PROVE p = q
    <2>1. CASE sessionWin[on[m]] = {}
      BY <1>1, <1>2, <1>4, <2>1 DEF GiveBackSession
    <2>2. CASE sessionWin[on[m]] # {}
      <3>1. PICK e \in sessionWin[on[m]] :
               \A r \in Message :
                  slot'[r] = IF r = m THEN {}
                             ELSE IF on[r] = on[m] /\ e \in slot[r] THEN slot[m]
                             ELSE slot[r]
        BY <1>4, <2>2, GivesOver
      <3>2. p # m /\ q # m
        BY <3>1
      <3>3. (f \in slot[m] /\ on[p] = on[m] /\ e \in slot[p]) \/ f \in slot[p]
        BY <3>1, <3>2
      <3>4. (f \in slot[m] /\ on[q] = on[m] /\ e \in slot[q]) \/ f \in slot[q]
        BY <3>1, <3>2
      <3>5. QED
        BY <3>2, <3>3, <3>4 DEF OneEach
    <2>3. QED
      BY <2>1, <2>2
  <1>5. ASSUME NEW m \in Message, MessageStep(m), ~TakeSession(m), ~GiveBackSession(m)
        PROVE  p = q
    <2>1. \A r \in Message : slot'[r] \subseteq slot[r]
      BY <1>1, <1>5 DEF MessageStep, Begin, TakeGateway, GatewayRefuses, SessionRefuses,
         Claim, ClaimRefused, Send, GiveBackGateway, GiveBackDay, ReleaseAgain,
         CountSlot, Commit, Abort, BackToIdle
    <2>2. QED
      BY <1>2, <2>1
  <1>6. CASE \/ Midnight \/ ResetCounters \/ ResetFails \/ Tick \/ UNCHANGED vars
             \/ \E d \in Saver : ReadRow(d) \/ SaveRow(d)
    <2>1. slot' = slot
      BY <1>6 DEF Midnight, ResetCounters, ResetFails, Tick, ReadRow, SaveRow, vars
    <2>2. QED
      BY <1>2, <2>1
  <1>7. QED
    BY <1>3, <1>4, <1>5, <1>6 DEF Next

LEMMA StepFresh ==
    ASSUME IInv, TypeOK, TriesFresh, [Next]_vars
    PROVE  TriesFresh'
  <1> DEFINE Fresh(f) == /\ f.try <= tries[f.msg]
                         /\ pc[f.msg] \in {"gateway", "session"} => f.try < tries[f.msg]
             AllSlots == UNION {slot[r] : r \in Message}
             Later(m) == pc'[m] \in {"gateway", "session"} =>
                            pc[m] \in {"gateway", "session"} \/ tries'[m] > tries[m]
  <1> SUFFICES ASSUME NEW q \in Message, NEW f \in slot'[q]
               PROVE  Fresh(f)'
    BY DEF TriesFresh
  <1>1. /\ slot \in [Message -> SUBSET Entry] /\ tries \in [Message -> Nat]
        /\ pc \in [Message -> Phases] /\ MaxTries \in Nat /\ clock \in Nat
    BY BoundAssumption DEF TypeOK
  <1>2. ASSUME f \in AllSlots, \A m \in Message : tries'[m] \in Nat /\ tries'[m] >= tries[m] /\ Later(m)
        PROVE  Fresh(f)'
    <2>1. f \in Entry /\ Fresh(f)
      BY <1>1, <1>2 DEF TriesFresh
    <2>2. QED
      BY <1>1, <1>2, <2>1 DEF Entry
  <1>3. ASSUME NEW m \in Message, TakeSession(m) PROVE Fresh(f)'
    <2>1. /\ slot' = [slot EXCEPT ![m] = {NewEntry(m)}] /\ tries' = tries
          /\ pc' = [pc EXCEPT ![m] = "claim"]
      BY <1>3 DEF TakeSession, Goto
    <2>2. CASE f \in AllSlots
      BY <1>1, <1>2, <2>1, <2>2
    <2>3. CASE f = NewEntry(m)
      BY <1>1, <2>1, <2>3 DEF NewEntry
    <2>4. QED
      BY <1>1, <2>1, <2>2, <2>3
  <1>4. ASSUME NEW m \in Message, MessageStep(m), ~TakeSession(m) PROVE Fresh(f)'
    <2>1. f \in AllSlots
      <3>1. CASE GiveBackSession(m)
        BY <1>1, <3>1 DEF GiveBackSession
      <3>2. CASE ~GiveBackSession(m)
        BY <1>1, <1>4, <3>2 DEF MessageStep, Begin, TakeGateway, GatewayRefuses,
           SessionRefuses, Claim, ClaimRefused, Send, GiveBackGateway, GiveBackDay,
           ReleaseAgain, CountSlot, Commit, Abort, BackToIdle
      <3>3. QED
        BY <3>1, <3>2
    <2>2. \A r \in Message : tries'[r] \in Nat /\ tries'[r] >= tries[r] /\ Later(r)
      <3>1. CASE Begin(m) \/ CountSlot(m)
        BY <1>1, <3>1 DEF Begin, CountSlot, Goto
      <3>2. CASE ~Begin(m) /\ ~CountSlot(m)
        BY <1>1, <1>4, <3>2 DEF MessageStep, TakeGateway, GatewayRefuses,
           SessionRefuses, Claim, ClaimRefused, Send, GiveBackSession, GiveBackGateway,
           GiveBackDay, ReleaseAgain, Commit, Abort, BackToIdle, Goto
      <3>3. QED
        BY <3>1, <3>2
    <2>3. QED
      BY <1>2, <2>1, <2>2
  <1>5. CASE \/ Midnight \/ ResetCounters \/ ResetFails \/ Tick \/ UNCHANGED vars
             \/ \E d \in Saver : ReadRow(d) \/ SaveRow(d)
    <2>1. slot' = slot /\ tries' = tries /\ pc' = pc
      BY <1>5 DEF Midnight, ResetCounters, ResetFails, Tick, ReadRow, SaveRow, vars
    <2>2. QED
      BY <1>1, <1>2, <2>1
  <1>6. QED
    BY <1>3, <1>4, <1>5 DEF Next

\* Every message that uses the rate of s has an entry in the window of s, and no
\* two have the same: there are no more of them than the window has room for.
LEMMA RateFits == TypeOK /\ WindowInv => RateRespected
  <1> SUFFICES ASSUME TypeOK, WindowInv, NEW s \in Session
               PROVE  Cardinality({m \in Message : UsesRate(m, s)}) <= RateMax[s]
    BY DEF RateRespected
  <1> DEFINE Users == {m \in Message : UsesRate(m, s)}
             win == sessionWin[s]
             entry == [m \in Users |-> CHOOSE e \in win : e \in slot[m]]
  <1>1. \A m \in Users : entry[m] \in win /\ entry[m] \in slot[m]
    BY DEF WindowInv, EntryThere, UsesRate
  <1>2. /\ IsFiniteSet(Users) /\ Cardinality(Users) \in Nat
        /\ IsFiniteSet(win) /\ Cardinality(win) \in Nat /\ Cardinality(win) <= RateMax[s]
        /\ RateMax[s] \in Nat
    BY MessageSets, FS_CardinalityType, LimitAssumption DEF WindowInv, RoomKept
  <1>3. \A m, q \in Users : entry[m] = entry[q] => m = q
    BY <1>1 DEF WindowInv, OneEach
  <1> HIDE DEF Users, win
  <1>4. entry \in Injection(Users, win)
    <2> HIDE DEF entry
    <2>1. DOMAIN entry = Users
      BY DEF entry
    <2>2. entry = [m \in Users |-> entry[m]]
      BY DEF entry
    <2>3. entry \in [Users -> win]
      BY <1>1, <2>2
    <2>4. QED
      BY <1>3, <2>1, <2>3 DEF Injection, IsInjective
  <1>5. Cardinality(Users) <= Cardinality(win)
    BY <1>2, <1>4, FS_Injection
  <1>6. Cardinality(Users) <= RateMax[s]
    BY <1>2, <1>5
  <1>7. QED
    BY <1>6 DEF Users

\* Whatever senders race for a window, give slots back, once or twice, or die: the
\* messages for which an entry of the window still counts are at most its rate, so
\* no two of them were ever let through on one entry, although give_back pops
\* whichever is newest (sliding_window.py:75-87).  An entry counts for as long as
\* it has to live: for one that was handed over, that is not the message's own time.
THEOREM RateHolds == Spec => []RateRespected
  <1>1. Init => WindowInv
    BY LimitAssumption, FS_EmptySet
       DEF Init, WindowInv, RoomKept, NoneHeld, EntryThere, OneEach, TriesFresh
  <1>2. IInv /\ TypeOK /\ WindowInv /\ [Next]_vars => WindowInv'
    BY StepRoom, StepNoneHeld, StepEntry, StepOneEach, StepFresh DEF WindowInv
  <1>3. QED
    BY <1>1, <1>2, RateFits, Invariance, TypeCorrect, PTL DEF Spec
=============================================================================
