------------------------ MODULE OutboundQueueProofs ------------------------
(* Theorems about OutboundQueue, for every set of rows and schedulers and  *)
(* every value of the time constants.                                      *)
EXTENDS OutboundQueue, TLAPS

-----------------------------------------------------------------------------
(* Types.                                                                  *)

\* A worker that is past ResolveRow has a row in hand.
RowInHand ==
    \A w \in Worker :
        pc[w] \in {"claim", "reserve", "dispatch", "record"} => cur[w] \in Row

TypeInv == TypeOK /\ RowInHand

LEMMA RetryDelayType ==
    ASSUME NEW n \in Nat, n < MaxAttempts
    PROVE  RetryDelay(n) \in Nat
  BY BackoffAssumption DEF RetryDelay, MaxAttempts

LEMMA InitTypeInv == Init => TypeInv
  BY DEF Init, TypeInv, TypeOK, RowInHand, Statuses, Phases, Outcomes, Never

LEMMA StepTypeInv == TypeInv /\ [Next]_vars => TypeInv'
  <1> SUFFICES ASSUME TypeInv, [Next]_vars
               PROVE  TypeInv'
    OBVIOUS
  <1> USE DEF TypeInv, TypeOK, RowInHand, Statuses, Phases, Outcomes, Never,
              rowVars, workerVars, history
  <1>1. ASSUME NEW r \in Row, Enqueue(r) PROVE TypeInv'
    BY <1>1 DEF Enqueue
  <1>2. ASSUME NEW w \in Worker, AcquireLock(w) PROVE TypeInv'
    BY <1>2, TimeAssumption DEF AcquireLock
  <1>3. ASSUME NEW w \in Worker, Reap(w) PROVE TypeInv'
    BY <1>3 DEF Reap
  <1>4. ASSUME NEW w \in Worker, SelectBatch(w) PROVE TypeInv'
    BY <1>4 DEF SelectBatch
  <1>5. ASSUME NEW w \in Worker, ExpireRow(w) PROVE TypeInv'
    BY <1>5 DEF ExpireRow
  <1>6. ASSUME NEW w \in Worker, SkipRow(w) PROVE TypeInv'
    BY <1>6 DEF SkipRow
  <1>7. ASSUME NEW w \in Worker, ResolveRow(w) PROVE TypeInv'
    BY <1>7 DEF ResolveRow
  <1>8. ASSUME NEW w \in Worker, ClaimRow(w) PROVE TypeInv'
    BY <1>8 DEF ClaimRow
  <1>9. ASSUME NEW w \in Worker, LoseClaim(w) PROVE TypeInv'
    BY <1>9 DEF LoseClaim, ToLoop
  <1>10. ASSUME NEW w \in Worker, ReserveGranted(w) PROVE TypeInv'
    BY <1>10 DEF ReserveGranted
  <1>11. ASSUME NEW w \in Worker, ReserveRefused(w) PROVE TypeInv'
    BY <1>11 DEF ReserveRefused, ToLoop
  <1>12. ASSUME NEW w \in Worker, Dispatch(w) PROVE TypeInv'
    BY <1>12 DEF Dispatch
  <1>13. ASSUME NEW w \in Worker, RecordSent(w) PROVE TypeInv'
    BY <1>13 DEF RecordSent, ToLoop
  <1>14. ASSUME NEW w \in Worker, ScheduleRetry(w) PROVE TypeInv'
    <2>1. RetryDelay(LocalAttempts(w)) \in Nat
      BY <1>14, RetryDelayType DEF ScheduleRetry, AttemptsLeft, LocalAttempts
    <2>2. QED
      BY <1>14, <2>1 DEF ScheduleRetry, CountLost, ToLoop
  <1>15. ASSUME NEW w \in Worker, GiveUp(w) PROVE TypeInv'
    BY <1>15 DEF GiveUp, CountLost, ToLoop
  <1>16. ASSUME NEW w \in Worker, LeaveSending(w) PROVE TypeInv'
    BY <1>16 DEF LeaveSending, CountLost, ToLoop
  <1>17. ASSUME NEW w \in Worker, FinishRun(w) PROVE TypeInv'
    BY <1>17 DEF FinishRun, DeleteLock, ToIdle
  <1>18. ASSUME NEW w \in Worker, AbortRun(w) PROVE TypeInv'
    BY <1>18 DEF AbortRun, DeleteLock, ToIdle
  <1>19. ASSUME NEW w \in Worker, Crash(w) PROVE TypeInv'
    BY <1>19 DEF Crash, CountLost, ToIdle, Unrecorded, Busy, FaultAllowed
  <1>20. CASE Tick
    BY <1>20 DEF Tick
  <1>21. CASE UNCHANGED vars
    BY <1>21 DEF vars
  <1>22. QED
    BY <1>1, <1>2, <1>3, <1>4, <1>5, <1>6, <1>7, <1>8, <1>9, <1>10, <1>11,
       <1>12, <1>13, <1>14, <1>15, <1>16, <1>17, <1>18, <1>19, <1>20, <1>21
       DEF Next, WorkerStep

\* Every variable keeps its type (queue/worker.py, utils/cron.py).
THEOREM TypeCorrect == Spec => []TypeOK
  <1>1. TypeInv => TypeOK
    BY DEF TypeInv
  <1>2. QED
    BY <1>1, InitTypeInv, StepTypeInv, PTL DEF Spec


-----------------------------------------------------------------------------
(* The claim.                                                              *)

\* While a worker has a row in flight, the row is not Queued; if it is still
\* Sending, last_attempt_at is the time of that worker's own claim, so that
\* the reaper finds it stuck only when the flight is over.
FlightInv ==
    \A w \in Worker : InFlight(w) =>
        /\ status[cur[w]] \in {"Sending", "Expired"}
        /\ lastAt[cur[w]] = claimedAt[w]
        /\ clock <= claimedAt[w] + MaxFlight

\* A run that is alive started in the past.
RunInv == \A w \in Worker : Busy(w) => runStart[w] \in Nat /\ runStart[w] <= clock

ClaimInv == FlightInv /\ RunInv /\ ClaimExclusive

LEMMA InitClaimInv == Init => ClaimInv
  BY DEF Init, ClaimInv, FlightInv, RunInv, ClaimExclusive, InFlight, Busy

\* The reaper leaves a row alone while a worker has it in flight.
LEMMA NotStuckInFlight ==
    ASSUME TypeInv, ClaimInv, NEW v \in Worker, NEW w \in Worker,
           Busy(v), InFlight(w)
    PROVE  ~Stuck(cur[w], runStart[v])
  BY TimeAssumption, FlightAssumption
     DEF TypeInv, TypeOK, RowInHand, ClaimInv, FlightInv, RunInv, InFlight,
         Busy, Stuck, Never

LEMMA StepClaimInv == TypeInv /\ ClaimInv /\ [Next]_vars => ClaimInv'
  <1> SUFFICES ASSUME TypeInv, ClaimInv, [Next]_vars
               PROVE  ClaimInv'
    OBVIOUS
  <1> USE DEF TypeInv, TypeOK, RowInHand, ClaimInv, FlightInv, RunInv,
              ClaimExclusive, InFlight, Busy, rowVars, workerVars, history
  <1>1. ASSUME NEW r \in Row, Enqueue(r) PROVE ClaimInv'
    BY <1>1 DEF Enqueue
  <1>2. ASSUME NEW w \in Worker, AcquireLock(w) PROVE ClaimInv'
    BY <1>2 DEF AcquireLock
  <1>3. ASSUME NEW w \in Worker, Reap(w) PROVE ClaimInv'
    <2>1. \A v \in Worker : InFlight(v) => status'[cur[v]] = status[cur[v]]
      BY <1>3, NotStuckInFlight DEF Reap
    <2>2. QED
      BY <1>3, <2>1 DEF Reap
  <1>4. ASSUME NEW w \in Worker, SelectBatch(w) PROVE ClaimInv'
    BY <1>4 DEF SelectBatch
  <1>5. ASSUME NEW w \in Worker, ExpireRow(w) PROVE ClaimInv'
    BY <1>5 DEF ExpireRow
  <1>6. ASSUME NEW w \in Worker, SkipRow(w) PROVE ClaimInv'
    BY <1>6 DEF SkipRow
  <1>7. ASSUME NEW w \in Worker, ResolveRow(w) PROVE ClaimInv'
    BY <1>7 DEF ResolveRow
  <1>8. ASSUME NEW w \in Worker, ClaimRow(w) PROVE ClaimInv'
    <2> DEFINE r == cur[w]
    <2>1. r \in Row /\ status[r] = "Queued" /\ ~InFlight(w)
      BY <1>8 DEF ClaimRow, Claimable
    <2>2. \A v \in Worker : InFlight(v) => cur[v] # r
      BY <2>1
    <2>3. \A v \in Worker : v # w => InFlight(v)' = InFlight(v)
      BY <1>8 DEF ClaimRow
    <2>4. FlightInv'
      <3>1. ASSUME NEW v \in Worker, v # w, InFlight(v)'
            PROVE  /\ status'[cur'[v]] \in {"Sending", "Expired"}
                   /\ lastAt'[cur'[v]] = claimedAt'[v]
                   /\ clock' <= claimedAt'[v] + MaxFlight
        BY <1>8, <2>2, <2>3, <3>1 DEF ClaimRow
      <3>2. /\ status'[cur'[w]] = "Sending"
            /\ lastAt'[cur'[w]] = claimedAt'[w]
            /\ clock' <= claimedAt'[w] + MaxFlight
        BY <1>8, <2>1, TimeAssumption DEF ClaimRow
      <3>3. QED
        BY <3>1, <3>2
    <2>5. RunInv'
      BY <1>8 DEF ClaimRow
    <2>6. ClaimExclusive'
      BY <1>8, <2>2, <2>3 DEF ClaimRow
    <2>7. QED
      BY <2>4, <2>5, <2>6
  <1>9. ASSUME NEW w \in Worker, LoseClaim(w) PROVE ClaimInv'
    BY <1>9 DEF LoseClaim, ToLoop
  <1>10. ASSUME NEW w \in Worker, ReserveGranted(w) PROVE ClaimInv'
    BY <1>10 DEF ReserveGranted
  <1>11. ASSUME NEW w \in Worker, ReserveRefused(w) PROVE ClaimInv'
    BY <1>11 DEF ReserveRefused, ToLoop
  <1>12. ASSUME NEW w \in Worker, Dispatch(w) PROVE ClaimInv'
    BY <1>12 DEF Dispatch
  <1>13. ASSUME NEW w \in Worker, RecordSent(w) PROVE ClaimInv'
    BY <1>13 DEF RecordSent, ToLoop
  <1>14. ASSUME NEW w \in Worker, ScheduleRetry(w) PROVE ClaimInv'
    BY <1>14 DEF ScheduleRetry, ToLoop
  <1>15. ASSUME NEW w \in Worker, GiveUp(w) PROVE ClaimInv'
    BY <1>15 DEF GiveUp, ToLoop
  <1>16. ASSUME NEW w \in Worker, LeaveSending(w) PROVE ClaimInv'
    BY <1>16 DEF LeaveSending, ToLoop
  <1>17. ASSUME NEW w \in Worker, FinishRun(w) PROVE ClaimInv'
    BY <1>17 DEF FinishRun, ToIdle
  <1>18. ASSUME NEW w \in Worker, AbortRun(w) PROVE ClaimInv'
    BY <1>18 DEF AbortRun, ToIdle
  <1>19. ASSUME NEW w \in Worker, Crash(w) PROVE ClaimInv'
    BY <1>19 DEF Crash, ToIdle
  <1>20. CASE Tick
    BY <1>20, TimeAssumption DEF Tick
  <1>21. CASE UNCHANGED vars
    BY <1>21 DEF vars
  <1>22. QED
    BY <1>1, <1>2, <1>3, <1>4, <1>5, <1>6, <1>7, <1>8, <1>9, <1>10, <1>11,
       <1>12, <1>13, <1>14, <1>15, <1>16, <1>17, <1>18, <1>19, <1>20, <1>21
       DEF Next, WorkerStep

LEMMA ClaimInvariance == Spec => [](TypeInv /\ ClaimInv)
  BY InitTypeInv, StepTypeInv, InitClaimInv, StepClaimInv, PTL DEF Spec

\* Two workers never send the same row at the same time (worker.py:136-155).
THEOREM ClaimIsExclusive == Spec => []ClaimExclusive
  <1>1. ClaimInv => ClaimExclusive
    BY DEF ClaimInv
  <1>2. QED
    BY <1>1, ClaimInvariance, PTL

LEMMA StepSettled ==
    ASSUME TypeInv, ClaimInv, [Next]_vars, NEW r \in Row, Settled(r)
    PROVE  Settled(r)'
  <1> USE DEF TypeInv, TypeOK, RowInHand, ClaimInv, ClaimExclusive,
            InFlight, Settled, Final, rowVars, workerVars, history
  <1>1. ASSUME NEW q \in Row, Enqueue(q) PROVE Settled(r)'
    BY <1>1 DEF Enqueue
  <1>2. ASSUME NEW w \in Worker,
               \/ AcquireLock(w) \/ SelectBatch(w) \/ SkipRow(w)
               \/ ResolveRow(w) \/ LoseClaim(w)
               \/ FinishRun(w) \/ AbortRun(w)
        PROVE  Settled(r)'
    BY <1>2 DEF AcquireLock, SelectBatch, SkipRow, ResolveRow,
                LoseClaim, FinishRun, AbortRun, ToLoop, ToIdle
  <1>3. ASSUME NEW w \in Worker, Reap(w) PROVE Settled(r)'
    BY <1>3 DEF Reap, Stuck
  <1>4. ASSUME NEW w \in Worker, ExpireRow(w) PROVE Settled(r)'
    BY <1>4 DEF ExpireRow
  <1>5. ASSUME NEW w \in Worker, ClaimRow(w) PROVE Settled(r)'
    BY <1>5 DEF ClaimRow, Claimable
  <1>6. ASSUME NEW w \in Worker,
               \/ ReserveGranted(w) \/ ReserveRefused(w) \/ Dispatch(w)
               \/ RecordSent(w) \/ LeaveSending(w) \/ Crash(w)
        PROVE  Settled(r)'
    BY <1>6 DEF ReserveGranted, ReserveRefused, Dispatch, RecordSent,
                LeaveSending, Crash, ToLoop, ToIdle
  <1>7. ASSUME NEW w \in Worker, ScheduleRetry(w) \/ GiveUp(w)
        PROVE  Settled(r)'
    BY <1>7 DEF ScheduleRetry, GiveUp, ToLoop
  <1>8. CASE Tick
    BY <1>8 DEF Tick
  <1>9. CASE UNCHANGED vars
    BY <1>9 DEF vars
  <1>10. QED
    BY <1>1, <1>2, <1>3, <1>4, <1>5, <1>6, <1>7, <1>8, <1>9 DEF Next, WorkerStep

\* A settled row stays settled (worker.py:44-52, 87, 136-142).
THEOREM SettledRowsStay == Spec => SettledStays
  <1>1. TypeInv /\ ClaimInv /\ [Next]_vars
            => [\A r \in Row : Settled(r) => Settled(r)']_vars
    BY StepSettled
  <1>2. QED
    BY <1>1, ClaimInvariance, PTL DEF Spec, SettledStays

-----------------------------------------------------------------------------
(* No duplicate without a loss.                                            *)

\* A message a provider sent for r is waiting for its commit.
Pending(r) == \E w \in Worker : Unrecorded(w) /\ cur[w] = r

\* Messages sent and losses counted differ by one at most, and only while the
\* outcome is about to be written or after it was written for good.
LedgerInv ==
    \A r \in Row :
        /\ delivered[r] # lost[r] => /\ delivered[r] = lost[r] + 1
                                     /\ Pending(r) \/ Settled(r)
        /\ Pending(r) => delivered[r] = lost[r] + 1

LEMMA InitLedger == Init => LedgerInv
  BY DEF Init, LedgerInv, Pending, Unrecorded

\* What a worker leaves behind when it lets go of its row with CountLost.
LEMMA LetGo ==
    ASSUME TypeInv, ClaimInv, LedgerInv, NEW w \in Worker, CountLost(w),
           delivered' = delivered, ~InFlight(w)',
           \A v \in Worker : v # w => /\ pc'[v] = pc[v]
                                      /\ cur'[v] = cur[v]
                                      /\ outcome'[v] = outcome[v],
           \A r \in Row : Settled(r) => status'[r] \in Final
    PROVE  LedgerInv'
  <1> USE DEF TypeInv, TypeOK, RowInHand, ClaimInv, FlightInv, ClaimExclusive,
              LedgerInv, InFlight, Unrecorded, Pending, Settled
  <1> SUFFICES ASSUME NEW r \in Row
               PROVE  /\ delivered'[r] # lost'[r] =>
                              /\ delivered'[r] = lost'[r] + 1
                              /\ Pending(r)' \/ Settled(r)'
                      /\ Pending(r)' => delivered'[r] = lost'[r] + 1
    OBVIOUS
  <1>1. CASE Unrecorded(w) /\ cur[w] = r
    <2>1. lost'[r] = lost[r] + 1 /\ delivered[r] = lost[r] + 1
      BY <1>1 DEF CountLost
    <2>2. ASSUME NEW v \in Worker, Unrecorded(v)', cur'[v] = r PROVE FALSE
      <3>1. v # w
        BY <2>2
      <3>2. InFlight(v) /\ cur[v] = cur[w]
        BY <1>1, <2>2, <3>1
      <3>3. QED
        BY <1>1, <3>1, <3>2
    <2>3. QED
      BY <2>1, <2>2
  <1>2. CASE ~(Unrecorded(w) /\ cur[w] = r)
    <2>1. lost'[r] = lost[r]
      BY <1>2 DEF CountLost
    <2>2. Pending(r)' <=> Pending(r)
      BY <1>2
    <2>3. Settled(r) => Settled(r)'
      OBVIOUS
    <2>4. QED
      BY <2>1, <2>2, <2>3
  <1>3. QED
    BY <1>1, <1>2

LEMMA StepLedger ==
    TypeInv /\ ClaimInv /\ LedgerInv /\ [Next]_vars => LedgerInv'
  <1> SUFFICES ASSUME TypeInv, ClaimInv, LedgerInv, [Next]_vars
               PROVE  LedgerInv'
    OBVIOUS
  <1> USE DEF TypeInv, TypeOK, RowInHand, ClaimInv, FlightInv, ClaimExclusive,
              LedgerInv, InFlight, Unrecorded, Pending, Settled, Final,
              rowVars, workerVars, history
  <1>1. ASSUME NEW q \in Row, Enqueue(q) PROVE LedgerInv'
    BY <1>1 DEF Enqueue
  <1>2. ASSUME NEW w \in Worker,
               AcquireLock(w) \/ SelectBatch(w) \/ SkipRow(w) \/ ResolveRow(w)
        PROVE  LedgerInv'
    BY <1>2 DEF AcquireLock, SelectBatch, SkipRow, ResolveRow
  <1>3. ASSUME NEW w \in Worker, LoseClaim(w) \/ FinishRun(w) \/ AbortRun(w)
        PROVE  LedgerInv'
    <2>1. /\ \A v \in Worker : v # w => /\ pc'[v] = pc[v]
                                        /\ cur'[v] = cur[v]
                                        /\ outcome'[v] = outcome[v]
          /\ ~InFlight(w) /\ ~InFlight(w)'
          /\ UNCHANGED <<status, delivered, lost>>
      BY <1>3 DEF LoseClaim, FinishRun, AbortRun, ToLoop, ToIdle
    <2>2. CountLost(w)
      BY <2>1 DEF CountLost
    <2>3. QED
      BY <2>1, <2>2, LetGo
  <1>4. ASSUME NEW w \in Worker, Reap(w) PROVE LedgerInv'
    BY <1>4 DEF Reap, Stuck
  <1>5. ASSUME NEW w \in Worker, ExpireRow(w) PROVE LedgerInv'
    BY <1>5 DEF ExpireRow
  <1>6. ASSUME NEW w \in Worker, ClaimRow(w) PROVE LedgerInv'
    BY <1>6 DEF ClaimRow, Claimable
  <1>7. ASSUME NEW w \in Worker, ReserveGranted(w) PROVE LedgerInv'
    BY <1>7 DEF ReserveGranted
  <1>8. ASSUME NEW w \in Worker, ReserveRefused(w) PROVE LedgerInv'
    <2>1. /\ \A v \in Worker : v # w => /\ pc'[v] = pc[v]
                                        /\ cur'[v] = cur[v]
                                        /\ outcome'[v] = outcome[v]
          /\ ~InFlight(w)' /\ UNCHANGED <<delivered, lost>>
          /\ \A r \in Row : r # cur[w] => status'[r] = status[r]
      BY <1>8 DEF ReserveRefused, ToLoop
    <2>2. CountLost(w)
      BY <1>8, <2>1 DEF CountLost, ReserveRefused
    <2>3. ~Settled(cur[w])
      BY <1>8 DEF ReserveRefused
    <2>4. \A r \in Row : Settled(r) => status'[r] \in Final
      BY <2>1, <2>3
    <2>5. QED
      BY <2>1, <2>2, <2>4, LetGo
  <1>9. ASSUME NEW w \in Worker, Dispatch(w) PROVE LedgerInv'
    <2> SUFFICES ASSUME NEW r \in Row
                 PROVE  /\ delivered'[r] # lost'[r] =>
                                /\ delivered'[r] = lost'[r] + 1
                                /\ Pending(r)' \/ Settled(r)'
                        /\ Pending(r)' => delivered'[r] = lost'[r] + 1
      OBVIOUS
    <2>1. CASE r = cur[w]
      <3>1. delivered[r] = lost[r]
        BY <1>9, <2>1 DEF Dispatch
      <3>2. lost'[r] = lost[r] /\ pc'[w] = "record" /\ cur'[w] = r
        BY <1>9, <2>1 DEF Dispatch
      <3>3. PICK o \in Outcomes \ {"none"} :
               /\ outcome' = [outcome EXCEPT ![w] = o]
               /\ delivered'[r] = IF o = "failed" THEN delivered[r]
                                                  ELSE delivered[r] + 1
        BY <1>9, <2>1 DEF Dispatch
      <3>4. CASE o = "failed"
        <4>1. ~Pending(r)'
          BY <1>9, <2>1, <3>3, <3>4 DEF Dispatch
        <4>2. QED
          BY <3>1, <3>2, <3>3, <3>4, <4>1
      <3>5. CASE o \in {"sent", "lost"}
        BY <3>1, <3>2, <3>3, <3>5
      <3>6. QED
        BY <3>3, <3>4, <3>5 DEF Outcomes
    <2>2. CASE r # cur[w]
      BY <1>9, <2>2 DEF Dispatch
    <2>3. QED
      BY <2>1, <2>2
  <1>10. ASSUME NEW w \in Worker, RecordSent(w) PROVE LedgerInv'
    <2> SUFFICES ASSUME NEW r \in Row
                 PROVE  /\ delivered'[r] # lost'[r] =>
                                /\ delivered'[r] = lost'[r] + 1
                                /\ Pending(r)' \/ Settled(r)'
                        /\ Pending(r)' => delivered'[r] = lost'[r] + 1
      OBVIOUS
    <2>1. CASE r = cur[w]
      BY <1>10, <2>1 DEF RecordSent, ToLoop
    <2>2. CASE r # cur[w]
      BY <1>10, <2>2 DEF RecordSent, ToLoop
    <2>3. QED
      BY <2>1, <2>2
  <1>11. ASSUME NEW w \in Worker, ScheduleRetry(w) \/ GiveUp(w) PROVE LedgerInv'
    <2>1. /\ \A v \in Worker : v # w => /\ pc'[v] = pc[v]
                                        /\ cur'[v] = cur[v]
                                        /\ outcome'[v] = outcome[v]
          /\ ~InFlight(w)' /\ delivered' = delivered /\ CountLost(w)
          /\ \A r \in Row : r # cur[w] => status'[r] = status[r]
      BY <1>11 DEF ScheduleRetry, GiveUp, ToLoop
    <2>2. ~Settled(cur[w])
      BY <1>11 DEF ScheduleRetry, GiveUp
    <2>3. \A r \in Row : Settled(r) => status'[r] \in Final
      BY <2>1, <2>2
    <2>4. QED
      BY <2>1, <2>3, LetGo
  <1>12. ASSUME NEW w \in Worker, LeaveSending(w) PROVE LedgerInv'
    <2>1. /\ \A v \in Worker : v # w => /\ pc'[v] = pc[v]
                                        /\ cur'[v] = cur[v]
                                        /\ outcome'[v] = outcome[v]
          /\ ~InFlight(w)' /\ UNCHANGED <<delivered, status>> /\ CountLost(w)
      BY <1>12 DEF LeaveSending, ToLoop
    <2>2. QED
      BY <2>1, LetGo
  <1>13. ASSUME NEW w \in Worker, Crash(w) PROVE LedgerInv'
    <2>1. /\ \A v \in Worker : v # w => /\ pc'[v] = pc[v]
                                        /\ cur'[v] = cur[v]
                                        /\ outcome'[v] = outcome[v]
          /\ ~InFlight(w)' /\ UNCHANGED <<delivered, status>> /\ CountLost(w)
      BY <1>13 DEF Crash, ToIdle
    <2>2. QED
      BY <2>1, LetGo
  <1>14. CASE Tick
    BY <1>14 DEF Tick
  <1>15. CASE UNCHANGED vars
    BY <1>15 DEF vars
  <1>16. QED
    BY <1>1, <1>2, <1>3, <1>4, <1>5, <1>6, <1>7, <1>8, <1>9, <1>10, <1>11,
       <1>12, <1>13, <1>14, <1>15 DEF Next, WorkerStep

\* A message goes out twice only if an earlier sending was never recorded
\* (worker.py:34-43 and 147-151).
THEOREM NoDuplicateWithoutLoss == Spec => []DeliveredOnce
  <1>1. TypeInv /\ LedgerInv => DeliveredOnce
    BY DEF TypeInv, TypeOK, LedgerInv, DeliveredOnce
  <1>2. QED
    BY <1>1, ClaimInvariance, InitLedger, StepLedger, PTL DEF Spec

-----------------------------------------------------------------------------
(* Giving up.                                                              *)

\* What a worker selected is never ahead of the table, and the claim it holds
\* came on top of what it selected.
AttemptsInv ==
    /\ \A w \in Worker, r \in Row : snap[w][r] <= attempts[r]
    /\ \A w \in Worker : InFlight(w) => snap[w][cur[w]] < attempts[cur[w]]

GiveUpInv == AttemptsInv /\ GivenUpAfterLastAttempt

LEMMA StepGiveUp == TypeInv /\ GiveUpInv /\ [Next]_vars => GiveUpInv'
  <1> SUFFICES ASSUME TypeInv, GiveUpInv, [Next]_vars
               PROVE  GiveUpInv'
    OBVIOUS
  <1> USE DEF TypeInv, TypeOK, RowInHand, GiveUpInv, AttemptsInv,
              GivenUpAfterLastAttempt, InFlight, rowVars, workerVars, history
  <1>1. ASSUME NEW q \in Row, Enqueue(q) PROVE GiveUpInv'
    BY <1>1 DEF Enqueue
  <1>2. ASSUME NEW w \in Worker,
               \/ AcquireLock(w) \/ SkipRow(w) \/ ResolveRow(w)
               \/ ReserveGranted(w) \/ Dispatch(w)
        PROVE  GiveUpInv'
    BY <1>2 DEF AcquireLock, SkipRow, ResolveRow, ReserveGranted, Dispatch
  <1>3. ASSUME NEW w \in Worker, LoseClaim(w) \/ LeaveSending(w)
        PROVE  GiveUpInv'
    BY <1>3 DEF LoseClaim, LeaveSending, ToLoop
  <1>4. ASSUME NEW w \in Worker, FinishRun(w) \/ AbortRun(w) \/ Crash(w)
        PROVE  GiveUpInv'
    <2>1. ToIdle(w) /\ UNCHANGED <<status, attempts>>
      BY <1>4 DEF FinishRun, AbortRun, Crash
    <2>2. QED
      BY <2>1 DEF ToIdle
  <1>5. ASSUME NEW w \in Worker, Reap(w) PROVE GiveUpInv'
    BY <1>5 DEF Reap
  <1>6. ASSUME NEW w \in Worker, SelectBatch(w) PROVE GiveUpInv'
    BY <1>6 DEF SelectBatch
  <1>7. ASSUME NEW w \in Worker, ExpireRow(w) PROVE GiveUpInv'
    BY <1>7 DEF ExpireRow
  <1>8. ASSUME NEW w \in Worker, ClaimRow(w) PROVE GiveUpInv'
    <2>1. \A r \in Row : attempts'[r] >= attempts[r]
      BY <1>8 DEF ClaimRow
    <2>2. attempts'[cur[w]] = attempts[cur[w]] + 1
      BY <1>8 DEF ClaimRow
    <2>3. UNCHANGED <<snap, cur>> /\ \A v \in Worker : v # w => pc'[v] = pc[v]
      BY <1>8 DEF ClaimRow
    <2>4. AttemptsInv'
      <3>1. attempts' \in [Row -> Nat]
        BY <1>8 DEF ClaimRow
      <3>2. \A v \in Worker, r \in Row : snap'[v][r] <= attempts'[r]
        BY <2>1, <2>3, <3>1
      <3>3. ASSUME NEW v \in Worker, v # w, InFlight(v)'
            PROVE  snap'[v][cur'[v]] < attempts'[cur'[v]]
        BY <2>1, <2>3, <3>1, <3>3
      <3>4. snap'[w][cur'[w]] < attempts'[cur'[w]]
        BY <1>8, <2>2, <2>3 DEF ClaimRow
      <3>5. QED
        BY <3>2, <3>3, <3>4
    <2>5. \A r \in Row : status'[r] = "Failed" => status[r] = "Failed"
      BY <1>8 DEF ClaimRow
    <2>6. GivenUpAfterLastAttempt'
      <3>1. MaxAttempts \in Nat
        BY BackoffAssumption DEF MaxAttempts
      <3>2. attempts' \in [Row -> Nat]
        BY <1>8 DEF ClaimRow
      <3>3. QED
        BY <2>1, <2>5, <3>1, <3>2
    <2>7. QED
      BY <2>4, <2>6
  <1>9. ASSUME NEW w \in Worker, ReserveRefused(w) \/ RecordSent(w)
        PROVE  GiveUpInv'
    BY <1>9 DEF ReserveRefused, RecordSent, ToLoop
  <1>10. ASSUME NEW w \in Worker, ScheduleRetry(w) PROVE GiveUpInv'
    BY <1>10 DEF ScheduleRetry, ToLoop
  <1>11. ASSUME NEW w \in Worker, GiveUp(w) PROVE GiveUpInv'
    <2>1. AttemptsInv'
      BY <1>11 DEF GiveUp, ToLoop
    <2>2. attempts[cur[w]] >= MaxAttempts
      BY <1>11, BackoffAssumption
         DEF GiveUp, AttemptsLeft, LocalAttempts, MaxAttempts
    <2>3. GivenUpAfterLastAttempt'
      BY <1>11, <2>2 DEF GiveUp
    <2>4. QED
      BY <2>1, <2>3
  <1>12. CASE Tick
    BY <1>12 DEF Tick
  <1>13. CASE UNCHANGED vars
    BY <1>13 DEF vars
  <1>14. QED
    BY <1>1, <1>2, <1>3, <1>4, <1>5, <1>6, <1>7, <1>8, <1>9, <1>10, <1>11,
       <1>12, <1>13 DEF Next, WorkerStep

\* No row is given up before its last permitted attempt was claimed
\* (worker.py:157, 205-219).
THEOREM GivesUpLate == Spec => []GivenUpAfterLastAttempt
  <1>1. Init => GiveUpInv
    BY DEF Init, GiveUpInv, AttemptsInv, GivenUpAfterLastAttempt, InFlight
  <1>2. GiveUpInv => GivenUpAfterLastAttempt
    BY DEF GiveUpInv
  <1>3. QED
    BY <1>1, <1>2, InitTypeInv, StepTypeInv, StepGiveUp, PTL DEF Spec

-----------------------------------------------------------------------------
(* Dead letters.                                                           *)

LEMMA StepDeadLetter ==
    TypeInv /\ ClaimInv /\ DeadLetterIsFinal /\ [Next]_vars
        => DeadLetterIsFinal'
  <1> SUFFICES ASSUME TypeInv, ClaimInv, DeadLetterIsFinal, [Next]_vars,
                      NEW r \in Row, deadLetters'[r] > 0
               PROVE  deadLetters'[r] = 1 /\ Settled(r)'
    BY DEF DeadLetterIsFinal
  <1>1. CASE deadLetters'[r] = deadLetters[r]
    BY <1>1, StepSettled DEF DeadLetterIsFinal
  <1>2. CASE deadLetters'[r] # deadLetters[r]
    <2>1. PICK w \in Worker : GiveUp(w) /\ cur[w] = r
      <3>1. PICK w \in Worker : GiveUp(w)
        BY <1>2 DEF Next, WorkerStep, vars, Enqueue, AcquireLock, Reap,
              SelectBatch, ExpireRow, SkipRow, ResolveRow, ClaimRow, LoseClaim,
              ReserveGranted, ReserveRefused, Dispatch, RecordSent,
              ScheduleRetry, LeaveSending, FinishRun, AbortRun, Crash, Tick
      <3>2. QED
        BY <1>2, <3>1 DEF GiveUp, TypeInv, TypeOK
    <2> USE DEF TypeInv, TypeOK, ClaimInv, ClaimExclusive, InFlight, Settled, Final
    <2>2. deadLetters[r] = 0
      BY <2>1 DEF GiveUp, DeadLetterIsFinal
    <2>3. deadLetters'[r] \in {0, 1} /\ status'[r] = "Failed"
      BY <2>1, <2>2 DEF GiveUp
    <2>4. \A v \in Worker : InFlight(v)' => cur'[v] # r
      BY <2>1 DEF GiveUp, ToLoop
    <2>5. QED
      BY <2>3, <2>4
  <1>3. QED
    BY <1>1, <1>2

\* A row has at most one dead letter and is never sent after it
\* (worker.py:214-241).
THEOREM DeadLettersAreFinal == Spec => []DeadLetterIsFinal
  <1>1. Init => DeadLetterIsFinal
    BY DEF Init, DeadLetterIsFinal
  <1>2. QED
    BY <1>1, ClaimInvariance, StepDeadLetter, PTL DEF Spec

-----------------------------------------------------------------------------
(* The cron lock, when it is long enough.                                  *)

\* The lock key outlives the run that took it.
LockInv ==
    /\ NoOverlap
    /\ \A w \in Worker : Busy(w) => /\ runStart[w] \in Nat
                                    /\ lockUntil = runStart[w] + LockTTL
                                    /\ clock <= runStart[w] + MaxRun

LEMMA StepLock ==
    ASSUME MaxRun < LockTTL
    PROVE  TypeInv /\ LockInv /\ [Next]_vars => LockInv'
  <1> SUFFICES ASSUME TypeInv, LockInv, [Next]_vars
               PROVE  LockInv'
    OBVIOUS
  <1> USE TimeAssumption
      DEF TypeInv, TypeOK, LockInv, NoOverlap, Busy, rowVars, workerVars, history
  <1>1. ASSUME NEW r \in Row, Enqueue(r) PROVE LockInv'
    BY <1>1 DEF Enqueue
  <1>2. ASSUME NEW w \in Worker, AcquireLock(w) PROVE LockInv'
    <2>1. \A v \in Worker : ~Busy(v)
      BY <1>2 DEF AcquireLock, LockFree
    <2>2. QED
      BY <1>2, <2>1 DEF AcquireLock
  <1>3. ASSUME NEW w \in Worker, Reap(w) \/ SelectBatch(w) PROVE LockInv'
    BY <1>3 DEF Reap, SelectBatch
  <1>4. ASSUME NEW w \in Worker, ExpireRow(w) \/ SkipRow(w) \/ ResolveRow(w)
        PROVE  LockInv'
    BY <1>4 DEF ExpireRow, SkipRow, ResolveRow
  <1>5. ASSUME NEW w \in Worker, ClaimRow(w) \/ ReserveGranted(w) \/ Dispatch(w)
        PROVE  LockInv'
    <2>1. /\ \A v \in Worker : Busy(v)' = Busy(v)
          /\ UNCHANGED <<runStart, lockUntil, clock>>
      BY <1>5 DEF ClaimRow, ReserveGranted, Dispatch
    <2>2. QED
      BY <2>1
  <1>6. ASSUME NEW w \in Worker,
               \/ LoseClaim(w) \/ ReserveRefused(w) \/ RecordSent(w)
               \/ ScheduleRetry(w) \/ GiveUp(w) \/ LeaveSending(w)
        PROVE  LockInv'
    BY <1>6 DEF LoseClaim, ReserveRefused, RecordSent, ScheduleRetry, GiveUp,
                LeaveSending, ToLoop
  <1>7. ASSUME NEW w \in Worker, FinishRun(w) \/ AbortRun(w) \/ Crash(w)
        PROVE  LockInv'
    BY <1>7 DEF FinishRun, AbortRun, Crash, ToIdle
  <1>8. CASE Tick
    BY <1>8 DEF Tick
  <1>9. CASE UNCHANGED vars
    BY <1>9 DEF vars
  <1>10. QED
    BY <1>1, <1>2, <1>3, <1>4, <1>5, <1>6, <1>7, <1>8, <1>9 DEF Next, WorkerStep

\* Runs do not overlap if every run ends before the lock's TTL does (cron.py:14).
THEOREM ShortRunsDoNotOverlap ==
    ASSUME MaxRun < LockTTL
    PROVE  Spec => []NoOverlap
  <1>1. Init => LockInv
    BY DEF Init, LockInv, NoOverlap, Busy
  <1>2. LockInv => NoOverlap
    BY DEF LockInv
  <1>3. TypeInv /\ LockInv /\ [Next]_vars => LockInv'
    BY StepLock
  <1>4. QED
    BY <1>1, <1>2, <1>3, InitTypeInv, StepTypeInv, PTL DEF Spec

\* While its run lasts nobody else claims rows, so what a worker selected and
\* has not come to is what the table says, and its own claim came on top.
InHandPhases == {"claim", "reserve", "dispatch", "record"}
FreshBatch(w) ==
    /\ pc[w] = "idle" => batch[w] = {}
    /\ \A r \in batch[w] : snap[w][r] = attempts[r]
    /\ pc[w] \in InHandPhases => cur[w] \notin batch[w]
    /\ pc[w] = "claim" => snap[w][cur[w]] = attempts[cur[w]]
    /\ InFlight(w) => snap[w][cur[w]] + 1 = attempts[cur[w]]
SelectsLater(w) == pc[w] \in {"reap", "select"} => batch[w] = {}
FreshInv == \A w \in Worker : FreshBatch(w) /\ SelectsLater(w)

\* A step of w that claims nothing.
LEMMA FreshKeeps ==
    ASSUME FreshInv, NEW w \in Worker, attempts' = attempts,
           \A v \in Worker : v # w => /\ pc'[v] = pc[v] /\ batch'[v] = batch[v]
                                     /\ snap'[v] = snap[v] /\ cur'[v] = cur[v],
           FreshBatch(w)', SelectsLater(w)'
    PROVE  FreshInv'
  BY DEF FreshInv, FreshBatch, SelectsLater, InFlight, InHandPhases

LEMMA StepFresh == TypeInv /\ NoOverlap /\ FreshInv /\ [Next]_vars => FreshInv'
  <1> SUFFICES ASSUME TypeInv, NoOverlap, FreshInv, [Next]_vars
               PROVE  FreshInv'
    OBVIOUS
  <1> USE DEF TypeInv, TypeOK, RowInHand, FreshInv, SelectsLater, FreshBatch, InHandPhases,
              InFlight, rowVars, workerVars, history
  <1>1. ASSUME NEW r \in Row, Enqueue(r) PROVE FreshInv'
    BY <1>1 DEF Enqueue
  <1>2. ASSUME NEW w \in Worker, AcquireLock(w) PROVE FreshInv'
    BY <1>2, FreshKeeps DEF AcquireLock
  <1>3. ASSUME NEW w \in Worker, Reap(w) PROVE FreshInv'
    BY <1>3, FreshKeeps DEF Reap
  <1>4. ASSUME NEW w \in Worker, SelectBatch(w) PROVE FreshInv'
    <2>1. PICK S \in SUBSET Row :
             /\ batch' = [batch EXCEPT ![w] = S]
             /\ snap' = [snap EXCEPT ![w] = [r \in Row |-> IF r \in S THEN attempts[r] ELSE 0]]
      BY <1>4 DEF SelectBatch
    <2>2. pc' = [pc EXCEPT ![w] = "loop"] /\ UNCHANGED <<attempts, cur>>
      BY <1>4 DEF SelectBatch
    <2>3. \A r \in batch'[w] : snap'[w][r] = attempts'[r]
      BY <2>1, <2>2
    <2>4. FreshBatch(w)' /\ SelectsLater(w)'
      BY <2>2, <2>3
    <2>5. QED
      BY <2>1, <2>2, <2>4, FreshKeeps
  <1>5. ASSUME NEW w \in Worker, ExpireRow(w) \/ SkipRow(w) PROVE FreshInv'
    <2>1. /\ pc[w] = "loop" /\ UNCHANGED <<pc, snap, cur, attempts>>
          /\ batch'[w] \subseteq batch[w] /\ \A v \in Worker : v # w => batch'[v] = batch[v]
      BY <1>5 DEF ExpireRow, SkipRow
    <2>2. QED
      BY <2>1, FreshKeeps
  <1>6. ASSUME NEW w \in Worker, ResolveRow(w) PROVE FreshInv'
    <2>1. PICK r \in batch[w] : /\ cur' = [cur EXCEPT ![w] = r]
                                /\ batch' = [batch EXCEPT ![w] = @ \ {r}]
      BY <1>6 DEF ResolveRow, NextRow
    <2>2. pc' = [pc EXCEPT ![w] = "claim"] /\ UNCHANGED <<snap, attempts>>
      BY <1>6 DEF ResolveRow
    <2>3. QED
      BY <2>1, <2>2, FreshKeeps
  <1>7. ASSUME NEW w \in Worker, ClaimRow(w) PROVE FreshInv'
    <2>1. /\ pc[w] = "claim" /\ UNCHANGED <<batch, snap, cur>>
          /\ attempts' = [attempts EXCEPT ![cur[w]] = @ + 1]
          /\ pc'[w] \in {"reserve", "dispatch"}
          /\ \A v \in Worker : v # w => pc'[v] = pc[v]
      BY <1>7 DEF ClaimRow
    <2>2. \A v \in Worker : v # w => pc'[v] = "idle" /\ batch'[v] = {}
      BY <2>1 DEF NoOverlap, Busy
    <2>3. cur[w] \in Row /\ attempts'[cur[w]] = attempts[cur[w]] + 1
      BY <2>1
    <2>4. \A r \in Row : r # cur[w] => attempts'[r] = attempts[r]
      BY <2>1
    <2>5. FreshBatch(w)' /\ SelectsLater(w)'
      BY <2>1, <2>3, <2>4
    <2>6. ASSUME NEW v \in Worker, v # w PROVE FreshBatch(v)' /\ SelectsLater(v)'
      <3>1. pc'[v] = "idle" /\ batch'[v] = {}
        BY <2>2, <2>6
      <3>2. QED
        BY <3>1
    <2>7. QED
      BY <2>5, <2>6
  <1>8. ASSUME NEW w \in Worker, ReserveGranted(w) \/ Dispatch(w) PROVE FreshInv'
    <2>1. /\ pc[w] \in {"reserve", "dispatch"} /\ pc'[w] \in {"dispatch", "record"}
          /\ \A v \in Worker : v # w => pc'[v] = pc[v]
          /\ UNCHANGED <<batch, snap, cur, attempts>>
      BY <1>8 DEF ReserveGranted, Dispatch
    <2>2. QED
      BY <2>1, FreshKeeps
  <1>9. ASSUME NEW w \in Worker,
               \/ LoseClaim(w) \/ ReserveRefused(w) \/ RecordSent(w)
               \/ ScheduleRetry(w) \/ GiveUp(w) \/ LeaveSending(w)
        PROVE  FreshInv'
    <2>1. ToLoop(w) /\ attempts' = attempts
      BY <1>9 DEF LoseClaim, ReserveRefused, RecordSent, ScheduleRetry, GiveUp, LeaveSending
    <2>2. QED
      BY <2>1, FreshKeeps DEF ToLoop
  <1>10. ASSUME NEW w \in Worker, FinishRun(w) \/ AbortRun(w) \/ Crash(w)
        PROVE  FreshInv'
    <2>1. ToIdle(w) /\ attempts' = attempts
      BY <1>10 DEF FinishRun, AbortRun, Crash
    <2>2. QED
      BY <2>1, FreshKeeps DEF ToIdle
  <1>11. CASE Tick \/ UNCHANGED vars
    BY <1>11 DEF Tick, vars
  <1>12. QED
    BY <1>1, <1>2, <1>3, <1>4, <1>5, <1>6, <1>7, <1>8, <1>9, <1>10, <1>11 DEF Next, WorkerStep

\* The attempts a worker decides on are those in the table, if every run ends
\* before the lock's TTL does (worker.py:157, 205-219).
THEOREM ShortRunsCountExactly ==
    ASSUME MaxRun < LockTTL
    PROVE  Spec => []LocalAttemptsExact
  <1>1. Init => FreshInv
    BY DEF Init, FreshInv, SelectsLater, FreshBatch, InFlight, InHandPhases
  <1>2. FreshInv => LocalAttemptsExact
    BY DEF FreshInv, FreshBatch, LocalAttemptsExact, LocalAttempts
  <1>3. TypeInv /\ NoOverlap /\ FreshInv /\ [Next]_vars => FreshInv'
    BY StepFresh
  <1>4. Spec => []NoOverlap
    BY ShortRunsDoNotOverlap
  <1>5. QED
    BY <1>1, <1>2, <1>3, <1>4, InitTypeInv, StepTypeInv, PTL DEF Spec

\* What a worker selected was due, and stays so until the worker itself
\* postpones it.
DueBatch(w) ==
    /\ \A r \in batch[w] : nextAt[r] <= clock
    /\ pc[w] = "claim" => nextAt[cur[w]] <= clock
DueInv == \A w \in Worker : DueBatch(w)

LEMMA StepDue ==
    TypeInv /\ NoOverlap /\ FreshInv /\ DueInv /\ [Next]_vars => DueInv'
  <1> SUFFICES ASSUME TypeInv, NoOverlap, FreshInv, DueInv, [Next]_vars
               PROVE  DueInv'
    OBVIOUS
  <1> USE DEF TypeInv, TypeOK, RowInHand, DueInv, DueBatch, rowVars, workerVars, history
  <1>1. ASSUME NEW r \in Row, Enqueue(r) PROVE DueInv'
    BY <1>1 DEF Enqueue
  <1>2. ASSUME NEW w \in Worker, AcquireLock(w) \/ Reap(w) PROVE DueInv'
    <2>1. /\ UNCHANGED <<batch, cur, nextAt, clock>> /\ pc'[w] # "claim"
          /\ \A v \in Worker : v # w => pc'[v] = pc[v]
      BY <1>2 DEF AcquireLock, Reap
    <2>2. QED
      BY <2>1
  <1>3. ASSUME NEW w \in Worker, SelectBatch(w) PROVE DueInv'
    <2>1. PICK S \in SUBSET Row : IsBatch(S) /\ batch' = [batch EXCEPT ![w] = S]
      BY <1>3 DEF SelectBatch
    <2>2. \A r \in S : nextAt[r] <= clock
      BY <2>1 DEF IsBatch, Due
    <2>3. pc' = [pc EXCEPT ![w] = "loop"] /\ UNCHANGED <<cur, nextAt, clock>>
      BY <1>3 DEF SelectBatch
    <2>4. QED
      BY <2>1, <2>2, <2>3
  <1>4. ASSUME NEW w \in Worker, ExpireRow(w) \/ SkipRow(w) PROVE DueInv'
    <2>1. /\ UNCHANGED <<pc, cur, nextAt, clock>>
          /\ \A v \in Worker : batch'[v] \subseteq batch[v]
      <3>1. /\ UNCHANGED <<pc, cur, nextAt, clock>>
            /\ \E r \in Row : batch' = [batch EXCEPT ![w] = @ \ {r}]
        BY <1>4 DEF ExpireRow, SkipRow
      <3>2. QED
        BY <3>1
    <2>2. QED
      BY <2>1
  <1>5. ASSUME NEW w \in Worker, ResolveRow(w) PROVE DueInv'
    <2>1. PICK r \in batch[w] : /\ cur' = [cur EXCEPT ![w] = r]
                                /\ batch' = [batch EXCEPT ![w] = @ \ {r}]
      BY <1>5 DEF ResolveRow, NextRow
    <2>2. pc' = [pc EXCEPT ![w] = "claim"] /\ UNCHANGED <<nextAt, clock>>
      BY <1>5 DEF ResolveRow
    <2>3. QED
      BY <2>1, <2>2
  <1>6. ASSUME NEW w \in Worker, ClaimRow(w) \/ ReserveGranted(w) \/ Dispatch(w) PROVE DueInv'
    <2>1. /\ UNCHANGED <<batch, cur, nextAt, clock>> /\ pc'[w] # "claim"
          /\ \A v \in Worker : v # w => pc'[v] = pc[v]
      BY <1>6 DEF ClaimRow, ReserveGranted, Dispatch
    <2>2. QED
      BY <2>1
  <1>7. ASSUME NEW w \in Worker,
               \/ LoseClaim(w) \/ ReserveRefused(w) \/ RecordSent(w) \/ GiveUp(w)
               \/ LeaveSending(w)
        PROVE  DueInv'
    <2>1. ToLoop(w) /\ UNCHANGED <<nextAt, clock>>
      BY <1>7 DEF LoseClaim, ReserveRefused, RecordSent, GiveUp, LeaveSending
    <2>2. QED
      BY <2>1 DEF ToLoop
  <1>8. ASSUME NEW w \in Worker, ScheduleRetry(w) PROVE DueInv'
    <2>1. /\ pc[w] = "record" /\ ToLoop(w) /\ clock' = clock
          /\ \A r \in Row : r # cur[w] => nextAt'[r] = nextAt[r]
      <3>1. /\ pc[w] = "record" /\ ToLoop(w) /\ clock' = clock
            /\ \E t : nextAt' = [nextAt EXCEPT ![cur[w]] = t]
        BY <1>8 DEF ScheduleRetry
      <3>2. QED
        BY <3>1
    <2>2. /\ cur[w] \notin batch[w] /\ batch' = batch /\ pc'[w] = "loop"
          /\ \A v \in Worker : v # w => pc'[v] = pc[v]
      BY <2>1 DEF FreshInv, FreshBatch, InHandPhases, ToLoop
    <2>3. \A v \in Worker : v # w => pc'[v] = "idle" /\ batch'[v] = {}
      BY <2>1, <2>2 DEF NoOverlap, Busy, FreshInv, FreshBatch
    <2>4. DueBatch(w)'
      BY <2>1, <2>2
    <2>5. ASSUME NEW v \in Worker, v # w PROVE DueBatch(v)'
      <3>1. pc'[v] = "idle" /\ batch'[v] = {}
        BY <2>3, <2>5
      <3>2. QED
        BY <3>1
    <2>6. QED
      BY <2>4, <2>5
  <1>9. ASSUME NEW w \in Worker, FinishRun(w) \/ AbortRun(w) \/ Crash(w) PROVE DueInv'
    <2>1. ToIdle(w) /\ UNCHANGED <<nextAt, clock>>
      BY <1>9 DEF FinishRun, AbortRun, Crash
    <2>2. QED
      BY <2>1 DEF ToIdle
  <1>10. CASE Tick
    <2>1. \A r \in Row : nextAt[r] \in Int
      BY DEF Never
    <2>2. clock' = clock + 1 /\ UNCHANGED <<batch, cur, pc, nextAt>>
      BY <1>10 DEF Tick
    <2>3. QED
      BY <2>1, <2>2
  <1>11. CASE UNCHANGED vars
    BY <1>11 DEF vars
  <1>12. QED
    BY <1>1, <1>2, <1>3, <1>4, <1>5, <1>6, <1>7, <1>8, <1>9, <1>10, <1>11 DEF Next, WorkerStep

\* A row is not tried before its next_attempt_at, although the claim does not
\* look at it, if every run ends before the lock's TTL does (worker.py:54-66,
\* 135-142).
THEOREM ShortRunsBackOff ==
    ASSUME MaxRun < LockTTL
    PROVE  Spec => BackoffRespected
  <1>1. Init => FreshInv /\ DueInv
    BY DEF Init, FreshInv, SelectsLater, FreshBatch, InFlight, InHandPhases, DueInv, DueBatch
  <1>2. TypeInv /\ NoOverlap /\ FreshInv /\ DueInv /\ [Next]_vars => FreshInv' /\ DueInv'
    BY StepFresh, StepDue
  <1>3. ASSUME TypeInv, DueInv, [Next]_vars, NEW r \in Row,
               status[r] = "Queued", status'[r] = "Sending"
        PROVE  nextAt[r] <= clock
    <2>1. ASSUME NEW w \in Worker, ClaimRow(w) PROVE nextAt[r] <= clock
      <3>1. pc[w] = "claim" /\ r = cur[w]
        BY <1>3, <2>1 DEF ClaimRow, TypeInv, TypeOK
      <3>2. QED
        BY <3>1, <1>3 DEF DueInv, DueBatch
    <2>2. CASE \E q \in Row : Enqueue(q)
      BY <1>3, <2>2 DEF Enqueue, TypeInv, TypeOK
    <2>3. ASSUME NEW w \in Worker, WorkerStep(w), ~ClaimRow(w) PROVE FALSE
      <3>1. CASE UNCHANGED status
        BY <1>3, <3>1
      <3>2. CASE Reap(w)
        BY <1>3, <3>2 DEF Reap
      <3>3. CASE ExpireRow(w)
        BY <1>3, <3>3 DEF ExpireRow, TypeInv, TypeOK
      <3>4. CASE ReserveRefused(w) \/ RecordSent(w) \/ ScheduleRetry(w) \/ GiveUp(w)
        BY <1>3, <3>4 DEF ReserveRefused, RecordSent, ScheduleRetry, GiveUp, TypeInv, TypeOK
      <3>5. QED
        BY <2>3, <3>1, <3>2, <3>3, <3>4
           DEF WorkerStep, AcquireLock, SelectBatch, SkipRow, ResolveRow, LoseClaim,
               ReserveGranted, Dispatch, LeaveSending, FinishRun, rowVars
    <2>4. CASE UNCHANGED status
      BY <1>3, <2>4
    <2>5. QED
      BY <1>3, <2>1, <2>2, <2>3, <2>4 DEF Next, AcquireLock, AbortRun, Crash, Tick, vars, rowVars
  <1>4. TypeInv /\ DueInv /\ [Next]_vars =>
            [\A r \in Row : status[r] = "Queued" /\ status'[r] = "Sending"
                                => nextAt[r] <= clock]_vars
    BY <1>3
  <1>5. Spec => []NoOverlap
    BY ShortRunsDoNotOverlap
  <1>6. QED
    BY <1>1, <1>2, <1>4, <1>5, InitTypeInv, StepTypeInv, PTL DEF Spec, BackoffRespected


\* What a worker selected is still Queued when it comes to it, and the row in its
\* hand is in nobody else's: the column says where its worker is.
OwnBatch(w) ==
    /\ \A r \in batch[w] : status[r] = "Queued"
    /\ pc[w] = "claim" => status[cur[w]] = "Queued"
    /\ InFlight(w) => status[cur[w]] = "Sending"
OwnInv == \A w \in Worker : OwnBatch(w)

\* A step of a worker at work: nobody else has a row.
LEMMA OwnKeeps ==
    ASSUME TypeInv, NoOverlap, FreshInv, NEW w \in Worker, Busy(w),
           \A v \in Worker : v # w => pc'[v] = pc[v] /\ batch'[v] = batch[v],
           OwnBatch(w)'
    PROVE  OwnInv'
  <1> SUFFICES ASSUME NEW v \in Worker, v # w PROVE OwnBatch(v)'
    BY DEF OwnInv
  <1>1. pc'[v] = "idle" /\ batch'[v] = {}
    BY DEF NoOverlap, Busy, FreshInv, FreshBatch
  <1>2. QED
    BY <1>1 DEF OwnBatch, InFlight

LEMMA StepOwn ==
    TypeInv /\ NoOverlap /\ FreshInv /\ OwnInv /\ [Next]_vars => OwnInv'
  <1> SUFFICES ASSUME TypeInv, NoOverlap, FreshInv, OwnInv, [Next]_vars
               PROVE  OwnInv'
    OBVIOUS
  <1> USE DEF TypeInv, TypeOK, RowInHand, OwnInv, OwnBatch, InFlight, rowVars,
              workerVars, history
  <1>1. ASSUME NEW r \in Row, Enqueue(r) PROVE OwnInv'
    <2>1. /\ UNCHANGED workerVars
          /\ \A q \in Row : status[q] # "Absent" => status'[q] = status[q]
      BY <1>1 DEF Enqueue
    <2>2. QED
      BY <2>1
  <1>2. ASSUME NEW w \in Worker, AcquireLock(w) PROVE OwnInv'
    <2>1. pc' = [pc EXCEPT ![w] = "reap"] /\ UNCHANGED <<batch, cur, status>>
      BY <1>2 DEF AcquireLock
    <2>2. QED
      BY <2>1
  <1>3. ASSUME NEW w \in Worker, Reap(w) PROVE OwnInv'
    <2>1. pc[w] = "reap" /\ pc' = [pc EXCEPT ![w] = "select"] /\ batch' = batch
      BY <1>3 DEF Reap
    <2>2. batch[w] = {}
      BY <2>1 DEF FreshInv, SelectsLater
    <2>3. QED
      BY <2>1, <2>2, OwnKeeps DEF Busy
  <1>4. ASSUME NEW w \in Worker, SelectBatch(w) PROVE OwnInv'
    <2>1. PICK S \in SUBSET Row : IsBatch(S) /\ batch' = [batch EXCEPT ![w] = S]
      BY <1>4 DEF SelectBatch
    <2>2. \A r \in S : status[r] = "Queued"
      BY <2>1 DEF IsBatch, Due
    <2>3. pc' = [pc EXCEPT ![w] = "loop"] /\ UNCHANGED <<cur, status>>
      BY <1>4 DEF SelectBatch
    <2>4. QED
      BY <2>1, <2>2, <2>3
  <1>5. ASSUME NEW w \in Worker, ExpireRow(w) \/ SkipRow(w) PROVE OwnInv'
    <2>1. PICK r \in batch[w] : /\ batch' = [batch EXCEPT ![w] = @ \ {r}]
                                /\ \A q \in Row : q # r => status'[q] = status[q]
      BY <1>5 DEF ExpireRow, SkipRow, NextRow
    <2>2. pc[w] = "loop" /\ pc' = pc
      BY <1>5 DEF ExpireRow, SkipRow
    <2>3. batch'[w] = batch[w] \ {r} /\ \A v \in Worker : v # w => batch'[v] = batch[v]
      BY <2>1
    <2>4. OwnBatch(w)'
      BY <2>1, <2>2, <2>3
    <2>5. Busy(w)
      BY <2>2 DEF Busy
    <2>6. QED
      BY <2>2, <2>3, <2>4, <2>5, OwnKeeps
  <1>6. ASSUME NEW w \in Worker, ResolveRow(w) PROVE OwnInv'
    <2>1. PICK r \in batch[w] : /\ cur' = [cur EXCEPT ![w] = r]
                                /\ batch' = [batch EXCEPT ![w] = @ \ {r}]
      BY <1>6 DEF ResolveRow, NextRow
    <2>2. pc' = [pc EXCEPT ![w] = "claim"] /\ UNCHANGED status
      BY <1>6 DEF ResolveRow
    <2>3. QED
      BY <2>1, <2>2
  <1>7. ASSUME NEW w \in Worker, ClaimRow(w) PROVE OwnInv'
    <2>1. /\ pc[w] = "claim" /\ UNCHANGED <<batch, cur>>
          /\ status' = [status EXCEPT ![cur[w]] = "Sending"]
          /\ pc'[w] \in {"reserve", "dispatch"}
          /\ \A v \in Worker : v # w => pc'[v] = pc[v]
      BY <1>7 DEF ClaimRow
    <2>2. cur[w] \in Row /\ cur[w] \notin batch[w]
      BY <2>1 DEF FreshInv, FreshBatch, InHandPhases
    <2>3. status'[cur[w]] = "Sending" /\ \A r \in Row : r # cur[w] => status'[r] = status[r]
      BY <2>1, <2>2
    <2>4. OwnBatch(w)'
      BY <2>1, <2>2, <2>3
    <2>5. Busy(w)
      BY <2>1 DEF Busy
    <2>6. \A v \in Worker : v # w => pc'[v] = pc[v] /\ batch'[v] = batch[v]
      BY <2>1
    <2>7. QED
      BY <2>4, <2>5, <2>6, OwnKeeps
  <1>8. ASSUME NEW w \in Worker, ReserveGranted(w) \/ Dispatch(w) PROVE OwnInv'
    <2>1. /\ pc[w] \in {"reserve", "dispatch"} /\ pc'[w] \in {"dispatch", "record"}
          /\ \A v \in Worker : v # w => pc'[v] = pc[v]
          /\ UNCHANGED <<batch, cur, status>>
      BY <1>8 DEF ReserveGranted, Dispatch
    <2>2. QED
      BY <2>1
  <1>9. ASSUME NEW w \in Worker,
               \/ LoseClaim(w) \/ ReserveRefused(w) \/ RecordSent(w)
               \/ ScheduleRetry(w) \/ GiveUp(w) \/ LeaveSending(w)
        PROVE  OwnInv'
    <2>1. /\ ToLoop(w) /\ pc[w] \in InHandPhases
          /\ \A r \in Row : r # cur[w] => status'[r] = status[r]
      BY <1>9 DEF LoseClaim, ReserveRefused, RecordSent, ScheduleRetry, GiveUp,
                  LeaveSending, InHandPhases
    <2>2. cur[w] \notin batch[w] /\ Busy(w)
      BY <2>1 DEF FreshInv, FreshBatch, Busy, InHandPhases
    <2>3. /\ pc'[w] = "loop" /\ batch' = batch
          /\ \A v \in Worker : v # w => pc'[v] = pc[v]
      BY <2>1 DEF ToLoop
    <2>4. OwnBatch(w)'
      BY <2>1, <2>2, <2>3
    <2>5. QED
      BY <2>2, <2>3, <2>4, OwnKeeps
  <1>10. ASSUME NEW w \in Worker, FinishRun(w) \/ AbortRun(w) \/ Crash(w) PROVE OwnInv'
    <2>1. ToIdle(w) /\ status' = status
      BY <1>10 DEF FinishRun, AbortRun, Crash
    <2>2. QED
      BY <2>1 DEF ToIdle
  <1>11. CASE Tick \/ UNCHANGED vars
    BY <1>11 DEF Tick, vars
  <1>12. QED
    BY <1>1, <1>2, <1>3, <1>4, <1>5, <1>6, <1>7, <1>8, <1>9, <1>10, <1>11 DEF Next, WorkerStep

\* A committed Sent is never overwritten, although the expiry of a row does not
\* look at its status, if every run ends before the lock's TTL does
\* (worker.py:82-89, 195-199).  Without that condition the run
\* OutboundQueueDurable shows the overwriting.
THEOREM ShortRunsKeepSent ==
    ASSUME MaxRun < LockTTL
    PROVE  Spec => SentIsDurable
  <1>1. Init => FreshInv /\ OwnInv
    BY DEF Init, FreshInv, SelectsLater, FreshBatch, InFlight, InHandPhases, OwnInv, OwnBatch
  <1>2. TypeInv /\ NoOverlap /\ FreshInv /\ OwnInv /\ [Next]_vars => FreshInv' /\ OwnInv'
    BY StepFresh, StepOwn
  <1>3. ASSUME TypeInv, OwnInv, [Next]_vars, NEW r \in Row, status[r] = "Sent"
        PROVE  status'[r] = "Sent"
    <2> USE <1>3 DEF TypeInv, TypeOK, OwnInv, OwnBatch
    <2>1. ASSUME NEW q \in Row, Enqueue(q) PROVE status'[r] = "Sent"
      BY <2>1 DEF Enqueue
    <2>2. ASSUME NEW w \in Worker, Reap(w) PROVE status'[r] = "Sent"
      BY <2>2 DEF Reap, Stuck
    <2>3. ASSUME NEW w \in Worker, ExpireRow(w) PROVE status'[r] = "Sent"
      BY <2>3 DEF ExpireRow, NextRow
    <2>4. ASSUME NEW w \in Worker, ClaimRow(w) PROVE status'[r] = "Sent"
      BY <2>4 DEF ClaimRow, Claimable
    <2>5. ASSUME NEW w \in Worker,
                 ReserveRefused(w) \/ RecordSent(w) \/ ScheduleRetry(w) \/ GiveUp(w)
          PROVE  status'[r] = "Sent"
      <3>1. cur[w] # r
        BY <2>5 DEF InFlight, ReserveRefused, RecordSent, ScheduleRetry, GiveUp
      <3>2. QED
        BY <2>5, <3>1 DEF ReserveRefused, RecordSent, ScheduleRetry, GiveUp
    <2>6. CASE UNCHANGED status
      BY <2>6
    <2>7. QED
      BY <2>1, <2>2, <2>3, <2>4, <2>5, <2>6
         DEF Next, WorkerStep, AcquireLock, SelectBatch, SkipRow, ResolveRow, LoseClaim,
             ReserveGranted, Dispatch, LeaveSending, FinishRun, AbortRun, Crash, Tick, vars, rowVars
  <1>4. TypeInv /\ OwnInv /\ [Next]_vars =>
            [\A r \in Row : status[r] = "Sent" => status'[r] = "Sent"]_vars
    BY <1>3
  <1>5. Spec => []NoOverlap
    BY ShortRunsDoNotOverlap
  <1>6. QED
    BY <1>1, <1>2, <1>4, <1>5, InitTypeInv, StepTypeInv, PTL DEF Spec, SentIsDurable

=============================================================================
