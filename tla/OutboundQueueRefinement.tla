---------------------- MODULE OutboundQueueRefinement ----------------------
(* The outbound queue implements AtLeastOnce, for every set of rows and    *)
(* schedulers and every value of the time constants: the safety part of    *)
(* ImplementsAtLeastOnce.                                                  *)
EXTENDS OutboundQueueProofs

Out(r) == \E w \in Holder(r) : Unrecorded(w)

\* A worker has only rows in its batch that were enqueued.
KnownRows == \A w \in Worker : \A r \in batch[w] : status[r] # "Absent"

LEMMA StepKnownRows == TypeInv /\ KnownRows /\ [Next]_vars => KnownRows'
  <1> SUFFICES ASSUME TypeInv, KnownRows, [Next]_vars
               PROVE  KnownRows'
    OBVIOUS
  <1> USE DEF TypeInv, TypeOK, RowInHand, KnownRows, rowVars, workerVars, history
  <1>1. ASSUME NEW r \in Row, Enqueue(r) PROVE KnownRows'
    BY <1>1 DEF Enqueue
  <1>2. ASSUME NEW w \in Worker, AcquireLock(w) \/ Reap(w) PROVE KnownRows'
    BY <1>2 DEF AcquireLock, Reap
  <1>3. ASSUME NEW w \in Worker, SelectBatch(w) PROVE KnownRows'
    BY <1>3 DEF SelectBatch, IsBatch, Due
  <1>4. ASSUME NEW w \in Worker, ExpireRow(w) \/ SkipRow(w) \/ ResolveRow(w)
        PROVE  KnownRows'
    <2>1. \A v \in Worker : batch'[v] \subseteq batch[v]
      BY <1>4 DEF ExpireRow, SkipRow, ResolveRow
    <2>2. \A r \in Row : status[r] # "Absent" => status'[r] # "Absent"
      BY <1>4 DEF ExpireRow, SkipRow, ResolveRow
    <2>3. QED
      BY <2>1, <2>2
  <1>5. ASSUME NEW w \in Worker,
               \/ ClaimRow(w) \/ LoseClaim(w) \/ ReserveGranted(w)
               \/ ReserveRefused(w) \/ Dispatch(w)
        PROVE  KnownRows'
    BY <1>5 DEF ClaimRow, LoseClaim, ReserveGranted, ReserveRefused, Dispatch, ToLoop
  <1>6. ASSUME NEW w \in Worker,
               RecordSent(w) \/ ScheduleRetry(w) \/ GiveUp(w) \/ LeaveSending(w)
        PROVE  KnownRows'
    BY <1>6 DEF RecordSent, ScheduleRetry, GiveUp, LeaveSending, ToLoop
  <1>7. ASSUME NEW w \in Worker, FinishRun(w) \/ AbortRun(w) \/ Crash(w)
        PROVE  KnownRows'
    BY <1>7 DEF FinishRun, AbortRun, Crash, ToIdle
  <1>8. CASE Tick
    BY <1>8 DEF Tick
  <1>9. CASE UNCHANGED vars
    BY <1>9 DEF vars
  <1>10. QED
    BY <1>1, <1>2, <1>3, <1>4, <1>5, <1>6, <1>7, <1>8, <1>9 DEF Next, WorkerStep

-----------------------------------------------------------------------------
(* From rows to the variables of AtLeastOnce.                              *)

\* A step that leaves every row where it is, as the abstract queue sees it.
LEMMA Stutter ==
    ASSUME \A r \in Row : AbstractState(r)' = AbstractState(r) /\ (Out(r)' <=> Out(r)),
           UNCHANGED <<delivered, lost>>
    PROVE  UNCHANGED Abstract!vars
  BY DEF Abstract!vars, Out

\* A step that moves one row.
LEMMA OneRowMoves ==
    ASSUME NEW r \in Row, NEW from, NEW to,
           AbstractState(r) = from, AbstractState(r)' = to,
           \A q \in Row : q # r => AbstractState(q)' = AbstractState(q)
    PROVE  Abstract!Move(r, from, to)
  BY DEF Abstract!Move

OutMap == [r \in Row |-> Out(r)]

LEMMA OutMoves ==
    ASSUME NEW r \in Row, NEW b \in BOOLEAN, Out(r)' <=> b,
           \A q \in Row : q # r => (Out(q)' <=> Out(q))
    PROVE  OutMap' = [OutMap EXCEPT ![r] = b]
  <1>1. \A q \in Row : Out(q) \in BOOLEAN /\ Out(q)' \in BOOLEAN
    BY DEF Out
  <1>2. \A q \in Row : OutMap'[q] = IF q = r THEN b ELSE OutMap[q]
    BY <1>1 DEF OutMap
  <1>3. QED
    BY <1>2 DEF OutMap

\* What a step of w does to the rows it does not have in flight.
Others(w) ==
    \A v \in Worker : v # w => /\ pc'[v] = pc[v]
                               /\ cur'[v] = cur[v]
                               /\ outcome'[v] = outcome[v]

LEMMA RestKeeps ==
    ASSUME NEW w \in Worker, NEW r \in Row, Others(w),
           status'[r] = status[r],
           InFlight(w) => cur[w] # r, InFlight(w)' => cur'[w] # r
    PROVE  AbstractState(r)' = AbstractState(r) /\ (Out(r)' <=> Out(r))
  <1>1. Holder(r)' = Holder(r)
    BY DEF Holder, Others, InFlight
  <1>2. \A v \in Holder(r) : Unrecorded(v)' <=> Unrecorded(v)
    BY DEF Holder, Others, Unrecorded
  <1>3. QED
    BY <1>1, <1>2 DEF AbstractState, Out

\* A row in flight is Taken, and only its own worker can have sent it.
LEMMA InHand ==
    ASSUME TypeInv, ClaimInv, NEW w \in Worker, InFlight(w)
    PROVE  \E r \in Row : /\ cur[w] = r
                          /\ Holder(r) = {w}
                          /\ AbstractState(r) = "Taken"
                          /\ Out(r) <=> Unrecorded(w)
  BY DEF TypeInv, RowInHand, ClaimInv, FlightInv, ClaimExclusive, InFlight, Holder,
         AbstractState, Out

-----------------------------------------------------------------------------
(* Steps.                                                                  *)

\* w lets go of a row whose sending, if there was one, nobody recorded.
LEMMA LetsGo ==
    ASSUME TypeInv, ClaimInv, NEW w \in Worker, InFlight(w), Others(w),
           NEW r \in Row, cur[w] = r,
           ~InFlight(w)', CountLost(w), delivered' = delivered,
           \A q \in Row : q # r => status'[q] = status[q],
           status'[r] # "Absent",
           NEW to, to = IF status'[r] \in Final THEN "Settled" ELSE "Waiting"
    PROVE  Abstract!PutBack(r, to)
  <1>1. Holder(r) = {w} /\ AbstractState(r) = "Taken" /\ (Out(r) <=> Unrecorded(w))
    BY InHand
  <1>2. Holder(r)' = {}
    BY <1>1 DEF Holder, Others, InFlight
  <1>3. AbstractState(r)' = to /\ ~Out(r)'
    BY <1>2 DEF AbstractState, Out
  <1>4. \A q \in Row : q # r => AbstractState(q)' = AbstractState(q) /\ (Out(q)' <=> Out(q))
    BY RestKeeps
  <1>5. Abstract!Move(r, "Taken", to)
    BY <1>1, <1>3, <1>4, OneRowMoves
  <1>6. OutMap' = [OutMap EXCEPT ![r] = FALSE]
    BY <1>3, <1>4, OutMoves
  <1>7. lost' = IF OutMap[r] THEN [lost EXCEPT ![r] = @ + 1] ELSE lost
    BY <1>1 DEF CountLost, OutMap
  <1>8. QED
    BY <1>5, <1>6, <1>7 DEF Abstract!PutBack, OutMap, Out

\* A step of w that changes no status and neither takes nor drops a claim.
LEMMA Unclaimed ==
    ASSUME NEW w \in Worker, Others(w), UNCHANGED <<status, delivered, lost>>,
           ~InFlight(w), ~InFlight(w)'
    PROVE  UNCHANGED Abstract!vars
  <1>1. \A r \in Row : AbstractState(r)' = AbstractState(r) /\ (Out(r)' <=> Out(r))
    BY RestKeeps
  <1>2. QED
    BY <1>1, Stutter

LEMMA StepAbstract ==
    TypeInv /\ ClaimInv /\ KnownRows /\ [Next]_vars => [Abstract!Next]_(Abstract!vars)
  <1> SUFFICES ASSUME TypeInv, ClaimInv, KnownRows, [Next]_vars
               PROVE  Abstract!Next \/ UNCHANGED Abstract!vars
    OBVIOUS
  <1> USE DEF rowVars, workerVars, history
  <1>1. ASSUME NEW r \in Row, Enqueue(r) PROVE Abstract!HandIn(r)
    <2>1. Holder(r) = {}
      BY <1>1 DEF Enqueue, Holder, ClaimInv, FlightInv
    <2>2. \A q \in Row : Holder(q)' = Holder(q) /\ (Out(q)' <=> Out(q))
      BY <1>1 DEF Enqueue, Holder, Out, InFlight, Unrecorded
    <2>3. AbstractState(r) = "Absent" /\ AbstractState(r)' = "Waiting"
      BY <1>1, <2>1, <2>2 DEF Enqueue, AbstractState, TypeInv, TypeOK, Final
    <2>4. \A q \in Row : q # r => AbstractState(q)' = AbstractState(q)
      BY <1>1, <2>2 DEF Enqueue, AbstractState, TypeInv, TypeOK
    <2>5. Abstract!Move(r, "Absent", "Waiting")
      BY <2>3, <2>4, OneRowMoves
    <2>6. QED
      BY <1>1, <2>2, <2>5 DEF Abstract!HandIn, Enqueue, Out
  <1>2. ASSUME NEW w \in Worker,
               \/ AcquireLock(w) \/ SelectBatch(w) \/ SkipRow(w) \/ ResolveRow(w)
               \/ LoseClaim(w) \/ FinishRun(w) \/ AbortRun(w)
        PROVE  UNCHANGED Abstract!vars
    <2>1. Others(w) /\ UNCHANGED <<status, delivered, lost>> /\ ~InFlight(w) /\ ~InFlight(w)'
      BY <1>2 DEF AcquireLock, SelectBatch, SkipRow, ResolveRow, LoseClaim, FinishRun,
                  AbortRun, ToLoop, ToIdle, Others, InFlight, TypeInv, TypeOK
    <2>2. QED
      BY <2>1, Unclaimed
  <1>3. ASSUME NEW w \in Worker, Reap(w) PROVE UNCHANGED Abstract!vars
    <2>1. \A v \in Worker : InFlight(v) => status'[cur[v]] = status[cur[v]]
      BY <1>3, NotStuckInFlight DEF Reap, TypeInv, TypeOK, RowInHand, InFlight, Busy
    <2>2. \A r \in Row : Holder(r)' = Holder(r) /\ (Out(r)' <=> Out(r))
      BY <1>3 DEF Reap, Holder, Out, InFlight, Unrecorded, TypeInv, TypeOK
    <2>3. \A r \in Row : AbstractState(r)' = AbstractState(r)
      BY <1>3, <2>1, <2>2 DEF Reap, Stuck, AbstractState, Holder, Final
    <2>4. QED
      BY <1>3, <2>2, <2>3, Stutter DEF Reap
  <1>4. ASSUME NEW w \in Worker, ExpireRow(w)
        PROVE  UNCHANGED Abstract!vars \/ \E r \in Row : Abstract!GiveUp(r)
    <2>1. PICK r \in Row : r \in batch[w] /\ status' = [status EXCEPT ![r] = "Expired"]
      BY <1>4 DEF ExpireRow, NextRow
    <2>2. status[r] # "Absent"
      BY <2>1 DEF KnownRows
    <2>3. \A q \in Row : Holder(q)' = Holder(q) /\ (Out(q)' <=> Out(q))
      BY <1>4 DEF ExpireRow, Holder, Out, InFlight, Unrecorded
    <2>4. \A q \in Row : q # r => AbstractState(q)' = AbstractState(q)
      BY <2>1, <2>3 DEF AbstractState, TypeInv, TypeOK
    <2>5. CASE Holder(r) # {} \/ status[r] \in Final
      <3>1. AbstractState(r)' = AbstractState(r)
        BY <2>1, <2>2, <2>3, <2>5 DEF AbstractState, TypeInv, TypeOK, Final
      <3>2. QED
        BY <1>4, <2>3, <2>4, <3>1, Stutter DEF ExpireRow
    <2>6. CASE Holder(r) = {} /\ status[r] \notin Final
      <3>1. AbstractState(r) = "Waiting" /\ AbstractState(r)' = "Settled"
        BY <2>1, <2>2, <2>3, <2>6 DEF AbstractState, TypeInv, TypeOK, Final
      <3>2. Abstract!Move(r, "Waiting", "Settled")
        BY <2>4, <3>1, OneRowMoves
      <3>3. QED
        BY <1>4, <2>3, <3>2 DEF ExpireRow, Abstract!GiveUp, Out
    <2>7. QED
      BY <2>5, <2>6
  <1>5. ASSUME NEW w \in Worker, ClaimRow(w) PROVE \E r \in Row : Abstract!Take(r)
    <2>1. PICK r \in Row : cur[w] = r /\ status[r] = "Queued" /\ ~InFlight(w)
      BY <1>5 DEF ClaimRow, Claimable, TypeInv, RowInHand, InFlight
    <2>2. Holder(r) = {}
      BY <2>1 DEF Holder, ClaimInv, FlightInv
    <2>3. /\ Others(w) /\ cur' = cur /\ status' = [status EXCEPT ![r] = "Sending"]
          /\ pc'[w] \in {"reserve", "dispatch"}
      BY <1>5, <2>1 DEF ClaimRow, Others, TypeInv, TypeOK
    <2>4. Holder(r)' = {w} /\ ~Unrecorded(w)'
      BY <2>1, <2>2, <2>3 DEF Holder, Others, InFlight, Unrecorded
    <2>5. AbstractState(r) = "Waiting" /\ AbstractState(r)' = "Taken" /\ ~Out(r) /\ ~Out(r)'
      BY <2>1, <2>2, <2>3, <2>4 DEF AbstractState, Out, Final, TypeInv, TypeOK
    <2>6. \A q \in Row : q # r => AbstractState(q)' = AbstractState(q) /\ (Out(q)' <=> Out(q))
      BY <2>1, <2>3, RestKeeps DEF TypeInv, TypeOK
    <2>7. Abstract!Move(r, "Waiting", "Taken")
      BY <2>5, <2>6, OneRowMoves
    <2>8. \A q \in Row : Out(q)' <=> Out(q)
      BY <2>5, <2>6
    <2>9. QED
      BY <1>5, <2>7, <2>8 DEF Abstract!Take, ClaimRow, Out
  <1>6. ASSUME NEW w \in Worker, ReserveGranted(w) PROVE UNCHANGED Abstract!vars
    <2>1. \A q \in Row : Holder(q)' = Holder(q) /\ (Out(q)' <=> Out(q))
      BY <1>6 DEF ReserveGranted, Holder, Out, InFlight, Unrecorded, TypeInv, TypeOK
    <2>2. QED
      BY <1>6, <2>1, Stutter DEF ReserveGranted, AbstractState
  <1>7. ASSUME NEW w \in Worker, ReserveRefused(w)
        PROVE  \E r \in Row : Abstract!PutBack(r, "Waiting")
    <2>1. InFlight(w)
      BY <1>7 DEF ReserveRefused, InFlight
    <2>2. PICK r \in Row : cur[w] = r
      BY <2>1, InHand
    <2>3. /\ Others(w) /\ ~InFlight(w)' /\ delivered' = delivered
          /\ \A q \in Row : q # r => status'[q] = status[q]
          /\ status'[r] = "Queued"
      BY <1>7, <2>2 DEF ReserveRefused, ToLoop, Others, InFlight, TypeInv, TypeOK
    <2>4. CountLost(w)
      BY <1>7 DEF ReserveRefused, CountLost, Unrecorded
    <2>5. QED
      BY <2>1, <2>2, <2>3, <2>4, LetsGo DEF Final
  <1>8. ASSUME NEW w \in Worker, Dispatch(w)
        PROVE  UNCHANGED Abstract!vars \/ \E r \in Row : Abstract!Deliver(r)
    <2>1. PICK r \in Row : cur[w] = r /\ Holder(r) = {w} /\ AbstractState(r) = "Taken" /\ ~Out(r)
      BY <1>8, InHand DEF Dispatch, InFlight, Unrecorded
    <2>2. PICK o \in Outcomes \ {"none"} :
             /\ outcome' = [outcome EXCEPT ![w] = o]
             /\ delivered' = [delivered EXCEPT ![r] = IF o = "failed" THEN @ ELSE @ + 1]
      BY <1>8, <2>1 DEF Dispatch
    <2>3. \A q \in Row : Holder(q)' = Holder(q)
      BY <1>8 DEF Dispatch, Holder, InFlight, TypeInv, TypeOK
    <2>4. \A q \in Row : AbstractState(q)' = AbstractState(q)
      BY <1>8, <2>3 DEF Dispatch, AbstractState
    <2>5. \A q \in Row : q # r => (Out(q)' <=> Out(q))
      BY <1>8, <2>1, <2>2, <2>3 DEF Dispatch, Out, Unrecorded, Holder, TypeInv, TypeOK
    <2>6. Out(r)' <=> o \in {"sent", "lost"}
      BY <1>8, <2>1, <2>2, <2>3 DEF Dispatch, Out, Unrecorded, TypeInv, TypeOK
    <2>7. CASE o = "failed"
      <3>1. delivered' = delivered
        BY <2>2, <2>7 DEF TypeInv, TypeOK
      <3>2. \A q \in Row : Out(q)' <=> Out(q)
        BY <2>1, <2>5, <2>6, <2>7
      <3>3. lost' = lost
        BY <1>8 DEF Dispatch
      <3>4. QED
        BY <2>4, <3>1, <3>2, <3>3, Stutter
    <2>8. CASE o \in {"sent", "lost"}
      <3>1. OutMap' = [OutMap EXCEPT ![r] = TRUE]
        BY <2>5, <2>6, <2>8, OutMoves
      <3>2. delivered' = [delivered EXCEPT ![r] = @ + 1] /\ lost' = lost
        BY <1>8, <2>2, <2>8 DEF Dispatch
      <3>3. [q \in Row |-> AbstractState(q)]' = [q \in Row |-> AbstractState(q)]
        BY <2>4
      <3>4. QED
        BY <2>1, <3>1, <3>2, <3>3 DEF Abstract!Deliver, OutMap, Out
    <2>9. QED
      BY <2>2, <2>7, <2>8 DEF Outcomes
  <1>9. ASSUME NEW w \in Worker, RecordSent(w) PROVE \E r \in Row : Abstract!Record(r)
    <2>1. InFlight(w) /\ Unrecorded(w)
      BY <1>9 DEF RecordSent, InFlight, Unrecorded
    <2>2. PICK r \in Row : cur[w] = r /\ Holder(r) = {w} /\ AbstractState(r) = "Taken" /\ Out(r)
      BY <2>1, InHand
    <2>3. Others(w) /\ ~InFlight(w)' /\ status' = [status EXCEPT ![r] = "Sent"]
      BY <1>9, <2>2 DEF RecordSent, ToLoop, Others, InFlight, TypeInv, TypeOK
    <2>4. Holder(r)' = {}
      BY <2>2, <2>3 DEF Holder, Others, InFlight
    <2>5. AbstractState(r)' = "Settled" /\ ~Out(r)'
      BY <2>2, <2>3, <2>4 DEF AbstractState, Out, Final, TypeInv, TypeOK
    <2>6. \A q \in Row : q # r => AbstractState(q)' = AbstractState(q) /\ (Out(q)' <=> Out(q))
      BY <2>2, <2>3, RestKeeps DEF TypeInv, TypeOK
    <2>7. Abstract!Move(r, "Taken", "Settled")
      BY <2>2, <2>5, <2>6, OneRowMoves
    <2>8. OutMap' = [OutMap EXCEPT ![r] = FALSE]
      BY <2>5, <2>6, OutMoves
    <2>9. QED
      BY <1>9, <2>2, <2>7, <2>8 DEF Abstract!Record, RecordSent, OutMap, Out
  <1>10. ASSUME NEW w \in Worker, ScheduleRetry(w)
         PROVE  \E r \in Row : Abstract!PutBack(r, "Waiting")
    <2>1. InFlight(w)
      BY <1>10 DEF ScheduleRetry, InFlight
    <2>2. PICK r \in Row : cur[w] = r
      BY <2>1, InHand
    <2>3. /\ Others(w) /\ ~InFlight(w)' /\ delivered' = delivered /\ CountLost(w)
          /\ \A q \in Row : q # r => status'[q] = status[q]
          /\ status'[r] = "Queued"
      BY <1>10, <2>2 DEF ScheduleRetry, ToLoop, Others, InFlight, TypeInv, TypeOK
    <2>4. QED
      BY <2>1, <2>2, <2>3, LetsGo DEF Final
  <1>11. ASSUME NEW w \in Worker, GiveUp(w)
         PROVE  \E r \in Row : Abstract!PutBack(r, "Settled")
    <2>1. InFlight(w)
      BY <1>11 DEF GiveUp, InFlight
    <2>2. PICK r \in Row : cur[w] = r
      BY <2>1, InHand
    <2>3. /\ Others(w) /\ ~InFlight(w)' /\ delivered' = delivered /\ CountLost(w)
          /\ \A q \in Row : q # r => status'[q] = status[q]
          /\ status'[r] = "Failed"
      BY <1>11, <2>2 DEF GiveUp, ToLoop, Others, InFlight, TypeInv, TypeOK
    <2>4. QED
      BY <2>1, <2>2, <2>3, LetsGo DEF Final
  <1>12. ASSUME NEW w \in Worker, LeaveSending(w) \/ Crash(w)
         PROVE  \/ UNCHANGED Abstract!vars
                \/ \E r \in Row : Abstract!PutBack(r, "Waiting") \/ Abstract!PutBack(r, "Settled")
    <2>1. /\ Others(w) /\ ~InFlight(w)' /\ CountLost(w)
          /\ UNCHANGED <<status, delivered>>
      BY <1>12 DEF LeaveSending, Crash, ToLoop, ToIdle, Others, InFlight, TypeInv, TypeOK
    <2>2. CASE InFlight(w)
      <3>1. PICK r \in Row : cur[w] = r /\ status[r] # "Absent"
        BY <2>2, InHand DEF ClaimInv, FlightInv
      <3>2. CASE status[r] \in Final
        BY <2>1, <2>2, <3>1, <3>2, LetsGo
      <3>3. CASE status[r] \notin Final
        BY <2>1, <2>2, <3>1, <3>3, LetsGo
      <3>4. QED
        BY <3>2, <3>3
    <2>3. CASE ~InFlight(w)
      <3>1. lost' = lost
        BY <2>1, <2>3 DEF CountLost, Unrecorded, InFlight
      <3>2. QED
        BY <2>1, <2>3, <3>1, Unclaimed
    <2>4. QED
      BY <2>2, <2>3
  <1>13. CASE Tick \/ UNCHANGED vars
    <2>1. UNCHANGED <<status, pc, cur, outcome, delivered, lost>>
      BY <1>13 DEF Tick, vars
    <2>2. QED
      BY <2>1, Stutter DEF AbstractState, Holder, Out, InFlight, Unrecorded
  <1>14. QED
    BY <1>1, <1>2, <1>3, <1>4, <1>5, <1>6, <1>7, <1>8, <1>9, <1>10, <1>11, <1>12, <1>13
       DEF Next, WorkerStep, Abstract!Next

-----------------------------------------------------------------------------
\* Whatever the workers do, a reader of the table sees an at-least-once queue
\* (worker.py:38-43, 136-152, 195-219).
THEOREM ImplementsSafely == Spec => Abstract!Spec
  <1>1. Init => Abstract!Init
    <2> SUFFICES ASSUME Init PROVE Abstract!Init
      OBVIOUS
    <2>1. \A r \in Row : Holder(r) = {}
      BY DEF Init, Holder, InFlight
    <2>2. \A r \in Row : AbstractState(r) = "Absent" /\ ~Out(r)
      BY <2>1 DEF Init, AbstractState, Out
    <2>3. QED
      BY <2>2 DEF Init, Abstract!Init, Out
  <1>2. Init => KnownRows
    BY DEF Init, KnownRows
  <1>3. QED
    BY <1>1, <1>2, ClaimInvariance, StepKnownRows, StepAbstract, PTL
       DEF Spec, Abstract!Spec

=============================================================================
