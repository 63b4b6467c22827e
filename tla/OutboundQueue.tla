--------------------------- MODULE OutboundQueue ---------------------------
(***************************************************************************)
(* The outbound queue (queue/worker.py, queue/enqueue.py, utils/cron.py):  *)
(* rows of "WhatsApp Outbound Queue" and the workers that drain them.      *)
(*                                                                         *)
(* A worker is one call of process_outbound_queue.  Every step below ends  *)
(* at a commit, at a Redis command, or at the call to a provider: these    *)
(* are the points where another worker can get in between.  Whatever a run *)
(* reads once and keeps (its start time, the attempts it selected) is a    *)
(* variable of the worker, because it may be stale by the time it is used. *)
(*                                                                         *)
(* Time is discrete.  A step takes no time of its own; Tick lets time pass *)
(* in the middle of a run.                                                 *)
(***************************************************************************)
EXTENDS Integers, Sequences, FiniteSets

CONSTANTS
    Row,         \* the queue rows a run may create
    Worker,      \* the schedulers: each has at most one call of the job alive
    NoRow,       \* "no row in hand"
    Backoff,     \* _BACKOFF_MINUTES, a sequence: its length is the retry limit
    MaxAge,      \* max_age_minutes of every row
    StuckAfter,  \* stuck_sending_minutes
    LockTTL,     \* ttl_seconds of the cron lock
    BatchSize,   \* queue_batch_size
    MaxFlight,   \* longest time between a claim and the commit of its outcome
    MaxRun,      \* longest run of one worker (a large value: unbounded)
    MaxTime,     \* bound: the clock stops here
    LastEnqueue, \* bound: rows are enqueued until this time
    LastFault,   \* bound: processes are killed, or runs abort, until this time
    MaxFaults   \* bound: how many times that happens

ASSUME RowAssumption == NoRow \notin Row
ASSUME BackoffAssumption == Backoff \in Seq(Nat) /\ Len(Backoff) > 0
ASSUME TimeAssumption ==
    /\ {MaxAge, StuckAfter, LockTTL, MaxFlight, MaxRun} \subseteq Nat
    /\ {MaxTime, LastEnqueue, LastFault, MaxFaults} \subseteq Nat
    /\ BatchSize \in Nat \ {0}
    /\ LastEnqueue + MaxAge < MaxTime
\* worker.py:42-43: "the stuck-sending timeout is set well beyond any single
\* request timeout so only a dead worker trips it".
ASSUME FlightAssumption == MaxFlight <= StuckAfter

MaxAttempts == Len(Backoff)
Never == -1                   \* a NULL datetime

Statuses == {"Absent", "Queued", "Sending", "Sent", "Failed", "Expired"}
Final    == {"Sent", "Failed", "Expired"}
Outcomes == {"none", "sent", "failed", "lost"}
Phases   == {"idle", "reap", "select", "loop", "claim", "reserve",
             "dispatch", "record"}

VARIABLES
    clock,       \* now()
    status,      \* [Row -> Statuses]; "Absent": not enqueued yet
    attempts,    \* [Row -> Nat]
    enqueuedAt,  \* [Row -> Nat]
    nextAt,      \* next_attempt_at: a time or Never
    lastAt,      \* last_attempt_at: a time or Never
    lockUntil,   \* when the Redis lock key expires; 0: no key
    pc,          \* [Worker -> Phases]
    runStart,    \* `now` of the latest _run_queue, or Never
    batch,       \* rows selected and not looked at yet
    snap,        \* `attempts` of each row as the batch SELECT read it
    cur,         \* the row in hand, or NoRow
    claimedAt,   \* when the row in hand was claimed
    outcome,     \* what the provider call ended with
    dispatched,  \* history: provider calls made for a row
    delivered,   \* history: messages a provider really sent for a row
    lost,        \* history: sent messages whose success was never recorded
    deadLetters, \* dead-letter records inserted for a row
    faults       \* processes killed and runs aborted so far

rowVars    == <<status, attempts, enqueuedAt, nextAt, lastAt>>
workerVars == <<pc, runStart, batch, snap, cur, claimedAt, outcome>>
history    == <<dispatched, delivered, lost>>
vars == <<clock, rowVars, lockUntil, workerVars, history, deadLetters, faults>>

TypeOK ==
    /\ clock \in Nat
    /\ status \in [Row -> Statuses]
    /\ attempts \in [Row -> Nat]
    /\ enqueuedAt \in [Row -> Nat]
    /\ nextAt \in [Row -> Nat \cup {Never}]
    /\ lastAt \in [Row -> Nat \cup {Never}]
    /\ lockUntil \in Nat
    /\ pc \in [Worker -> Phases]
    /\ runStart \in [Worker -> Nat \cup {Never}]
    /\ batch \in [Worker -> SUBSET Row]
    /\ snap \in [Worker -> [Row -> Nat]]
    /\ cur \in [Worker -> Row \cup {NoRow}]
    /\ claimedAt \in [Worker -> Nat]
    /\ outcome \in [Worker -> Outcomes]
    /\ dispatched \in [Row -> Nat]
    /\ delivered \in [Row -> Nat]
    /\ lost \in [Row -> Nat]
    /\ deadLetters \in [Row -> Nat]
    /\ faults \in Nat

Init ==
    /\ clock = 0
    /\ status = [r \in Row |-> "Absent"]
    /\ attempts = [r \in Row |-> 0]
    /\ enqueuedAt = [r \in Row |-> 0]
    /\ nextAt = [r \in Row |-> Never]
    /\ lastAt = [r \in Row |-> Never]
    /\ lockUntil = 0
    /\ pc = [w \in Worker |-> "idle"]
    /\ runStart = [w \in Worker |-> Never]
    /\ batch = [w \in Worker |-> {}]
    /\ snap = [w \in Worker |-> [r \in Row |-> 0]]
    /\ cur = [w \in Worker |-> NoRow]
    /\ claimedAt = [w \in Worker |-> 0]
    /\ outcome = [w \in Worker |-> "none"]
    /\ dispatched = [r \in Row |-> 0]
    /\ delivered = [r \in Row |-> 0]
    /\ lost = [r \in Row |-> 0]
    /\ deadLetters = [r \in Row |-> 0]
    /\ faults = 0

-----------------------------------------------------------------------------
(* Helpers.                                                                *)

Busy(w)     == pc[w] # "idle"
\* w holds a claim: the row in hand was set to Sending by w and w has not
\* committed what became of it.
InFlight(w) == pc[w] \in {"reserve", "dispatch", "record"}
\* The provider sent w's message and no commit says so yet.
Unrecorded(w) == pc[w] = "record" /\ outcome[w] \in {"sent", "lost"}

LockFreeEarly == clock + 1 >= lockUntil               \* mutant: TTL one unit short
LockFree == clock >= lockUntil
\* frappe.cache.delete_value on the lock key: no owner is compared.
DeleteLock == lockUntil' = 0

\* The WHERE clause of the reaper.  Its test that resulting_message_id is empty
\* (worker.py:49) never fails: that field is only written together with Sent.
StuckAnySending(r, now) == status[r] = "Sending"      \* mutant: no time test
StuckNever(r, now) == FALSE                           \* mutant: matches no row
Stuck(r, now) == status[r] = "Sending" /\ lastAt[r] < now - StuckAfter

\* The WHERE clause of the batch SELECT.
DueAnyQueued(r) == status[r] = "Queued"               \* mutant: no next_attempt_at
Due(r) == status[r] = "Queued" /\ nextAt[r] <= clock

\* The WHERE clause of the claim: it does not look at next_attempt_at again.
ClaimableAlways(r) == TRUE                            \* mutant: claims by name only
ClaimableUnlessSending(r) == status[r] # "Sending"    \* mutant: excludes too little
Claimable(r) == status[r] = "Queued"

TooOld(w, r) == runStart[w] - enqueuedAt[r] > MaxAge

\* attempts as _process_row counts them: from the selected row, not the table.
LocalAttemptsAhead(w) == snap[w][cur[w]] + 2          \* mutant: counts one too many
LocalAttemptsBehind(w) == snap[w][cur[w]]             \* mutant: forgets the claim
LocalAttempts(w) == snap[w][cur[w]] + 1
AttemptsLeft(w) == LocalAttempts(w) < MaxAttempts

\* delay_minutes after the n-th attempt; _BACKOFF_MINUTES counts from 0.
RetryDelay(n) == Backoff[n + 1]

\* The rows ORDER BY enqueued_at LIMIT BatchSize may return.
IsBatch(S) ==
    LET due == {r \in Row : Due(r)} IN
    /\ S \subseteq due
    /\ Cardinality(S) = IF Cardinality(due) < BatchSize
                        THEN Cardinality(due) ELSE BatchSize
    /\ \A r \in S, q \in due \ S : enqueuedAt[r] <= enqueuedAt[q]

\* The next row of w's batch: the oldest first.
NextRow(w, r) ==
    /\ r \in batch[w]
    /\ \A q \in batch[w] : enqueuedAt[r] <= enqueuedAt[q]

\* w is done with its row and turns to the rest of its batch.
ToLoop(w) ==
    /\ pc' = [pc EXCEPT ![w] = "loop"]
    /\ cur' = [cur EXCEPT ![w] = NoRow]
    /\ claimedAt' = [claimedAt EXCEPT ![w] = 0]
    /\ outcome' = [outcome EXCEPT ![w] = "none"]
    /\ UNCHANGED <<runStart, batch, snap>>

\* The process of w is gone, and with it everything it had read.
ToIdle(w) ==
    /\ pc' = [pc EXCEPT ![w] = "idle"]
    /\ batch' = [batch EXCEPT ![w] = {}]
    /\ snap' = [snap EXCEPT ![w] = [r \in Row |-> 0]]
    /\ cur' = [cur EXCEPT ![w] = NoRow]
    /\ claimedAt' = [claimedAt EXCEPT ![w] = 0]
    /\ outcome' = [outcome EXCEPT ![w] = "none"]
    /\ UNCHANGED runStart

\* A provider sent the message in w's hand but no success is recorded for it.
CountLost(w) ==
    lost' = IF Unrecorded(w)
            THEN [lost EXCEPT ![cur[w]] = @ + 1] ELSE lost

-----------------------------------------------------------------------------
(* enqueue_message.                                                        *)
Enqueue(r) ==
    /\ status[r] = "Absent"
    /\ clock <= LastEnqueue
    /\ status' = [status EXCEPT ![r] = "Queued"]
    /\ enqueuedAt' = [enqueuedAt EXCEPT ![r] = clock]
    /\ UNCHANGED <<clock, attempts, nextAt, lastAt, lockUntil, workerVars,
                   history, deadLetters, faults>>

\* hooks.py fires the job once per time unit (a minute) and scheduler; the last
\* instant of the bounded clock stands for all later ones.
JobDue(w) == runStart[w] < clock \/ clock = MaxTime

(* process_outbound_queue takes the lock (SET NX EX) and _run_queue reads  *)
(* the clock.  While the key lives the call returns at once.               *)
AcquireLock(w) ==
    /\ pc[w] = "idle"
    /\ JobDue(w)
    /\ LockFree
    /\ lockUntil' = clock + LockTTL
    /\ runStart' = [runStart EXCEPT ![w] = clock]
    /\ pc' = [pc EXCEPT ![w] = "reap"]
    /\ UNCHANGED <<clock, rowVars, batch, snap, cur, claimedAt,
                   outcome, history, deadLetters, faults>>

(* The reaper: rows stuck in Sending go back to the queue.                 *)
Reap(w) ==
    /\ pc[w] = "reap"
    /\ status' = [r \in Row |-> IF Stuck(r, runStart[w])
                                THEN "Queued" ELSE status[r]]
    /\ pc' = [pc EXCEPT ![w] = "select"]
    /\ UNCHANGED <<clock, attempts, enqueuedAt, nextAt, lastAt, lockUntil,
                   runStart, batch, snap, cur, claimedAt, outcome,
                   history, deadLetters, faults>>

(* The batch SELECT.                                                       *)
SelectBatch(w) ==
    /\ pc[w] = "select"
    /\ \E S \in SUBSET Row :
          /\ IsBatch(S)
          /\ batch' = [batch EXCEPT ![w] = S]
          /\ snap' = [snap EXCEPT ![w] =
                         [r \in Row |-> IF r \in S THEN attempts[r] ELSE 0]]
    /\ pc' = [pc EXCEPT ![w] = "loop"]
    /\ UNCHANGED <<clock, rowVars, lockUntil, runStart, cur, claimedAt, outcome, history, deadLetters, faults>>

(* _process_row, row too old at the start of the run: Expired, whatever    *)
(* its status is by now.                                                   *)
ExpireRow(w) ==
    /\ pc[w] = "loop"
    /\ \E r \in Row :
          /\ NextRow(w, r)
          /\ TooOld(w, r)
          /\ status' = [status EXCEPT ![r] = "Expired"]
          /\ batch' = [batch EXCEPT ![w] = @ \ {r}]
    /\ UNCHANGED <<clock, attempts, enqueuedAt, nextAt, lastAt, lockUntil, pc,
                   runStart, snap, cur, claimedAt, outcome, history,
                   deadLetters, faults>>

(* _process_row, session down, cap reached, or an exception on the way:    *)
(* the row stays as it is until the next run.                              *)
SkipRow(w) ==
    /\ pc[w] = "loop"
    /\ \E r \in Row :
          /\ NextRow(w, r)
          /\ ~TooOld(w, r)
          /\ batch' = [batch EXCEPT ![w] = @ \ {r}]
    /\ UNCHANGED <<clock, rowVars, lockUntil, pc, runStart, snap, cur,
                   claimedAt, outcome, history, deadLetters, faults>>

(* _process_row, a provider resolved (OpenWA with a live session under its *)
(* cap, or Meta).                                                          *)
ResolveRow(w) ==
    /\ pc[w] = "loop"
    /\ \E r \in Row :
          /\ NextRow(w, r)
          /\ ~TooOld(w, r)
          /\ batch' = [batch EXCEPT ![w] = @ \ {r}]
          /\ cur' = [cur EXCEPT ![w] = r]
    /\ pc' = [pc EXCEPT ![w] = "claim"]
    /\ UNCHANGED <<clock, rowVars, lockUntil, runStart, snap, claimedAt,
                   outcome, history, deadLetters, faults>>

(* The atomic claim: UPDATE ... WHERE status = 'Queued', commit.  A slot *)
(* is reserved next when the resolved provider is OpenWA; Meta needs none. *)
ClaimRow(w) ==
    /\ pc[w] = "claim"
    /\ LET r == cur[w] IN
          /\ Claimable(r)
          /\ status' = [status EXCEPT ![r] = "Sending"]
          /\ attempts' = [attempts EXCEPT ![r] = @ + 1]
          /\ lastAt' = [lastAt EXCEPT ![r] = clock]
    /\ claimedAt' = [claimedAt EXCEPT ![w] = clock]
    /\ \E p \in {"reserve", "dispatch"} : pc' = [pc EXCEPT ![w] = p]
    /\ UNCHANGED <<clock, enqueuedAt, nextAt, lockUntil, runStart, batch, snap,
                   cur, outcome, history, deadLetters, faults>>

(* ROW_COUNT() = 0: another worker has the row.                            *)
LoseClaim(w) ==
    /\ pc[w] = "claim"
    /\ ~Claimable(cur[w])
    /\ ToLoop(w)
    /\ UNCHANGED <<clock, rowVars, lockUntil, history, deadLetters, faults>>

(* reserve_slot grants a slot ...                                          *)
ReserveGranted(w) ==
    /\ pc[w] = "reserve"
    /\ pc' = [pc EXCEPT ![w] = "dispatch"]
    /\ UNCHANGED <<clock, rowVars, lockUntil, runStart, batch, snap, cur,
                   claimedAt, outcome, history, deadLetters, faults>>

\* Mutant: a status the doctype does not have (set_value does not validate).
ReserveRefusedPending(w) ==
    /\ pc[w] = "reserve"
    /\ status' = [status EXCEPT ![cur[w]] = "Pending"]
    /\ ToLoop(w)
    /\ UNCHANGED <<clock, attempts, enqueuedAt, nextAt, lastAt, lockUntil,
                   history, deadLetters, faults>>

(* ... or refuses: the row goes back, its attempts stay incremented.       *)
ReserveRefused(w) ==
    /\ pc[w] = "reserve"
    /\ status' = [status EXCEPT ![cur[w]] = "Queued"]
    /\ ToLoop(w)
    /\ UNCHANGED <<clock, attempts, enqueuedAt, nextAt, lastAt, lockUntil,
                   history, deadLetters, faults>>

(* _dispatch.  "sent": a provider sent the message and said so.  "failed": *)
(* nothing was sent.  "lost": it was sent, and the worker still ends up in *)
(* its failure branch (the answer timed out, or an exception followed it). *)
Dispatch(w) ==
    /\ pc[w] = "dispatch"
    /\ \E o \in Outcomes \ {"none"} :
          /\ outcome' = [outcome EXCEPT ![w] = o]
          /\ delivered' = [delivered EXCEPT ![cur[w]] =
                              IF o = "failed" THEN @ ELSE @ + 1]
    /\ dispatched' = [dispatched EXCEPT ![cur[w]] = @ + 1]
    /\ pc' = [pc EXCEPT ![w] = "record"]
    /\ UNCHANGED <<clock, rowVars, lockUntil, runStart, batch, snap, cur,
                   claimedAt, lost, deadLetters, faults>>

(* result.success: status, provider and message id in one UPDATE, commit.  *)
RecordSent(w) ==
    /\ pc[w] = "record"
    /\ outcome[w] = "sent"
    /\ status' = [status EXCEPT ![cur[w]] = "Sent"]
    /\ ToLoop(w)
    /\ UNCHANGED <<clock, attempts, enqueuedAt, nextAt, lastAt, lockUntil,
                   history, deadLetters, faults>>

(* _handle_dispatch_failure while attempts are left.                       *)
ScheduleRetry(w) ==
    /\ pc[w] = "record"
    /\ outcome[w] \in {"failed", "lost"}
    /\ AttemptsLeft(w)
    /\ status' = [status EXCEPT ![cur[w]] = "Queued"]
    /\ nextAt' = [nextAt EXCEPT ![cur[w]] = clock + RetryDelay(LocalAttempts(w))]
    /\ CountLost(w)
    /\ ToLoop(w)
    /\ UNCHANGED <<clock, attempts, enqueuedAt, lastAt, lockUntil, dispatched,
                   delivered, deadLetters, faults>>

(* _handle_dispatch_failure, none left: Failed, and a dead letter in the   *)
(* same transaction.  The insert may fail; that is only logged.            *)
GiveUp(w) ==
    /\ pc[w] = "record"
    /\ outcome[w] \in {"failed", "lost"}
    /\ ~AttemptsLeft(w)
    /\ status' = [status EXCEPT ![cur[w]] = "Failed"]
    /\ \E inserted \in {0, 1} :
          deadLetters' = [deadLetters EXCEPT ![cur[w]] = @ + inserted]
    /\ CountLost(w)
    /\ ToLoop(w)
    /\ UNCHANGED <<clock, attempts, enqueuedAt, nextAt, lastAt, lockUntil,
                   dispatched, delivered, faults>>

(* An exception out of reserve_slot or out of the bookkeeping after the    *)
(* send: _run_queue logs it and goes on, the row stays in Sending.         *)
LeaveSending(w) ==
    /\ pc[w] \in {"reserve", "record"}
    /\ CountLost(w)
    /\ ToLoop(w)
    /\ UNCHANGED <<clock, rowVars, lockUntil, dispatched, delivered,
                   deadLetters, faults>>

(* The end of the run: the finally clause deletes the lock key.            *)
FinishRun(w) ==
    /\ pc[w] = "loop"
    /\ batch[w] = {}
    /\ DeleteLock
    /\ ToIdle(w)
    /\ UNCHANGED <<clock, rowVars, history, deadLetters, faults>>

FaultAllowed == faults < MaxFaults /\ clock <= LastFault

(* The reaper or the batch SELECT raises: the finally clause still runs.   *)
AbortRun(w) ==
    /\ pc[w] \in {"reap", "select"}
    /\ FaultAllowed
    /\ faults' = faults + 1
    /\ DeleteLock
    /\ ToIdle(w)
    /\ UNCHANGED <<clock, rowVars, history, deadLetters>>

(* The process is killed: no finally clause, no rollback of what is        *)
(* committed.  The lock key stays until its TTL.                           *)
Crash(w) ==
    /\ Busy(w)
    /\ FaultAllowed
    /\ faults' = faults + 1
    /\ CountLost(w)
    /\ ToIdle(w)
    /\ UNCHANGED <<clock, rowVars, lockUntil, dispatched, delivered, deadLetters>>

Tick ==
    /\ clock < MaxTime
    /\ \A w \in Worker : /\ InFlight(w) => clock < claimedAt[w] + MaxFlight
                         /\ Busy(w) => clock < runStart[w] + MaxRun
    /\ clock' = clock + 1
    /\ UNCHANGED <<rowVars, lockUntil, workerVars, history, deadLetters, faults>>

WorkerStep(w) ==
    \/ Reap(w) \/ SelectBatch(w)
    \/ ExpireRow(w) \/ SkipRow(w) \/ ResolveRow(w)
    \/ ClaimRow(w) \/ LoseClaim(w)
    \/ ReserveGranted(w) \/ ReserveRefused(w)
    \/ Dispatch(w)
    \/ RecordSent(w) \/ ScheduleRetry(w) \/ GiveUp(w) \/ LeaveSending(w)
    \/ FinishRun(w)

Next ==
    \/ \E r \in Row : Enqueue(r)
    \/ \E w \in Worker : AcquireLock(w) \/ WorkerStep(w) \/ AbortRun(w) \/ Crash(w)
    \/ Tick

Spec == Init /\ [][Next]_vars

\* Time passes, a run that was started goes on, and the scheduler keeps
\* calling process_outbound_queue (hooks.py: every minute).
Fairness ==
    /\ WF_vars(Tick)
    /\ \A w \in Worker : WF_vars(WorkerStep(w))
    /\ WF_vars(\E w \in Worker : AcquireLock(w))

FairSpec == Spec /\ Fairness

-----------------------------------------------------------------------------
(* What the queue promises however its workers overlap.                    *)

\* r has reached a final status and no worker still has it in flight.
Settled(r) ==
    /\ status[r] \in Final
    /\ \A w \in Worker : InFlight(w) => cur[w] # r

\* Two workers never send the same row at the same time: the claim of
\* worker.py:136-152 excludes every other worker until its outcome is
\* committed, although runs overlap, rows are requeued by the reaper and
\* written as Expired without a claim.
ClaimExclusive ==
    \A v, w \in Worker :
        InFlight(v) /\ InFlight(w) /\ cur[v] = cur[w] => v = w

\* A message goes out a second time only if an earlier sending was never
\* recorded: its worker was killed, or it ended in the failure branch after the
\* provider had sent (worker.py:38-43, "at-least-once by construction").
\* Overlapping runs and stale batches add no duplicate of their own.
DeliveredOnce == \A r \in Row : delivered[r] <= 1 + lost[r]

\* A settled row stays settled: no stale batch, reaper or late writer puts a
\* row that is Sent, Failed or Expired back into the queue.
SettledStays == [][\A r \in Row : Settled(r) => Settled(r)']_vars

\* A row is given up only after its last permitted attempt was claimed
\* (worker.py:205-219), even when the worker that gives up counts attempts
\* from a batch it read before others claimed the row.
GivenUpAfterLastAttempt ==
    \A r \in Row : status[r] = "Failed" => attempts[r] >= MaxAttempts

\* A row has at most one dead letter, and a row that has one is not sent again.
DeadLetterIsFinal ==
    \A r \in Row : deadLetters[r] > 0 => deadLetters[r] = 1 /\ Settled(r)

\* Every queued row reaches a final status and keeps it: killed workers and
\* their locks, stranded claims, dead sessions and backoff delay it but the
\* reaper, the lock TTL and max_age end it.
EveryRowSettles ==
    \A r \in Row : status[r] = "Queued" ~> [](Settled(r))

-----------------------------------------------------------------------------
(* The queue implements an at-least-once queue: what a reader of the       *)
(* table, who does not know its workers, may rely on.                      *)
Holder(r) == {w \in Worker : InFlight(w) /\ cur[w] = r}
AbstractState(r) ==
    IF status[r] = "Absent" THEN "Absent"
    ELSE IF Holder(r) # {} THEN "Taken"
    ELSE IF status[r] \in Final THEN "Settled"
    ELSE "Waiting"

Abstract == INSTANCE AtLeastOnce WITH
    state <- [r \in Row |-> AbstractState(r)],
    out   <- [r \in Row |-> \E w \in Holder(r) : Unrecorded(w)],
    sent  <- delivered

\* Every run of the workers is a run of the at-least-once queue: a row is held by
\* one worker at a time, sent once while it is held, repeated only after a lost
\* sending, and settled for good (worker.py:38-43, 136-152, 195-219).
ImplementsAtLeastOnce == Abstract!LiveSpec

-----------------------------------------------------------------------------
(* What holds only while every run ends before the lock expires            *)
(* (MaxRun < LockTTL), and what the code's comments and documents say      *)
(* without that condition.                                                 *)

\* cron.py:1: the lock prevents overlapping runs.
NoOverlap == \A v, w \in Worker : Busy(v) /\ Busy(w) => v = w

\* A row is not tried before its next_attempt_at (worker.py:54, README.md:48).
BackoffRespected ==
    [][\A r \in Row : status[r] = "Queued" /\ status'[r] = "Sending"
                         => nextAt[r] <= clock]_vars

\* The attempts a worker decides on are those in the table (worker.py:157,
\* "Incremented by the claim UPDATE above").
LocalAttemptsExact ==
    \A w \in Worker : InFlight(w) => LocalAttempts(w) = attempts[cur[w]]

\* A committed Sent is durable (worker.py:195-199).
SentIsDurable ==
    [][\A r \in Row : status[r] = "Sent" => status'[r] = "Sent"]_vars

\* A row that is given up was sent to a provider MaxAttempts times
\* (README.md:49).
FailedMeansTried ==
    \A r \in Row : status[r] = "Failed" => dispatched[r] >= MaxAttempts

=============================================================================
