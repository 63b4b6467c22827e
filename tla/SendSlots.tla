----------------------------- MODULE SendSlots -----------------------------
(***************************************************************************)
(* The right to send on an OpenWA session (utils/session_cap.py,           *)
(* utils/send_rate.py, utils/sliding_window.py, monitoring/counters.py):   *)
(* two sliding windows in Redis bound how fast messages go out, two caps   *)
(* on counters in the database bound how many.                             *)
(*                                                                         *)
(* The actors are messages on their way through reserve_slot, the send and *)
(* release_slot.  Each Redis script is one step and takes effect at once.  *)
(* The database writes belong to the transaction of the send: they keep    *)
(* row locks until it commits, and a process that dies takes them back.    *)
(*                                                                         *)
(* Beside them whoever saves a session as a document (a webhook, a form's  *)
(* poll, the restart button, a user) writes its counter back as it read    *)
(* it; see SessionLifecycle for what else such a save does.                *)
(*                                                                         *)
(* Assumed of the database: MariaDB's default isolation, REPEATABLE READ,  *)
(* under which the SUM inside the claim takes shared locks on every row,   *)
(* and no innodb_snapshot_isolation, which would refuse stale saves.       *)
(* A claim that has to wait is refused or retried, never deadlocked.       *)
(***************************************************************************)
EXTENDS Integers, FiniteSets, Functions

CONSTANTS
    Session,     \* the OpenWA sessions
    Message,     \* the messages; each goes out over OpenWA at most once
    Saver,       \* the processes that save a session as a document
    Saves,       \* [Saver -> Session]: the session each of them works on
    NoSession,   \* "no session chosen"
    SoftCap,     \* [Session -> Nat]: daily_soft_cap, 0 for none
    DailyLimit,  \* daily_send_limit of the gateway, 0 for none
    RateMax,     \* [Session -> Nat]: send_rate_max, never 0
    GatewayRate, \* gateway_send_rate_max, 0 for none
    Window,      \* send_rate_window_seconds, the same for every session
    MaxTime,     \* bound: the clock stops here
    MaxTries,    \* bound: how often a message tries
    MaxFaults,   \* bound: processes killed, transactions rolled back, second releases
    MaxDays      \* bound: midnights

ASSUME SessionAssumption == NoSession \notin Session /\ Saves \in [Saver -> Session]
ASSUME FiniteAssumption == IsFiniteSet(Session) /\ IsFiniteSet(Message)
ASSUME LimitAssumption ==
    /\ SoftCap \in [Session -> Nat]
    /\ RateMax \in [Session -> Nat \ {0}]
    /\ {DailyLimit, GatewayRate} \subseteq Nat
    /\ Window \in Nat \ {0}
ASSUME BoundAssumption == {MaxTime, MaxTries, MaxFaults, MaxDays} \subseteq Nat

VARIABLES
    clock,      \* now()
    sessionWin, \* [Session -> set of entries]: openwa:sendrate:session:*
    gatewayWin, \* set of entries: openwa:sendrate:gateway
    counter,    \* [Session -> Nat]: messages_sent_today as committed
    resetDue,   \* the job of the last midnight has not run yet
    pc,         \* where each message is
    on,         \* the session it was resolved to
    change,     \* what its open transaction adds to the counter of that session
    doc,        \* [Saver -> the row it has read and may save]
    slot,       \* history: the entry of the session's window that counts for it
    tries,      \* how often it has tried
    wentOut,    \* history: messages the provider sent over their session
    today,      \* history: messages sent on a reservation since midnight
    missing,    \* history: those of them the counter does not count
    booked,     \* history: messages sent or counted since the last reset
    restored,   \* history: [Session -> the count a save put back after the reset]
    days, faults

windows == <<sessionWin, gatewayWin>>
history == <<wentOut, today, missing, booked, restored>>
vars == <<clock, windows, counter, resetDue, pc, on, change, doc, slot, tries,
          history, days, faults>>

\* An entry of a window: a score and a random member, which the model makes of
\* the message and its try; the code cannot tell whose entry it is.
Entry  == [msg : Message, try : Nat, at : Nat]
\* A row as a saver read it; `reset`: history, the counters were reset since.
Doc    == [of : Session \cup {NoSession}, count : Nat, reset : BOOLEAN]
NoDoc  == [of |-> NoSession, count |-> 0, reset |-> FALSE]
Phases == {"idle", "gateway", "session", "claim", "send", "giveSession",
           "giveGateway", "giveDay", "count", "commit", "done"}

TypeOK ==
    /\ clock \in Nat
    /\ sessionWin \in [Session -> SUBSET Entry]
    /\ gatewayWin \subseteq Entry
    /\ counter \in [Session -> Nat]
    /\ resetDue \in BOOLEAN
    /\ pc \in [Message -> Phases]
    /\ on \in [Message -> Session \cup {NoSession}]
    /\ change \in [Message -> {-1, 0, 1}]
    /\ doc \in [Saver -> Doc]
    /\ slot \in [Message -> SUBSET Entry]
    /\ tries \in [Message -> Nat]
    /\ {wentOut, today, missing, booked} \subseteq SUBSET Message
    /\ restored \in [Session -> Nat]
    /\ {days, faults} \subseteq Nat

Init ==
    /\ clock = 0
    /\ sessionWin = [s \in Session |-> {}]
    /\ gatewayWin = {}
    /\ counter = [s \in Session |-> 0]
    /\ resetDue = FALSE
    /\ pc = [m \in Message |-> "idle"]
    /\ on = [m \in Message |-> NoSession]
    /\ change = [m \in Message |-> 0]
    /\ doc = [d \in Saver |-> NoDoc]
    /\ slot = [m \in Message |-> {}]
    /\ tries = [m \in Message |-> 0]
    /\ wentOut = {} /\ today = {} /\ missing = {} /\ booked = {}
    /\ restored = [s \in Session |-> 0]
    /\ days = 0 /\ faults = 0

-----------------------------------------------------------------------------
(* The sliding window: _TAKE_SLOT and give_back.                           *)

\* ZREMRANGEBYSCORE -inf (now - window).
Trim(win) == {e \in win : e.at > clock - Window}
HasRoomForOneMore(win, allowance) == Cardinality(Trim(win)) <= allowance \* mutant: <=
HasRoom(win, allowance) == Cardinality(Trim(win)) < allowance
NewEntryBackdated(m) == [msg |-> m, try |-> tries[m], at |-> clock - 1] \* mutant
NewEntry(m) == [msg |-> m, try |-> tries[m], at |-> clock]
Take(win, m) == Trim(win) \cup {NewEntry(m)}
\* What ZPOPMAX may remove: an entry of the highest score, whoever put it there;
\* among equal scores their random members decide.
Newest(win) == {e \in win : \A other \in win : other.at <= e.at}

-----------------------------------------------------------------------------
(* The counters.                                                           *)

\* m wrote a row of tabOpenWA Session in a transaction that is still open.
InTransaction(m) ==
    pc[m] \in {"send", "giveSession", "giveGateway", "giveDay", "commit"}

\* A write waits for open transactions on the row of s; with a DailyLimit the
\* SUM reads every row under shared locks, so one open transaction is enough.
NoLocks(s) == TRUE                                    \* mutant: nothing waits
LocksFree(s) == \A q \in Message : InTransaction(q) => DailyLimit = 0 /\ on[q] # s

\* The WHERE clause of the claim.
Total == SumFunctionOnSet(counter, Session)
UnderCapsInclusive(s) ==                              \* mutant: <= for <
    /\ SoftCap[s] = 0 \/ counter[s] <= SoftCap[s]
    /\ DailyLimit = 0 \/ Total <= DailyLimit
UnderCaps(s) ==
    /\ SoftCap[s] = 0 \/ counter[s] < SoftCap[s]
    /\ DailyLimit = 0 \/ Total < DailyLimit

\* Messages that went out today on a reservation and are in the counters, those
\* of them on s, and those whose count is not part of an open transaction.
Counted == today \ missing
OnCap(s) == {m \in Counted : on[m] = s}
SettledOnCap(s) == {m \in OnCap(s) : change[m] # 1}

\* The counter of s becomes n.  If that lowers it below the messages it stands
\* for, it has lost some of them.
Recount(s, n) ==
    /\ counter' = [counter EXCEPT ![s] = n]
    /\ \E gone \in SUBSET SettledOnCap(s) :
          /\ Cardinality(gone) = IF n < counter[s] /\ n < Cardinality(SettledOnCap(s))
                                 THEN Cardinality(SettledOnCap(s)) - n ELSE 0
          /\ missing' = missing \cup gone

Goto(m, phase) == pc' = [pc EXCEPT ![m] = phase]

\* reserve_slot returned False or raised, or the process died: what was taken
\* of the windows stays taken.
BackToIdle(m) ==
    /\ Goto(m, IF m \in wentOut THEN "done" ELSE "idle")
    /\ on' = IF m \in wentOut THEN on ELSE [on EXCEPT ![m] = NoSession]
    /\ slot' = IF m \in wentOut THEN slot ELSE [slot EXCEPT ![m] = {}]

-----------------------------------------------------------------------------
(* reserve_slot, step by step.                                             *)

(* consume_send_slot is called for the session the message resolved to.    *)
Begin(m) ==
    /\ pc[m] = "idle"
    /\ tries[m] < MaxTries
    /\ tries' = [tries EXCEPT ![m] = @ + 1]
    /\ \E s \in Session : on' = [on EXCEPT ![m] = s]
    /\ Goto(m, IF GatewayRate = 0 THEN "session" ELSE "gateway")
    /\ UNCHANGED <<clock, windows, counter, resetDue, change, doc, slot, history,
                   days, faults>>

(* The gateway-wide window first.                                          *)
TakeGateway(m) ==
    /\ pc[m] = "gateway"
    /\ HasRoom(gatewayWin, GatewayRate)
    /\ gatewayWin' = Take(gatewayWin, m)
    /\ Goto(m, "session")
    /\ UNCHANGED <<clock, sessionWin, counter, resetDue, on, change, doc, slot,
                   tries, history, days, faults>>

GatewayRefuses(m) ==
    /\ pc[m] = "gateway"
    /\ ~HasRoom(gatewayWin, GatewayRate)
    /\ gatewayWin' = Trim(gatewayWin)
    /\ BackToIdle(m)
    /\ UNCHANGED <<clock, sessionWin, counter, resetDue, change, doc, tries,
                   history, days, faults>>

(* Then the session's own.                                                 *)
TakeSession(m) ==
    /\ pc[m] = "session"
    /\ HasRoom(sessionWin[on[m]], RateMax[on[m]])
    /\ sessionWin' = [sessionWin EXCEPT ![on[m]] = Take(@, m)]
    /\ slot' = [slot EXCEPT ![m] = {NewEntry(m)}]
    /\ Goto(m, "claim")
    /\ UNCHANGED <<clock, gatewayWin, counter, resetDue, on, change, doc, tries,
                   history, days, faults>>

(* A refusal leaves the gateway's slot taken.                              *)
SessionRefuses(m) ==
    /\ pc[m] = "session"
    /\ ~HasRoom(sessionWin[on[m]], RateMax[on[m]])
    /\ sessionWin' = [sessionWin EXCEPT ![on[m]] = Trim(@)]
    /\ BackToIdle(m)
    /\ UNCHANGED <<clock, gatewayWin, counter, resetDue, change, doc, tries,
                   history, days, faults>>

(* The conditional UPDATE, with the locks it needs.                        *)
Claim(m) ==
    /\ pc[m] = "claim"
    /\ LocksFree(on[m])
    /\ UnderCaps(on[m])
    /\ change' = [change EXCEPT ![m] = 1]
    /\ Goto(m, "send")
    /\ UNCHANGED <<clock, windows, counter, resetDue, on, doc, slot, tries,
                   history, days, faults>>

(* It matched no row, or gave up waiting for a lock (an exception).  Both  *)
(* windows keep their entries.                                             *)
ClaimRefused(m) ==
    /\ pc[m] = "claim"
    /\ ~LocksFree(on[m]) \/ ~UnderCaps(on[m])
    /\ BackToIdle(m)
    /\ UNCHANGED <<clock, windows, counter, resetDue, change, doc, tries,
                   history, days, faults>>

-----------------------------------------------------------------------------
(* The send and what follows it in the same transaction.                   *)

(* Sent over OpenWA; or not (a failure, or a Meta fallback); or sent and   *)
(* taken for a failure because the answer was lost.                        *)
Send(m) ==
    /\ pc[m] = "send"
    /\ \E sent, known \in BOOLEAN :
          /\ known \/ sent
          /\ IF sent THEN /\ wentOut' = wentOut \cup {m}
                          /\ today' = today \cup {m}
                          /\ booked' = booked \cup {m}
                     ELSE UNCHANGED <<wentOut, today, booked>>
          /\ Goto(m, IF sent /\ known THEN "commit" ELSE "giveSession")
    /\ UNCHANGED <<clock, windows, counter, resetDue, on, change, doc, slot,
                   tries, missing, restored, days, faults>>

(* release_slot: the session's window, the gateway's, the counter.  What   *)
(* give_back pops may count for another message q: the entry m leaves in   *)
(* the window then counts for q, for as long as it has to live.            *)
GiveBackSession(m) ==
    /\ pc[m] = "giveSession"
    /\ LET win == sessionWin[on[m]] IN
          IF win = {} THEN slot' = [slot EXCEPT ![m] = {}] /\ UNCHANGED sessionWin
          ELSE \E e \in Newest(win) :
                  /\ sessionWin' = [sessionWin EXCEPT ![on[m]] = @ \ {e}]
                  /\ slot' = [q \in Message |->
                        IF q = m THEN {}
                        ELSE IF on[q] = on[m] /\ e \in slot[q] THEN slot[m] ELSE slot[q]]
    /\ Goto(m, IF GatewayRate = 0 THEN "giveDay" ELSE "giveGateway")
    /\ UNCHANGED <<clock, gatewayWin, counter, resetDue, on, change, doc, tries,
                   history, days, faults>>

GiveBackGateway(m) ==
    /\ pc[m] = "giveGateway"
    /\ IF gatewayWin = {} THEN UNCHANGED gatewayWin
       ELSE \E e \in Newest(gatewayWin) : gatewayWin' = gatewayWin \ {e}
    /\ Goto(m, "giveDay")
    /\ UNCHANGED <<clock, sessionWin, counter, resetDue, on, change, doc, slot,
                   tries, history, days, faults>>

GiveBackWindowsOnly(m) ==                             \* mutant: no UPDATE
    /\ pc[m] = "giveDay"
    /\ Goto(m, "commit")
    /\ UNCHANGED <<clock, windows, counter, resetDue, on, change, doc, slot,
                   tries, history, days, faults>>

GiveBackDay(m) ==
    /\ pc[m] = "giveDay"
    /\ change' = [change EXCEPT ![m] = @ - 1]
    /\ missing' = missing \cup ({m} \cap today)
    /\ Goto(m, "commit")
    /\ UNCHANGED <<clock, windows, counter, resetDue, on, doc, slot, tries,
                   wentOut, today, booked, restored, days, faults>>

(* The worker released the slot inside its try and something after it      *)
(* raised: the except branch releases the slot once more.                  *)
ReleaseAgain(m) ==
    /\ pc[m] = "commit"
    /\ change[m] = 0
    /\ faults < MaxFaults
    /\ faults' = faults + 1
    /\ Goto(m, "giveSession")
    /\ UNCHANGED <<clock, windows, counter, resetDue, on, change, doc, slot, tries,
                   history, days>>

(* count_slot: a notification was sent without a reservation; it waits for *)
(* the row and is never refused.                                           *)
CountSlot(m) ==
    /\ pc[m] = "idle"
    /\ tries[m] < MaxTries
    /\ tries' = [tries EXCEPT ![m] = MaxTries]
    /\ \E s \in Session : LocksFree(s) /\ on' = [on EXCEPT ![m] = s]
    /\ change' = [change EXCEPT ![m] = 1]
    /\ wentOut' = wentOut \cup {m}
    /\ booked' = booked \cup {m}
    /\ Goto(m, "commit")
    /\ UNCHANGED <<clock, windows, counter, resetDue, doc, slot, today,
                   missing, restored, days, faults>>

\* GREATEST(... - 1, 0): a count is never negative.
Commit(m) ==
    /\ pc[m] = "commit"
    /\ LET sum == counter[on[m]] + change[m]
       IN  Recount(on[m], IF sum < 0 THEN 0 ELSE sum)
    /\ change' = [change EXCEPT ![m] = 0]
    /\ BackToIdle(m)
    /\ UNCHANGED <<clock, windows, resetDue, doc, tries, wentOut, today, booked,
                   restored, days, faults>>

(* The process is killed, or an exception rolls the transaction back.      *)
Abort(m) ==
    /\ pc[m] \notin {"idle", "done"}
    /\ faults < MaxFaults
    /\ faults' = faults + 1
    /\ change' = [change EXCEPT ![m] = 0]
    /\ missing' = missing \cup ({m} \cap today)
    /\ BackToIdle(m)
    /\ UNCHANGED <<clock, windows, counter, resetDue, doc, tries, wentOut, today,
                   booked, restored, days>>

-----------------------------------------------------------------------------
(* Midnight.                                                               *)

Midnight ==
    /\ days < MaxDays
    /\ days' = days + 1
    /\ today' = {}
    /\ missing' = {}
    /\ resetDue' = TRUE
    /\ UNCHANGED <<clock, windows, counter, pc, on, change, doc, slot, tries,
                   wentOut, booked, restored, faults>>

(* reset_daily_message_counts waits for every row ...                      *)
ResetCounters ==
    /\ resetDue
    /\ \A m \in Message : ~InTransaction(m)
    /\ counter' = [s \in Session |-> 0]
    /\ missing' = today
    /\ booked' = {}
    /\ restored' = [s \in Session |-> 0]
    /\ resetDue' = FALSE
    \* Plain SQL: `modified` stays, and no document read before is refused.
    /\ doc' = [d \in Saver |-> [doc[d] EXCEPT !.reset = @ \/ doc[d].of \in Session]]
    /\ UNCHANGED <<clock, windows, pc, on, change, slot, tries, wentOut,
                   today, days, faults>>

(* ... or fails; the failure is logged and nothing tries again.            *)
ResetFails ==
    /\ resetDue
    /\ resetDue' = FALSE
    /\ UNCHANGED <<clock, windows, counter, pc, on, change, doc, slot, tries,
                   history, days, faults>>

-----------------------------------------------------------------------------
(* Documents: a webhook, a form's poll, the restart button, a user.        *)

(* frappe.get_doc reads the committed row.  Whoever reads again has given  *)
(* up on what it had read before.                                          *)
ReadRow(d) ==
    /\ doc' = [doc EXCEPT ![d] = [of |-> Saves[d], count |-> counter[Saves[d]],
                                 reset |-> FALSE]]
    /\ UNCHANGED <<clock, windows, counter, resetDue, pc, on, change, slot, tries,
                   history, days, faults>>

(* Document.save() and its commit: the counter is written as it was read.  *)
(* The save changes `modified`, so that of another document read before is *)
(* refused; the claims, the give-backs and the reset do not.               *)
SaveRow(d) ==
    /\ doc[d].of \in Session
    /\ LET s == doc[d].of IN
          /\ LocksFree(s)
          /\ Recount(s, doc[d].count)
          /\ restored' = IF doc[d].reset THEN [restored EXCEPT ![s] = doc[d].count]
                         ELSE restored
          /\ doc' = [e \in Saver |-> IF doc[e].of = s THEN NoDoc ELSE doc[e]]
    /\ UNCHANGED <<clock, windows, resetDue, pc, on, change, slot, tries, wentOut,
                   today, booked, days, faults>>

-----------------------------------------------------------------------------
Tick ==
    /\ clock < MaxTime
    /\ clock' = clock + 1
    /\ UNCHANGED <<windows, counter, resetDue, pc, on, change, doc, slot, tries,
                   history, days, faults>>

MessageStep(m) ==
    \/ Begin(m) \/ TakeGateway(m) \/ GatewayRefuses(m)
    \/ TakeSession(m) \/ SessionRefuses(m) \/ Claim(m) \/ ClaimRefused(m)
    \/ Send(m) \/ GiveBackSession(m) \/ GiveBackGateway(m) \/ GiveBackDay(m)
    \/ ReleaseAgain(m) \/ CountSlot(m) \/ Commit(m) \/ Abort(m)

Next ==
    \/ \E m \in Message : MessageStep(m)
    \/ \E d \in Saver : ReadRow(d) \/ SaveRow(d)
    \/ Midnight \/ ResetCounters \/ ResetFails \/ Tick

Spec == Init /\ [][Next]_vars

-----------------------------------------------------------------------------
(* Properties.                                                             *)

\* The Daily Soft Cap: senders that race for the last slot, notifications that
\* push the counter past it and reservations given back do not let a session
\* send more on reservations than its cap (session_cap.py:8-11).  Not counted are
\* the messages the counter has lost, each at a named step: GiveBackDay and Abort
\* (a message that went out is given back or rolled back), ResetCounters (sent
\* between midnight and the reset), Recount (a stale document saved, or one slot
\* released twice).
CapRespected == \A s \in Session : SoftCap[s] > 0 => Cardinality(OnCap(s)) <= SoftCap[s]

\* The gateway-wide Daily Send Limit, over sessions whose senders write
\* different rows (session_cap.py:48-54), but for the same messages.
DailyLimitRespected == DailyLimit > 0 => Cardinality(Counted) <= DailyLimit

\* A slot of the day is never leaked: whatever is given back, rolled back,
\* killed or saved, a session's counter never exceeds the messages that were sent
\* or counted on it since the last reset, and what the save of a document read
\* before that reset put back (counters.py:15, state.py:87).
NoSlotLeaks ==
    \A s \in Session :
        counter[s] <= Cardinality({m \in booked : on[m] = s}) + restored[s]

\* m is on its way, or went out, over s, and an entry that is not yet out of the
\* window counts for it: its own or, if a give-back popped that, the older one
\* which the giver left there.
UsesRate(m, s) == on[m] = s /\ \E e \in slot[m] : e.at > clock - Window

\* A session sends at most RateMax messages per window.  Which entry give_back
\* pops "does not matter: they are interchangeable for counting, and only their
\* timestamps decide when they age out" (sliding_window.py:78-79): two messages
\* never count by one entry, whatever is popped.  They do matter for how long a
\* message counts, and a message leaves this count before its own time is up when
\* the entry it was left with ages out, when its entry was popped by one that had
\* none left to give, and when it went out itself, its answer was lost and it gave
\* its slot back.
RateRespected ==
    \A s \in Session : Cardinality({m \in Message : UsesRate(m, s)}) <= RateMax[s]

-----------------------------------------------------------------------------
(* What the comments say beyond that.                                      *)

\* The gateway's window refuses only for messages that went out or are on their
\* way: "a single busy session cannot exhaust the install's budget"
\* (send_rate.py:54-56).
GatewayFullOfSends ==
    ~HasRoom(gatewayWin, GatewayRate) =>
        \A e \in Trim(gatewayWin) : pc[e.msg] # "idle"

\* A process that dies costs the session a slot at most; it never uncounts a
\* message that went out (session_cap.py:13-16).
DeathOnlyLeaks == [][faults' > faults => missing' = missing]_vars
=============================================================================
