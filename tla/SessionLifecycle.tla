-------------------------- MODULE SessionLifecycle --------------------------
(***************************************************************************)
(* The status of one OpenWA session (monitoring/state.py, health.py,       *)
(* self_healer.py, api/session.py, openwa_session.py, utils/cache.py, and  *)
(* what api/provision.py writes of it).                                    *)
(*                                                                         *)
(* The gateway owns the truth.  The row of the session and the Redis copy  *)
(* of its status are two caches of it, and many handlers write them: a     *)
(* lifecycle webhook, the status poll of an open form, the restart button, *)
(* provisioning and deregistration, the scheduled health poll and the      *)
(* self-healer.  A user's edit and the counting of sent messages write     *)
(* other columns of the same row.                                          *)
(*                                                                         *)
(* Two ways of writing meet here.  Document.save() writes every column as  *)
(* its request read it, after comparing one column, `modified`.            *)
(* db.set_value(update_modified=False) and plain SQL write a few columns   *)
(* of the row as it is now and leave `modified` alone.                     *)
(*                                                                         *)
(* A scheduled job is one transaction over all sessions.  The others show  *)
(* in this one's model as the time between the job's write, which locks    *)
(* the row, and its commit.                                                *)
(***************************************************************************)
EXTENDS Integers, FiniteSets

CONSTANTS
    Request,      \* web requests that may be served at the same time
    GwStatus,     \* bound: the statuses the gateway moves to
    MaxRestarts,  \* max_restart_attempts
    MaxFlying,    \* bound: webhooks on their way at the same time
    MaxEvents     \* bound: moves of the gateway, user actions, sends and faults

Statuses == {"Initializing", "QR Required", "Connected", "Disconnected", "Failed"}

ASSUME GatewayAssumption == GwStatus \subseteq Statuses
ASSUME BoundAssumption == {MaxRestarts, MaxFlying, MaxEvents} \subseteq Nat

Unknown == "Unknown"        \* no cached status; no answer of the gateway, no session there
NoChange == "NoChange"      \* session.reconnect_loop names no status

VARIABLES
    gw,       \* the gateway's status, as map_gateway_status gives it, or Unknown
    events,   \* the statuses carried by lifecycle webhooks on their way
    row,      \* the committed row
    cache,    \* openwa:session:status:<name>
    req,      \* [Request -> the request's local state]
    poll,     \* ping_all_sessions
    heal,     \* heal_disconnected_sessions
    isolation,  \* the database's innodb_snapshot_isolation, which nobody changes
    happened  \* how much of MaxEvents is spent

vars == <<gw, events, row, cache, req, poll, heal, isolation, happened>>

\* `linked`: gateway_session_id is set.
Row == [status: Statuses, attention: BOOLEAN, restarts: Nat, sent: Nat, linked: BOOLEAN]
EmptyRow == [status |-> "Initializing", attention |-> FALSE, restarts |-> 0, sent |-> 0,
             linked |-> FALSE]

\* `old`: the row changed since it was read, so that a write is refused: the
\* column `modified`, or with snapshot isolation any column.  In "saved" and
\* "reset" `doc` is what the request has written and not committed.
ReqPhases == {"idle", "hook", "form", "fetched", "restart", "edit", "ping", "boot",
              "fetch", "record", "deregister", "saved", "reset"}
SavesRow == {"hook", "form", "fetched", "restart", "edit"}
ReqState == [pc: ReqPhases, doc: Row, seen: Statuses \cup {Unknown, NoChange}, old: BOOLEAN]
IdleReq == [pc |-> "idle", doc |-> EmptyRow, seen |-> Unknown, old |-> FALSE]

\* `read`: what the job's first query returned; `seen`: the gateway's answer;
\* `doc`: the row its transaction has written ("written") and not committed.
PollState == [pc: {"idle", "fetch", "answer", "written"},
              read: Statuses \cup {Unknown}, seen: Statuses \cup {Unknown}, doc: Row, old: BOOLEAN]
IdlePoll == [pc |-> "idle", read |-> Unknown, seen |-> Unknown, doc |-> EmptyRow, old |-> FALSE]
HealState == [pc: {"idle", "fetch", "answer", "count", "written"},
              read: Nat, seen: Statuses \cup {Unknown}, doc: Row, old: BOOLEAN]
IdleHeal == [pc |-> "idle", read |-> 0, seen |-> Unknown, doc |-> EmptyRow, old |-> FALSE]

TypeOK ==
    /\ gw \in Statuses \cup {Unknown}
    /\ events \subseteq Statuses \cup {NoChange}
    /\ row \in Row
    /\ cache \in Statuses \cup {Unknown}
    /\ req \in [Request -> ReqState]
    /\ poll \in PollState
    /\ heal \in HealState
    /\ isolation \in BOOLEAN
    /\ happened \in 0..MaxEvents

-----------------------------------------------------------------------------
(* Rows, locks and saves.                                                  *)

\* before_save: the attention flag follows the status.
Attention(status) == status \in {"QR Required", "Failed"}
BeforeSave(doc) == [doc EXCEPT !.attention = Attention(doc.status)]

Happens == happened < MaxEvents /\ happened' = happened + 1

\* A transaction has written the row: whoever else wants to write it waits.
HasSaved(r) == req[r].pc \in {"saved", "reset"}
LockedByPoll ==                                       \* mutant: the healer locks nothing
    poll.pc = "written" \/ \E r \in Request : HasSaved(r)
Locked == poll.pc = "written" \/ heal.pc = "written" \/ \E r \in Request : HasSaved(r)

\* A request reads the row, and what it is served with.
Begin(r, pc, doc, seen) ==
    /\ req[r].pc = "idle"
    /\ req' = [req EXCEPT ![r] = [pc |-> pc, doc |-> doc, seen |-> seen, old |-> FALSE]]
End(r) == req' = [req EXCEPT ![r] = IdleReq]
Goto(r, pc) == req' = [req EXCEPT ![r].pc = pc]

\* A commit to the row: with snapshot isolation, on by default since MariaDB
\* 11.6, whoever read the row before may not write it any more (error 1020).
Overtaken(x, how) ==
    IF x.pc \in {"idle", "ping"} THEN x
    ELSE [x EXCEPT !.old = @ \/ (how /\ (x.pc \in SavesRow \/ isolation))]
OvertakesRequests(how) == req' = [q \in Request |-> Overtaken(req[q], how)]
OvertakesJobs ==
    /\ poll' = Overtaken(poll, isolation)
    /\ heal' = Overtaken(heal, isolation)

\* r's commit, after a save or after a statement that leaves `modified` alone,
\* and what becomes of r.
CommitAnd(r, modified, then) ==
    /\ req' = [q \in Request |->
          IF q = r THEN then ELSE Overtaken(req[q], modified \/ isolation)]
    /\ OvertakesJobs
Commit(r, modified) == CommitAnd(r, modified, IdleReq)

\* Document.save() and the commit: every column as r holds it.
Save(r, doc) ==
    /\ ~Locked
    /\ ~req[r].old
    /\ row' = BeforeSave(doc)
    /\ Commit(r, TRUE)

\* The gateway moves; it may or may not manage to send the webhook for it.
GatewayTo(status) ==
    /\ gw' = status
    /\ events' \in {E \in {events, events \cup {status}} : Cardinality(E) <= MaxFlying}

\* _restart_on_gateway: start, or stop and start.  When it is accepted the
\* engine of the session boots; it may come up or drop again.
RestartAccepted == gw # Unknown /\ \E status \in GwStatus : GatewayTo(status)

Init ==
    /\ \/ /\ gw \in GwStatus
          /\ row = BeforeSave([EmptyRow EXCEPT !.status = gw, !.linked = TRUE])
       \/ gw = Unknown /\ row = EmptyRow
    /\ events = {}
    /\ cache = Unknown
    /\ req = [r \in Request |-> IdleReq]
    /\ poll = IdlePoll
    /\ heal = IdleHeal
    /\ isolation \in BOOLEAN
    /\ happened = 0

-----------------------------------------------------------------------------
(* The environment.                                                        *)
GatewayMoves ==
    /\ Happens
    /\ gw # Unknown
    /\ \E status \in GwStatus : gw # status /\ GatewayTo(status)
    /\ UNCHANGED <<row, cache, req, poll, heal, isolation>>

\* session.reconnect_loop, or an old delivery again (a retry, a replay).
EventAgain ==
    /\ Happens
    /\ row.linked
    /\ \E what \in GwStatus \cup {NoChange} : events' = events \cup {what}
    /\ Cardinality(events') <= MaxFlying
    /\ UNCHANGED <<gw, row, cache, req, poll, heal, isolation>>

(* reserve_slot's UPDATE counts a message; see SendSlots.                  *)
CountSend ==
    /\ Happens
    /\ ~Locked
    /\ row' = [row EXCEPT !.sent = @ + 1]
    /\ OvertakesRequests(isolation)
    /\ OvertakesJobs
    /\ UNCHANGED <<gw, events, cache, isolation>>

CacheExpires ==
    /\ cache # Unknown
    /\ cache' = Unknown
    /\ UNCHANGED <<gw, events, row, req, poll, heal, isolation, happened>>

(* A process is killed, or its transaction rolled back: what it did to the *)
(* gateway and to Redis stays.                                             *)
Killed ==
    /\ Happens
    /\ \/ \E r \in Request : req[r].pc # "idle" /\ End(r) /\ UNCHANGED <<poll, heal>>
       \/ poll.pc # "idle" /\ poll' = IdlePoll /\ UNCHANGED <<req, heal>>
       \/ heal.pc # "idle" /\ heal' = IdleHeal /\ UNCHANGED <<req, poll>>
    /\ UNCHANGED <<gw, events, row, cache, isolation>>

-----------------------------------------------------------------------------
(* handle_session_event.                                                   *)
\* An event of a session no document names is logged and dropped: see
\* ResetCommits.
HookReads(r) ==
    /\ row.linked
    /\ \E what \in events :
          /\ Begin(r, "hook", row, what)
          /\ events' = events \ {what}
    /\ UNCHANGED <<gw, row, cache, poll, heal, isolation, happened>>

\* Mutant: session.reconnect_loop taken for a change of status.
SyncedRaw(doc, what) == [doc EXCEPT !.status = what]
\* A connected session has its restart count back.
Synced(doc, what) ==
    IF what = NoChange THEN doc
    ELSE [doc EXCEPT !.status = what, !.restarts = IF what = "Connected" THEN 0 ELSE @]

\* The save, and the invalidation of the cached status; the request's log of
\* the delivery follows, and the commit.
HookSaves(r) ==
    /\ req[r].pc = "hook"
    /\ ~Locked
    /\ ~req[r].old
    /\ req' = [req EXCEPT ![r].pc = "saved",
                          ![r].doc = BeforeSave(Synced(req[r].doc, req[r].seen))]
    /\ cache' = Unknown
    /\ UNCHANGED <<gw, events, row, poll, heal, isolation, happened>>

HookCommits(r) ==
    /\ req[r].pc = "saved"
    /\ row' = req[r].doc
    /\ Commit(r, TRUE)
    /\ UNCHANGED <<gw, events, cache, isolation, happened>>

(* get_status and _sync_from_gateway: the row, then the gateway.           *)
FormReads(r) ==
    /\ Happens
    /\ row.linked
    /\ Begin(r, "form", row, Unknown)
    /\ UNCHANGED <<gw, events, row, cache, poll, heal, isolation>>

FormFetches(r) ==
    /\ req[r].pc = "form"
    /\ req' = [req EXCEPT ![r].pc = "fetched", ![r].seen = gw]
    /\ UNCHANGED <<gw, events, row, cache, poll, heal, isolation, happened>>

\* No answer, or no field differs: only last_health_check is written.
FormUnchanged(r) ==
    /\ req[r].pc = "fetched"
    /\ req[r].seen = Unknown \/ Synced(req[r].doc, req[r].seen) = req[r].doc
    /\ ~Locked
    /\ isolation => ~req[r].old
    /\ Commit(r, FALSE)
    /\ UNCHANGED <<gw, events, row, cache, isolation, happened>>

\* Some field differs, last_error or the QR image if none of these.
FormSaves(r) ==
    /\ req[r].pc = "fetched"
    /\ req[r].seen # Unknown
    /\ Save(r, Synced(req[r].doc, req[r].seen))
    /\ UNCHANGED <<gw, events, cache, isolation, happened>>

(* restart_session, the button: the gateway first, then the row.           *)
ButtonReads(r) ==
    /\ Happens
    /\ row.linked
    /\ Begin(r, "restart", row, Unknown)
    /\ RestartAccepted
    /\ UNCHANGED <<row, cache, poll, heal, isolation>>

ButtonSaves(r) ==
    /\ req[r].pc = "restart"
    /\ Save(r, [req[r].doc EXCEPT !.restarts = @ + 1])
    /\ UNCHANGED <<gw, events, cache, isolation, happened>>

(* A user opens the form, changes a setting of the session, saves.         *)
EditOpens(r) ==
    /\ Happens
    /\ Begin(r, "edit", row, Unknown)
    /\ UNCHANGED <<gw, events, row, cache, poll, heal, isolation>>

\* validate compares the gateway-driven columns with the row as it is now.
SameState(r) == row.status = req[r].doc.status /\ row.linked = req[r].doc.linked
EditSaves(r) ==
    /\ req[r].pc = "edit"
    /\ SameState(r)
    /\ Save(r, req[r].doc)
    /\ UNCHANGED <<gw, events, cache, isolation, happened>>

EditRejected(r) ==
    /\ req[r].pc = "edit"
    /\ ~SameState(r)
    /\ ~Locked
    /\ End(r)
    /\ UNCHANGED <<gw, events, row, cache, poll, heal, isolation, happened>>

\* Another write came first: an error for whoever saves or writes.  The form's
\* poll rolls back, which gives it a new snapshot, and writes last_health_check.
SaveRefused(r) ==
    /\ req[r].old
    /\ ~Locked
    /\ req[r].pc # "form"                               \* it writes nothing yet
    /\ IF req[r].pc = "fetched" THEN Commit(r, FALSE) ELSE End(r) /\ UNCHANGED <<poll, heal>>
    /\ UNCHANGED <<gw, events, row, cache, isolation, happened>>

-----------------------------------------------------------------------------
(* Provisioning and deregistration, as far as they write this row (see     *)
(* Provisioning).  They write columns, in statements that leave `modified` *)
(* alone and run no before_save.                                           *)

\* The gateway has the session now, or had one of the name; its id is committed.
IdRecorded(r) ==
    /\ Happens
    /\ req[r].pc = "idle"
    /\ ~row.linked
    /\ ~Locked
    /\ gw' = IF gw = Unknown THEN "Initializing" ELSE gw
    /\ row' = [row EXCEPT !.linked = TRUE]
    /\ CommitAnd(r, FALSE, [IdleReq EXCEPT !.pc = "boot"])
    /\ UNCHANGED <<events, cache, isolation>>

\* The engine is started, or was running.
EngineBoots(r) ==
    /\ req[r].pc = "boot"
    /\ RestartAccepted
    /\ Goto(r, "fetch")
    /\ UNCHANGED <<row, cache, poll, heal, isolation, happened>>

\* No answer is taken for a failed session.
Fetched(answer) == IF answer = Unknown THEN "Failed" ELSE answer
ProvisionFetches(r) ==
    /\ req[r].pc = "fetch"
    /\ req' = [req EXCEPT ![r].pc = "record", ![r].seen = Fetched(gw)]
    /\ UNCHANGED <<gw, events, row, cache, poll, heal, isolation, happened>>

\* The status without the flag.  The flag is raised when the webhook was
\* refused: an earlier statement of the same transaction.
StatusRecorded(r) ==
    /\ req[r].pc = "record"
    /\ ~Locked
    /\ isolation => ~req[r].old
    /\ \E warned \in BOOLEAN :
          row' = [row EXCEPT !.status = req[r].seen, !.linked = TRUE,
                             !.attention = @ \/ warned]
    /\ Commit(r, FALSE)
    /\ UNCHANGED <<gw, events, cache, isolation, happened>>

\* It fails.  The job says so in the flag, without the status; the button's
\* transaction is rolled back.
ProvisionFails(r) ==
    /\ req[r].pc \in {"boot", "fetch", "record"}
    /\ \/ /\ ~Locked
          /\ isolation => ~req[r].old
          /\ row' = [row EXCEPT !.attention = TRUE]
          /\ Commit(r, FALSE)
       \/ End(r) /\ UNCHANGED <<row, poll, heal>>
    /\ UNCHANGED <<gw, events, cache, isolation, happened>>

\* The gateway's session is deleted, or its DELETE failed.
DeregisterDeletes(r) ==
    /\ Happens
    /\ row.linked
    /\ Begin(r, "deregister", EmptyRow, Unknown)
    /\ gw' \in {gw, Unknown}
    /\ UNCHANGED <<events, row, cache, poll, heal, isolation>>

\* The status is reset, and the flag stays.
DeregisterResets(r) ==
    /\ req[r].pc = "deregister"
    /\ ~Locked
    /\ isolation => ~req[r].old
    /\ req' = [req EXCEPT ![r].pc = "reset",
                          ![r].doc = [row EXCEPT !.status = "Initializing", !.restarts = 0,
                                                 !.linked = FALSE]]
    /\ cache' = Unknown
    /\ UNCHANGED <<gw, events, row, poll, heal, isolation, happened>>

\* Webhooks still on their way name an id that no document has.
ResetCommits(r) ==
    /\ req[r].pc = "reset"
    /\ row' = req[r].doc
    /\ events' = {}
    /\ Commit(r, FALSE)
    /\ UNCHANGED <<gw, cache, isolation, happened>>

-----------------------------------------------------------------------------
(* is_session_alive on a cache miss, before a send: a live ping fills the  *)
(* cache, whatever invalidated it meanwhile.                               *)
PingFetches(r) ==
    /\ Happens
    /\ cache = Unknown
    /\ row.linked /\ gw # Unknown
    /\ Begin(r, "ping", EmptyRow, gw)
    /\ UNCHANGED <<gw, events, row, cache, poll, heal, isolation>>

PingStores(r) ==
    /\ req[r].pc = "ping"
    /\ cache' = req[r].seen
    /\ End(r)
    /\ UNCHANGED <<gw, events, row, poll, heal, isolation, happened>>

-----------------------------------------------------------------------------
(* ping_all_sessions, one run at a time (its cron lock outlives a run).    *)
PollStarts ==
    /\ poll.pc = "idle"
    /\ row.linked
    /\ poll' = [IdlePoll EXCEPT !.pc = "fetch", !.read = row.status]
    /\ UNCHANGED <<gw, events, row, cache, req, heal, isolation, happened>>

PollFetches ==
    /\ poll.pc = "fetch"
    /\ gw # Unknown
    /\ poll' = [poll EXCEPT !.pc = "answer", !.seen = gw]
    /\ UNCHANGED <<gw, events, row, cache, req, heal, isolation, happened>>

\* No 200: the session keeps what it has until the next poll.
PollSkips ==
    /\ poll.pc = "fetch"
    /\ IF gw = Unknown THEN UNCHANGED happened ELSE Happens
    /\ poll' = IdlePoll
    /\ UNCHANGED <<gw, events, row, cache, req, heal, isolation>>

\* The status is written only if it differs from the one read at the start.
PollUpdateNoFlag == IF poll.seen = poll.read THEN row  \* mutant: flag left alone
                    ELSE [row EXCEPT !.status = poll.seen]
PollUpdateDownOnly ==                                 \* mutant: misses recoveries
    IF poll.seen \in {poll.read, "Connected"} THEN row
    ELSE [row EXCEPT !.status = poll.seen, !.attention = Attention(poll.seen)]
PollUpdate ==
    IF poll.seen = poll.read THEN row
    ELSE [row EXCEPT !.status = poll.seen, !.attention = Attention(poll.seen)]

PollWrites ==
    /\ poll.pc = "answer"
    /\ ~Locked
    /\ ~poll.old
    /\ poll' = [IdlePoll EXCEPT !.pc = "written", !.doc = PollUpdate]
    /\ cache' = poll.seen
    /\ UNCHANGED <<gw, events, row, req, heal, isolation, happened>>

PollRefused ==
    /\ poll.pc = "answer"
    /\ ~Locked
    /\ poll.old
    /\ poll' = IdlePoll
    /\ UNCHANGED <<gw, events, row, cache, req, heal, isolation, happened>>

PollCommits ==
    /\ poll.pc = "written"
    /\ row' = poll.doc
    /\ poll' = IdlePoll
    /\ heal' = Overtaken(heal, isolation)
    /\ OvertakesRequests(isolation)
    /\ UNCHANGED <<gw, events, cache, isolation, happened>>

-----------------------------------------------------------------------------
(* heal_disconnected_sessions, one run at a time.  A run passes over the   *)
(* session while it is in its grace window or has skip_auto_heal set.      *)
HealStarts ==
    /\ heal.pc = "idle"
    /\ row.linked
    /\ row.status = "Disconnected"
    /\ heal' = [IdleHeal EXCEPT !.pc = "fetch", !.read = row.restarts]
    /\ UNCHANGED <<gw, events, row, cache, req, poll, isolation, happened>>

HealFetches ==
    /\ heal.pc = "fetch"
    /\ heal' = [heal EXCEPT !.pc = "answer", !.seen = gw]
    /\ UNCHANGED <<gw, events, row, cache, req, poll, isolation, happened>>

\* No answer: as if the gateway had confirmed the disconnect.
HealUnanswered ==
    /\ heal.pc = "fetch"
    /\ Happens
    /\ heal' = [heal EXCEPT !.pc = "answer"]
    /\ UNCHANGED <<gw, events, row, cache, req, poll, isolation>>

HealWrites(doc) ==
    /\ ~Locked
    /\ ~heal.old
    /\ heal' = [IdleHeal EXCEPT !.pc = "written", !.doc = doc]
    /\ UNCHANGED <<gw, events, row, cache, req, poll, isolation, happened>>

\* The gateway says it is connected: the disconnect is not believed.
HealBelievesGateway ==
    /\ heal.pc = "answer"
    /\ heal.seen = "Connected"
    /\ HealWrites([row EXCEPT !.status = "Connected", !.attention = FALSE])

ConfirmedDown == heal.pc = "answer" /\ heal.seen # "Connected"
Exhausted == heal.read >= MaxRestarts

HealGivesUp ==
    /\ ConfirmedDown
    /\ Exhausted
    /\ HealWrites([row EXCEPT !.status = "Failed", !.attention = TRUE])

HealRestarts ==
    /\ ConfirmedDown
    /\ ~Exhausted
    /\ RestartAccepted
    /\ heal' = [heal EXCEPT !.pc = "count", !.seen = Unknown]
    /\ UNCHANGED <<row, cache, req, poll, isolation, happened>>

\* The gateway refuses, or the call raises: not counted as an attempt.
HealRefused ==
    /\ ConfirmedDown
    /\ ~Exhausted
    /\ IF gw = Unknown THEN UNCHANGED happened ELSE Happens
    /\ heal' = IdleHeal
    /\ UNCHANGED <<gw, events, row, cache, req, poll, isolation>>

\* The count read at the start of the run, plus one.
HealCounts ==
    /\ heal.pc = "count"
    /\ HealWrites([row EXCEPT !.restarts = heal.read + 1])

\* An exception: logged when the count is refused, the end of the job otherwise.
HealOvertaken ==
    /\ \/ heal.pc = "count"
       \/ heal.pc = "answer" /\ (heal.seen = "Connected" \/ Exhausted)
    /\ ~Locked
    /\ heal.old
    /\ heal' = IdleHeal
    /\ UNCHANGED <<gw, events, row, cache, req, poll, isolation, happened>>

HealCommits ==
    /\ heal.pc = "written"
    /\ row' = heal.doc
    /\ heal' = IdleHeal
    /\ poll' = Overtaken(poll, isolation)
    /\ OvertakesRequests(isolation)
    /\ UNCHANGED <<gw, events, cache, isolation, happened>>

-----------------------------------------------------------------------------
RequestStarts(r) ==
    \/ HookReads(r) \/ FormReads(r) \/ ButtonReads(r) \/ EditOpens(r) \/ PingFetches(r)
    \/ IdRecorded(r) \/ DeregisterDeletes(r)
Commits(r) == HookCommits(r) \/ ResetCommits(r)
RequestStep(r) ==
    \/ HookSaves(r) \/ FormFetches(r) \/ FormUnchanged(r) \/ FormSaves(r)
    \/ ButtonSaves(r) \/ EditSaves(r) \/ EditRejected(r) \/ SaveRefused(r)
    \/ PingStores(r) \/ EngineBoots(r) \/ ProvisionFetches(r) \/ StatusRecorded(r)
    \/ ProvisionFails(r) \/ DeregisterResets(r) \/ Commits(r)
PollStep == PollFetches \/ PollSkips \/ PollWrites \/ PollRefused \/ PollCommits
HealStep ==
    \/ HealFetches \/ HealUnanswered \/ HealBelievesGateway \/ HealGivesUp
    \/ HealRestarts \/ HealRefused \/ HealCounts \/ HealOvertaken \/ HealCommits

Next ==
    \/ GatewayMoves \/ EventAgain \/ CountSend \/ CacheExpires \/ Killed
    \/ \E r \in Request : RequestStarts(r) \/ RequestStep(r)
    \/ PollStarts \/ PollStep
    \/ HealStarts \/ HealStep

Spec == Init /\ [][Next]_vars

\* The scheduler keeps calling the health poll (hooks.py: every five minutes)
\* and a poll that was started goes on; strongly fair, for it waits for row
\* locks, which InnoDB grants in order.  Whoever has written the row holds its
\* lock for a moment: it commits, or is killed.
PollFairness ==
    /\ SF_vars(PollStarts \/ PollStep)
    /\ WF_vars(HealCommits \/ \E r \in Request : Commits(r))
PolledSpec == Spec /\ PollFairness

\* Both jobs are called again and again, every request is served.
Fairness ==
    /\ PollFairness
    /\ SF_vars(HealStarts) /\ SF_vars(HealStep)
    /\ \A r \in Request : SF_vars(RequestStep(r))
    /\ WF_vars(CacheExpires)
FairSpec == Spec /\ Fairness

-----------------------------------------------------------------------------
\* Nobody but provisioning and deregistration parts the attention flag of the
\* committed row from its status, although the others keep the pair in three
\* ways: before_save on documents read at any time before
\* (openwa_session.py:50-54), the poll's own copy of that rule against a status
\* it read before (health.py:68-71) and the constants of the self-healer.
\* provision.py:164 and 371 write the status alone, 76 and 299 the flag alone.
Fits(r) == r.attention = Attention(r.status)
SamePair(r, s) == r.status = s.status /\ r.attention = s.attention
ProvisioningWrites ==
    \E r \in Request : req[r].pc \in {"boot", "fetch", "record", "reset"} /\ req'[r].pc = "idle"
FlagKeptWithStatus ==
    [][~ProvisioningWrites => Fits(row') \/ SamePair(row', row)]_vars

\* The commit of a job takes back no column it did not mean to write: a message
\* counted since the job's query stays counted (health.py:80,
\* self_healer.py:116 write a few columns, and lock the row).
JobEnds == (poll.pc = "written" /\ poll'.pc = "idle")
              \/ (heal.pc = "written" /\ heal'.pc = "idle")
JobsKeepCounts == [][JobEnds => row'.sent >= row.sent]_vars

\* Once the gateway is quiet, the row of a session it has comes to say what the
\* gateway says and stays so, and the cached status is the gateway's or absent: lost, late and
\* repeated webhooks, stale saves and stale polls are repaired by the poll.
\* One exception: a session that stays disconnected is Failed once the healer
\* gives up, and Disconnected again after the next poll.
Provisioned == row.linked /\ gw # Unknown
Agrees ==
    /\ row.status = gw \/ (row.status = "Failed" /\ gw = "Disconnected")
    /\ cache \in {gw, Unknown}

Settles == []<><<TRUE>>_gw \/ <>[](Provisioned => Agrees)

-----------------------------------------------------------------------------
(* What the code's comments and descriptions say, and the code does not.   *)

\* openwa_session.json:177: "After this many failed restarts the self-healer
\* marks this session Failed and asks for a human."
DownEscalates == (gw = "Disconnected") ~> (row.status = "Failed" \/ gw # "Disconnected")

\* session_cap.py:8-10: "the UPDATE only matches while the session is under its
\* cap, so exactly one caller can take the last slot": no save of a status gives
\* a counted message back.
SentNeverRewound == [][row'.sent >= row.sent]_vars

=============================================================================
