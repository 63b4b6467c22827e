# Verification of frappe_whatsapp_openwa

`frappe_whatsapp_openwa` adds a second WhatsApp provider, the self-hosted OpenWA
gateway, to a Frappe site that sends over Meta's API. Its hard parts are not
algorithms. They are many short processes (web requests, a cron job per minute,
background jobs) that share rows in MariaDB and keys in Redis, call a gateway
whose answers may be lost, and may be killed anywhere. This directory holds TLA+
models of those parts, TLC instances that check them, and TLAPS proofs of what
matters most in them.

- [Inventory](#inventory)
- [Modules](#modules)
- [Runs](#runs)
- [Proofs](#proofs)
- [Findings](#findings)
- [Only model-checked, not modelled, assumed](#only-model-checked-not-modelled-assumed)
- [Plan](#plan)
- [How to run](#how-to-run)

Paths below are relative to `src/frappe_whatsapp_openwa/`.

## Inventory

| Component | State it keeps | Operations | Interacts with |
|---|---|---|---|
| Outbound queue: `queue/`, `utils/cron.py` | rows of *WhatsApp Outbound Queue* (status, attempts, next and last attempt), a Redis lock | enqueue, cron run: reap, select, expire, claim, dispatch, record, retry, dead-letter | routing, send slots, providers, Fallback Log |
| Daily send caps: `utils/session_cap.py`, `monitoring/counters.py` | `messages_sent_today` per session | reserve, release, count, midnight reset | queue, message sending, notifications |
| Send-rate windows: `utils/send_rate.py`, `utils/sliding_window.py` | one Redis sorted set per session, one for the gateway | take, give back, peek | reserve and release; routing (peek) |
| Inbound webhook: `api/webhook.py`, `utils/idempotency.py`, `translators/webhook_normalizer.py` | Redis claims per delivery and per message; *WhatsApp Message* rows; the webhook log | receive: verify, claim, store a message, apply an ack, pass on a session event, report a failure | the gateway's retries, session lifecycle |
| Session lifecycle: `monitoring/state.py`, `health.py`, `self_healer.py`, `utils/cache.py`, `api/session.py`, the *OpenWA Session* controller | status, attention flag, restart counter, last seen, a cached status (60 s) | webhook event, 5-minute poll, 5-minute healer, form poll, operator actions | webhook, gateway, provisioning (writes status or flag), routing and queue (read the status) |
| Provisioning: `api/provision.py`, `utils/gateway.py` | `gateway_session_id`, the webhook secret and its registration | provision, deprovision, re-register, rotate | gateway, webhook verification |
| Routing: `routing/resolver.py`, `routing/campaign.py` | 5 s caches of choices | resolve a provider and a session | session status, caps, rate windows |
| Message sending: `overrides/`, `routing/router.py`, `routing/fallback.py` | one document on its way to a provider | before_insert, OpenWA send, Meta fallback, queueing | routing, slots, providers, queue |
| Providers: `providers/`, `utils/retry.py` | none | HTTP calls, bounded retries | everything that sends |
| Bulk messages and templates, authorization, URL guard, settings, phone numbers, install and patches, retention and reporting | none of their own | see `PROJECT.json` | |

What is hard, by component, and what would make it correct:

- **Outbound queue.** Runs longer than the lock's TTL overlap; batches go stale;
  processes die between a send and its commit. Correct: a row is never in two
  hands, never sent again unless a sending went unrecorded, given up only after
  its attempts, ends once and for good.
- **Send slots.** Senders race for the last slot, slots are given back by
  whoever fails, notifications ignore the cap, the counter is reset at midnight
  under senders' feet. Correct: caps and rates hold; no slot leaks.
- **Inbound webhook.** The gateway retries what failed and what was slow, so
  attempts overlap; claims are not part of any transaction. Correct: a message is
  stored once and not lost by deduplication; a delivery status moves forward.
- **Session lifecycle.** Many writers of one row and of a cached copy of its
  status (a webhook, a form's poll, the restart button, a user, provisioning and
  deregistration, the health poll, the healer, the count of messages), each deciding
  on what it read some time ago; some save the whole row, some a few columns. Correct: the row comes to agree with the gateway whatever is
  lost or late, and no writer takes back what another one counted.
- **Provisioning.** Two systems and no transaction across them; a job, a button,
  a deregistration and a deletion that nothing orders. Correct: no gateway
  session without a document pointing at it, no document left without a way on.
- **Routing and sending.** The session that is counted must be the one that
  sends; a message goes to one provider, once, through re-entrant hooks, a
  fallback and a queue; a choice is cached while the world moves.

The hazards, each at its line and with the property that covers it, are listed
in `PROJECT.json`.

## Modules

| Module | Models | Instance | Proofs |
|---|---|---|---|
| `AtLeastOnce` | what the queue promises, without workers, locks and clocks | | `OutboundQueueRefinement` |
| `OutboundQueue` | the queue and its cron lock; implements `AtLeastOnce` | `MCOutboundQueue` | `OutboundQueueProofs` |
| `SendSlots` | caps, rate windows, midnight | `MCSendSlots` | `SendSlotsProofs` |
| `WebhookIngest` | the webhook up to its answer | `MCWebhookIngest` | `WebhookIngestProofs` |
| `SessionLifecycle` | the status and the attention flag of one session, and their writers in both packages, `monitoring/` and `api/` | `MCSessionLifecycle` | `SessionLifecycleProofs` |
| `Provisioning` | the tie between documents and the gateway's sessions | `MCProvisioning` | `ProvisioningProofs` |
| `MessageSend` | routing and sending, from a message to a provider | `MCMessageSend` | `MessageSendProofs` |
| `FoldLemmas` | nothing: lemmas about sums over finite sets, which `SendSlotsProofs` and `MessageSendProofs` use | | itself |

The modules meet at each other's edges rather than in one composition, which TLC
could not finish. Where one uses another it has the other's outcomes as choices:
`OutboundQueue` and `MessageSend` a slot that is granted or refused (`SendSlots`),
`MessageSend` a status that becomes known at some time (`SessionLifecycle`) and a
worker that takes a queued message up again (`OutboundQueue`), `Provisioning` the
whole-row saves of a form (`SessionLifecycle`), `SendSlots` the documents that those
saves write (`SessionLifecycle`), and `SessionLifecycle` the columns that provisioning
and deregistration write (`Provisioning`).

### OutboundQueue

A `Worker` is one call of `process_outbound_queue`; its `pc` names where it is.
Steps end where another process can get in between: at a commit, a Redis command
or a provider call. What a run reads once and keeps is state of the worker,
because it may be stale when it is used: `runStart` (the `now` of `_run_queue`),
`batch` and `snap` (the rows and their `attempts` as selected).

| Action | Code |
|---|---|
| `Enqueue` | `queue/enqueue.py` `enqueue_message` |
| `AcquireLock`, `FinishRun`, `AbortRun` | `worker.py` 16-26, the lock and its `finally` |
| `Reap`, `SelectBatch` | `_run_queue` 32-70 |
| `ExpireRow`, `SkipRow`, `ResolveRow` | `_process_row` 82-133 |
| `ClaimRow`, `LoseClaim` | the conditional UPDATE and its ROW_COUNT, 135-155 |
| `ReserveGranted`, `ReserveRefused` | `reserve_slot`, 164-173, as an outcome (see `SendSlots`) |
| `Dispatch` | `_dispatch`: sent, failed, or sent and the answer lost |
| `RecordSent`, `ScheduleRetry`, `GiveUp`, `LeaveSending` | 175-246 |
| `Crash` | the process is killed: locks and claims stay |

`AtLeastOnce` is the same queue seen by who hands a message in: it waits, is
taken, is sent at most once while it is taken, goes back or is settled, and only
a sending that was forgotten (`lost`) can be repeated. `Abstract` in
`OutboundQueue` is the refinement mapping: a row is Taken while a worker has it in
flight (`Holder`), whatever its status column says, and Waiting when it is Queued,
or Sending in the hands of nobody. The expiry of a row that another worker is
sending is a stutter, the crash of its worker puts it back.

Time is discrete. `MaxFlight` bounds the time from claim to recorded outcome,
`MaxRun` that of a whole run; `MaxFlight <= StuckAfter` is the assumption stated
at `worker.py` 42-43.

### SendSlots

The actors are messages going through `reserve_slot`, the send and
`release_slot`, one Redis script or SQL statement per step. `counter` is what is
committed. `change[m]` is what m's open transaction adds to the row of session
`on[m]`, one after its claim and nothing or minus one after a give-back; it becomes
part of `counter` only at `Commit`, so that a rollback (`Abort`) takes it back, as it
does in the code, where the claim is a statement in the transaction of the send.
`LocksFree` is the row lock that claim takes, and with a gateway-wide limit the shared
locks of its SUM.

| Action | Code |
|---|---|
| `Begin` to `SessionRefuses` | `consume_send_slot` 54-76, `take_slot` |
| `Claim`, `ClaimRefused` | the conditional UPDATE of `reserve_slot` |
| `Send` | the send: known to have gone out, known not to, or out with the answer lost |
| `GiveBackSession`, `GiveBackGateway`, `GiveBackDay` | `release_slot` |
| `ReleaseAgain` | `worker.py` 186-193: released in the `try`, and again in its `except` |
| `CountSlot` | `count_slot` of a notification |
| `Commit`, `Abort` | the end of the transaction |
| `Midnight`, `ResetCounters`, `ResetFails` | `reset_daily_message_counts` |
| `ReadRow`, `SaveRow` | whoever saves the session as a document: `state.py` 39-87, `api/session.py` 24-231, the restart button, a user's edit |

A document is saved whole, its counter as it was read, and the save is refused only
when `modified` has moved, which claims, give-backs and the reset do not do. A stale
save therefore takes counted messages back, and one that is read before the midnight
reset and saved after it puts yesterday's count back. `restored` is that count.

A window is the set of its entries, as the Redis sorted set is: an entry is a score
(its time) and a member, which no two entries share. The member records whose entry
it is, which the code cannot tell: `give_back` pops any of the newest (`Newest`).
`slot[m]` is the entry that counts for m. When a give-back pops another message's,
the giver's own entry stays behind and counts for that other message instead, for as
long as it has left. `Total` is the SUM inside the claim.

What the properties except, each at a named step:

- `CapRespected` and `DailyLimitRespected` count the messages of the day but for
  `missing`: those that went out and whose slot was given back because the answer
  was lost (`GiveBackDay`), whose transaction was rolled back (`Abort`), that went
  out between midnight and the reset (`ResetCounters`), or whose count a stale save
  or a second release took away (`Recount`).
- `NoSlotLeaks` bounds a counter by the messages sent or counted since the last
  reset plus `restored`.
- `RateRespected` counts the messages that an unexpired entry counts for. Outside it
  are a message left with an older entry once that ages out, one whose entry was
  popped by a giver that had none left, and one that went out, lost its answer and
  gave its own slot back.

### WebhookIngest

A `Request` is attempt n of a delivery. Its `at` is the phase it is in or the way
it ended; `Deliver` is the gateway, which tries again when the last attempt has
not been answered with success, or not in time, so that attempts overlap. Redis
keys are records with the number of prefixes `make_key` has put on them: that is
what `claim_event` and `release_event` differ in. `rowOf` and `wrote` are the
uncommitted insert and status update of a request.

| Action | Code |
|---|---|
| `Refuse`, `IgnoreStale` | `_check_rate_limit`, `_is_stale` |
| `ClaimDelivery`, `PassUnclaimed`, `IgnoreDuplicate`, `InsertLog` | `receive` 51-61; a delivery without an idempotency key (`Keyless`) claims nothing |
| `ClaimMessage`, `SkipDuplicate` | `_handle_inbound_message` |
| `NoAccount`, `InsertMessage`, `InsertFails`, `FollowUp` | `_store_inbound_message` and what it calls |
| `ReadStatus`, `ApplyAck`, `SkipAck`, `AckFails` | `_handle_ack` |
| `ReportFailure`, `ReportRaises` | the except branch of `receive` |
| `Commit`, `Kill` | the end of the request |

`NoAccount` has three ends, since the log row that says why is saved inside the `try`
of `_store_inbound_message` and committed with the request: the request succeeds, the
save raises and is reported as a failure, or the commit fails.

### SessionLifecycle

The gateway's status `gw` is the truth, Unknown while it has no session; `row` and
`cache` (Redis, 60 s) are copies. `row.linked` says that the document has a
`gateway_session_id`. A `Request` is a web request or a background job for this
session: a lifecycle webhook, the form's status poll, the restart button, a user's
edit, a live ping, a provisioning or a deregistration. It reads when it begins and
writes later. `poll` and `heal` are the two scheduled jobs. A job is one transaction over
all sessions, so here there is time between its write, which locks the row, and
its commit.

`Document.save()` is `Save`: every column as the request read it, refused when the
column `modified` changed. The jobs' `db.set_value(update_modified=False)` and the
UPDATE that counts a message write some columns of the row as it is and leave
`modified` alone. `old` says that a later write of the reader is refused.
`isolation` is MariaDB's `innodb_snapshot_isolation`: with it any commit to the row
makes whoever read it before `old`. Installations have it on or off; the runs check
both.

| Action | Code |
|---|---|
| `HookReads`, `HookSaves`, `HookCommits` | `state.py` `handle_session_event`; the cached status is dropped at the save, before the commit |
| `FormReads`, `FormFetches`, `FormUnchanged`, `FormSaves` | `api/session.py` `get_status`, `_sync_from_gateway` |
| `ButtonReads`, `ButtonSaves` | `restart_session` in `openwa_session.py` |
| `EditOpens`, `EditSaves`, `EditRejected` | `validate`, `before_save` |
| `SaveRefused` | a TimestampMismatch, or error 1020 |
| `PingFetches`, `PingStores`, `CacheExpires` | `utils/cache.py` |
| `PollStarts` to `PollCommits` | `health.py` `ping_all_sessions` |
| `HealStarts` to `HealCommits` | `self_healer.py` `heal_disconnected_sessions` |
| `CountSend` | the UPDATE of `reserve_slot` |
| `IdRecorded`, `EngineBoots`, `ProvisionFetches`, `StatusRecorded`, `ProvisionFails` | `provision.py` `_do_provision` and `provision_session_async`: what they write of this row, status without flag (164-170) or flag without status (76-81, 299-307) |
| `DeregisterDeletes`, `DeregisterResets`, `ResetCommits` | `deprovision_session`: the status back to Initializing, the flag untouched (371-378) |

### Provisioning

An `Actor` is the background job of a document or a web request; a step is one
gateway call or one commit. Ids stand for UUIDs: an id nobody refers to any more is
a new one. Two documents of the instance have the same gateway name, which also
stands for a document deleted and made again. `lost` and `removed` are history, the
two ways in which the code lets go of a gateway session knowingly.

| Action | Code |
|---|---|
| `Insert`, `JobStarts`, `ButtonStarts` | `after_insert`, `provision_session_async`, `_do_provision` 94-107 |
| `CreateSession`, `FindSession`, `RecordId` | `_create_or_find_session`, the commit at 137-139 |
| `ReadSecret`, `MintSecret` | `ensure_session_webhook_secret` |
| `SecretFails` | the secret cannot be read, which is taken for none, or not stored, and the webhook is registered without one (238-277) |
| `RegisterWebhook`, `WebhookRefused`, `StartSession`, `Finish` | `_register_webhook`, `_start_session`, the last `db_set` |
| `DeregisterStarts`, `GatewayDeletes`, `GatewayKeeps`, `ResetRow` | `deprovision_session` |
| `TrashStarts`, `DeleteRow`, `DeleteRefused` | `on_trash`, `release_gateway_session`, Frappe's deletion |
| `SyncReads`, `SyncSaves` | a form poll's whole-row save |
| `CallFails`, `Dies` | no answer, a killed process |

### MessageSend

The first half is `routing/resolver.py` as operators: `Candidates(req)` is the set
of sessions `_resolve_openwa` may answer for a request, `Answers(req)` what
`_resolve_uncached` may, `Caches`, `Key` and `Hits` its cache. The second half is a
message on its way: `pc` names the place, and the same steps serve a document's
insertion, a notification, an API call and the worker, which differ in who resolves
twice, who reserves a slot and who falls back how.

| Action | Code |
|---|---|
| `Resolve`, `ResolveAgain` | `resolve_provider` from `send_outgoing`, `notify`, `send.py`; from `route_send_text` |
| `ShouldQueue`, `Reserve`, `CapReached` | `_should_queue`, `reserve_slot`, `_handle_cap_reached` |
| `GatewayAccepts`, `GatewayRefuses`, `NoAnswer`, `NoAdapter` | `_try_openwa_then_fallback`, `providers/openwa.py`, `utils/retry.py` |
| `MetaSends`, `MetaFails`, `AdapterInserts`, `AdapterInsertFails` | upstream's send, `providers/meta.py` and the insertion that re-enters `send_outgoing` |
| `Succeeds`, `Fails`, `RollsBack` | the ends: commit, throw, notification log, rollback |
| `Drain`, `DrainChecks` | `_process_row` 91-162 |

## Runs

Each property has a mutant in `PROJECT.json`: a definition of the model changed
the way a plausible bug would change the code, under which TLC finds the
property violated. Mutated forms stand beside the originals, marked `mutant`.

| Run | Instance | Shows |
|---|---|---|
| `queue_overlap` | 2 workers, 1 row, runs as long as the lock's TTL, 1 killed process, 4 time units | everything the queue promises without its lock: exclusive claims, no duplicate without a loss, late giving up, final dead letters, settled rows stay, every row settles; and the queue implements `AtLeastOnce` |
| `queue_short_runs` | 2 workers, 2 rows, batch of 1, runs shorter than the TTL | then the lock excludes, attempts are counted exactly, backoff is respected, a committed Sent stays |
| `queue_sent_durable` | as `queue_overlap`, runs of any length | *violated*: a committed Sent is overwritten by Expired |
| `slots_caps` | 3 messages, 2 sessions (one with a cap of 1), 2 a day for the gateway, 1 per window of one time unit per session, 1 killed process or second release, 1 midnight, 1 process that saves the capped session as a document | caps and rates but for the messages named above; a counter exceeds what was sent since the reset by what a document read before it put back, and no more |
| `slots_gateway_budget` | 3 messages, gateway window of 2 | *violated*: refused messages fill the gateway's window |
| `webhook_ingest` | 2 deliveries of a message (the first attempted twice, the second without an idempotency key), 2 acks of another, 1 killed request | stored once, claimed while stored, losses explained, backward acks explained |
| `webhook_retry` | 1 delivery, 2 attempts | *violated*: the retry of a reported failure is dropped |
| `session_lifecycle` | 2 requests, both jobs, a gateway that comes up and goes down, 1 webhook on its way, 1 restart allowed, 1 fault, provisioning, deregistration or user's action; with and without `innodb_snapshot_isolation` | only provisioning and deregistration part the attention flag from the status, jobs lose no count, row and cache come to agree with the gateway |
| `session_escalates` | 1 request, both jobs, a session that stays down, no faults | *violated*: the healer never gives the session up |
| `provisioning` | 2 documents with one gateway name, their jobs, 1 request, 2 mishaps | orphans explained, a failed job says so, nobody stranded |
| `message_send` | 2 messages of 5 kinds, 2 sessions with a cap of 1, 9 configurations, 1 attempt of the worker, 2 mishaps | sent once, slots paid for, a campaign's pool honoured, Meta last |
| `send_pool` | the same | *violated*: a queued campaign message leaves its pool |

Why the bounds are enough:

- **Queue.** Two workers are all a conflict needs, since every interference is
  between the worker that holds a row and one other. Rows interact only through
  the batch limit and the lock, which `queue_short_runs` covers with two rows
  and a batch of one. Time reaches past `MaxAge`, `StuckAfter`, `LockTTL` and
  the backoff of every attempt the instance permits. The proofs remove the
  bounds for all safety properties.
- **Slots.** Three messages over two sessions give two on one session and one on
  the other: a race for the last slot, a give-back that hits a third party's
  entry, a total over different rows. A message that comes back after a refusal
  is no different from another message, so each tries once. The clock passes one
  whole window, so that entries taken before it age out. One saver is enough: of two
  that read the same row the second is refused, and rows meet only in the total.
- **Webhook.** One retried delivery beside another delivery of the same message
  covers both gates, since requests of different messages share no key. Acks
  conflict in pairs; the pair Sent, Read is out of order in either order of
  commits. Two attempts of a delivery without a key are to each other what two
  deliveries of one message are, so the one without a key comes once.

- **Session.** One session is enough: the jobs' loops touch others only in time,
  which the open transaction stands for. Two requests give every pair of kinds,
  the same kind twice included, beside both jobs. An event is what comes from outside:
  a move of the gateway, a message counted, an action of a user, the beginning of a
  form's poll, of a ping, of a provisioning or a deregistration, a fault; webhooks and
  the jobs come free of it. A deregistration with a provisioning after it takes two
  and is left to the proofs. The one mishap is a lost race of
  any sort: a second one only repeats it, since every handler ends. A session that
  flaps needs no mishap, because restarts move the gateway too. `session_escalates`
  needs no mishap at all.
- **Provisioning.** Two documents of one name are the worst case of names; documents
  of different names meet nowhere. Three ids allow a session for each document
  beside one that is given up. Two mishaps are needed for what one cannot do (a
  death, and then an action out of turn); `lost` sees one at a time.
- **Sending.** Two messages race for a session's last slot, share a cached choice,
  or draw on each other's report. With a cap of 1 every count matters. The nine
  configurations are each mode with queueing and with fallback, an account without
  linked sessions, one without a default, and a Meta account. The mishaps include
  every move of a session, every lost answer and every failure.

`CHECK_DEADLOCK FALSE` stands where the bounded environment (messages, attempts,
the clock) runs out, and in the two runs of `SessionLifecycle`, where a session that
is not on the gateway is left alone by everybody once the events are spent.

**Fairness.**

- `queue_overlap`: time passes (`WF(Tick)`), a worker that is not killed goes on
  (`WF(WorkerStep(w))`), and the scheduler keeps starting runs
  (`WF(\E w : AcquireLock(w))`), which `hooks.py` 54-59 does every minute. Nothing
  is assumed of the outcomes: sends may fail for ever, and rows still settle because
  `max_age` expires them.
- `session_lifecycle`: the scheduler keeps calling the poll (`hooks.py` 59-62) and a
  job that was started goes on. The poll's steps are strongly fair, because they
  wait for row locks, which InnoDB grants in order. Whoever has written the row and
  holds its lock commits, or is killed (weak fairness of `HealCommits` and of the
  requests' `Commits`): a database transaction ends. No other fairness for requests, the
  healer's starts or webhooks: `Settles` holds whether or not these ever come.
- `session_escalates`: the healer is called for ever as well and every request is
  served; the property fails all the same.
- `provisioning`: a process that is not killed goes on, and an operator who sees
  nobody at work on a document without a live session tries again. The second is an
  assumption about people; without it nothing in the code retries.

## Proofs

All theorems hold for every value of the constants that satisfies the named
assumptions of the modules.

**OutboundQueueProofs.** `TypeCorrect`; `ClaimIsExclusive`; `SettledRowsStay`;
`NoDuplicateWithoutLoss`; `GivesUpLate`; `DeadLettersAreFinal`;
and, under `MaxRun < LockTTL`, `ShortRunsDoNotOverlap`, `ShortRunsCountExactly`,
`ShortRunsBackOff` and `ShortRunsKeepSent`.

`ClaimExclusive` is not inductive: the reaper could requeue a row in flight, and
nothing in the property says it cannot. `FlightInv` adds that a row in flight is
Sending, or Expired by a run that never claimed it, and that `last_attempt_at` is
still the time of its holder's claim, not yet `MaxFlight` ago; with
`MaxFlight <= StuckAfter` and `RunInv` (a run's `now` is not in the future) the
reaper's WHERE clause does not match it (`NotStuckInFlight`). The claim's status
test then admits nobody else. `LedgerInv` keeps the books of sendings against
losses (a message sent and not yet recorded is the only way they differ);
`GiveUpInv` relates the attempts a worker counts from its stale batch to those
in the table; `SettledRowsStay` and `DeadLettersAreFinal` follow from the claim.
With runs shorter than the lock's TTL nobody else claims a row: `FreshInv` and
`DueInv` say that what a worker selected and has not come to yet has the attempts
it read and is still due. `OwnInv` adds that it is still Queued, and Sending from
its own claim on; an expiry then cannot hit a row that is Sent (`ShortRunsKeepSent`).
Without the condition it can, which is finding 1: the theorem says that finding 1 is a
matter of runs longer than the lock and of nothing else.

**WebhookIngestProofs.** `TypeCorrect`; `StoredStaysClaimed`;
`MessagesStoredOnce`; `AcksGoBackOnlyWhenStale`; `NothingLostSilently`.

`StoredOnce` needs to know who may insert. `Holds(r)`: r is between its claim
and the end of its transaction. `ClaimInv` says that a message has one holder
(`OneHolder`), that the holder's claim is in Redis and nothing is stored yet
(`HolderInv`), that what is stored stays claimed (`StoredInv`), and that every
key in Redis has exactly one prefix (`KeysOnce`), from which it follows that
`release_event` deletes nothing (`ReleaseKeepsClaims`). That last step is the
one a repair of `release_event` breaks, and `MessagesStoredOnce` with it, unless
the repair also keeps the claim when `insert` raises after the row was written.
`AcksGoBackOnlyWhenStale` needs `AckInv`: a status waiting for its commit
supersedes the one its request read. `NothingLostSilently` needs to know what a
claim stands for (`GateInv`): behind every claim that dismisses a request as a
duplicate there is the row, a request that will still insert it, or one that
failed. An outgoing message is no incoming one (`DeliveryAssumption`), so acks do
not enter into it.

**SendSlotsProofs.** `TypeCorrect`; `SoftCapHolds`; `SlotsDoNotLeak`;
`DailyLimitHolds`; `RateHolds`.

The soft cap and the leaks rest on one fact about each session (`Bounds`): its
committed counter lies between the messages on its cap whose count is settled and all
settled messages booked on it plus what was `restored`, where settled means that no
open transaction holds the count. A save needs `DocsBounded` for it: a document that
was read since the reset holds no more than that upper bound. One read before it may
hold anything, which is what `restored` then records. That a stale save or a second
release leaves the lower bound true is `RecountFits`: what the counter falls short of
is missing.
`CapRespected` alone is not inductive, because notifications push the counter
past the cap and a reset empties it: what a send needs is that the room its claim
saw is still there (`ClaimStillGood`) and that it is the only open claim of its
session (`LocksExclude`). Only the lock on the session's own row is used there, so the
soft cap, unlike the gateway's limit, does not depend on the isolation level.

`DailyLimitHolds` does use the shared locks of the SUM: with a limit one transaction
at a time holds a claim (`OneTransaction`), so the room it saw in the total is still
there when it sends (`TotalStillGood`). The step from there to a count of messages is
`SettledFits`: the settled messages of the day are at most the sum of the counters,
because those of each session are at most its counter (`Bounds`) and the sum over
the sessions adds up (`SumHolds`). A send adds one message whose claim is open, a
commit moves it from open to settled.

`RateHolds` rests on `WindowInv`: no window holds more entries than its allowance
after a script has run (`RoomKept`), a message that took nothing has no entry
(`NoneHeld`), an entry that counts for a message is in the window of its session, or
too old (`EntryThere`), and none counts for two (`OneEach`, with `TriesFresh`: the
entry a message is about to take is nobody's yet, although one of an earlier try may
by now count for another message). `OneEach` is what `give_back` endangers, since it
pops whoever is newest: that it holds is what sliding_window.py:78-79 claims when it
calls the entries interchangeable for counting. From messages to different entries is
an injection, so there are no more of the former than of the latter (`RateFits`).

**FoldLemmas.** `Total` of `SendSlots` and `CountsArePaid` of `MessageSend` are sums
over sets of any size, and a sum (`SumFunctionOnSet` of `Functions`) is a recursive
function on the subsets of its index set. What it computes is proved by induction:
`SumEmpty`, `SumTakes` (one member more), `SumAdds` and `SumChanges` (one value
changed), `SumSame`, `SumZero`, `SumHolds` (a bound of each part bounds the whole).
The library states induction for a predicate passed as a parameter. Here the
predicate is a set instead: a set of numbers that is not empty has a least member
(`LeastNumber`, from the well-foundedness of the naturals), so a set that contains 0
and each successor is everything (`AllNumbers`), and likewise for the subsets of a
finite set, by their size (`AllSubsets`). That index sets are finite is
`FiniteAssumption` of both modules: there are finitely many sessions and messages in
a database.

**OutboundQueueRefinement.** `ImplementsSafely`: `Spec => Abstract!Spec`, the safety
part of `ImplementsAtLeastOnce`. Beside the invariants above it needs that batches
hold only rows that were enqueued (`KnownRows`). A step of a worker changes the
abstract state of its own row at most (`Others`, `RestKeeps`), and each action is
one abstract action or a stutter: the claim is `Take`, a dispatch that reaches the
provider `Deliver`, a recorded success `Record`. A crash, or a run that gives up
between two steps, is `PutBack` of the row in hand, or a stutter without one.

**SessionLifecycleProofs.** `TypeCorrect`; `FlagStaysWithStatus`;
`JobsTakeNothingBack`. Flag and status are not always in step: provisioning and
deregistration write one without the other (finding 14). What holds is that nobody else
parts them: every other commit leaves a flag that fits the status, or both as they
were. A job writes in a transaction that others cannot see, so `JobInv` says that what
it has written and not committed fits its own status, or is the row's pair, and
carries the present count, because it has the row locked. The lock has one holder
among the jobs and none while a request has it, and what a webhook has saved and not
committed went through `before_save`.

**ProvisioningProofs.** `TypeCorrect`; `OrphansAreExplained`; `JobsLeaveWord`.
`OrphansExplained` has to be known of ids before they matter. `Tied(g, d)`: gateway
session g bears the name of d, and is gone only if that name was given up. `TieInv`
says that every id in a row or in a process's hands is tied to its document, that
whoever is past the creation knows an id, that only requests give a document up,
and that live names are unique. A commit that overwrites an id then overwrites the
same one, or that of a dead session whose name was given up (`RowMoves`); that the
gateway refuses a second session of a name is what makes the two the same.
`JobsLeaveWord` uses that a job works on its own document and never gives up.

**MessageSendProofs.** `TypeCorrect`; `MessagesSentOnce`;
`CountsPaid`; `CampaignsKeepTheirNumbers`; `MetaComesLast`. `Ledger`: of a message that
is still going to be sent nothing has gone out, unless a sender could not know. `OnItsRoad` and `CacheInv`: a
session in the hands of a campaign's message, or in a cached choice for one, is in
the pool, which the cache's key contains. `CampaignAssumption` states that only a
document carries a campaign (`whatsapp_message.py` 120-132). `MetaComesLast`: if
there is no candidate no session is usable (`NoCandidate`), because of usable
sessions one carries the least (`LeastNumber` of `FoldLemmas`).

`CountsPaid` compares two sums over different sets, which no step keeps by itself.
`PaidInv` puts a set of messages between them: `Paid`, those that have finished over
OpenWA and were accepted. Only `Succeeds` adds to a counter, and the message it ends
was not in `Paid` before and is afterwards (`SuccessPaid`), so the sum of the counters
is at most the size of `Paid`; and each member of `Paid` was accepted at least once, so
that is at most the sum of what was accepted (`PaidAccepted`). To know that whoever
ends over OpenWA was accepted, `OnPaper` follows what each message has been told on
the way. It also says that a document that is sent over OpenWA holds the
slot of its session, which is the other half of `CountsArePaid`: no session counts
fewer than the documents that went out over it.

## Findings

Details, with the lines quoted, are in `PROJECT.json`. Those without a run are
formulas of the modules that the code violates (named here in brackets), or were
met while reading.

1. `queue/worker.py:87`: expiry has no status test, so a row that another run
   has sent becomes Expired. The lock does not prevent it (`queue_sent_durable`).
2. `queue/worker.py:164`: refused reservations use up attempts, so messages are
   dead-lettered "after exhausting retries" with hardly any tried
   (`FailedMeansTried`).
3. `utils/send_rate.py:67`: a refusal by the session's window or by a cap keeps
   the gateway's slot, which lets one busy session use up the install's budget
   (`slots_gateway_budget`).
4. `utils/session_cap.py:13-16`: a death between claim and commit does not cost
   a slot, it gives one back, although the message went out (`DeathOnlyLeaks`).
5. `monitoring/counters.py:16`: a document read before the midnight reset and saved
   after it puts yesterday's count back, and the session sends that many fewer today
   (`restored` in `NoSlotLeaks`).
6. `queue/worker.py:191`: the worker may release one slot twice, and the second time
   takes somebody else's count and entry (`ReleaseAgain`).
7. `utils/idempotency.py:61`: the key is prefixed twice, so no claim is ever
   released and every retry of a failed webhook is dropped (`webhook_retry`).
8. `api/webhook.py:527`: acks handled at once can move a status backward
   (`AcksMoveForward`).
9. `monitoring/state.py:87`: the webhook that a restart causes saves the row as it
   was before the restart was counted, so a session that stays down is restarted
   for ever (`session_escalates`).
10. `monitoring/state.py:87` again: such a save takes back a message that was
    counted meanwhile (`SentNeverRewound`); finding 5 is the same save across
    midnight, in the other direction.
11. `monitoring/health.py:65`: the poll sets a session the healer gave up back to
    Disconnected, the healer gives it up again, and so on (the exception in `Agrees`).
12. `queue/worker.py:176`: the worker's second resolution forgets the campaign
    (`send_pool`).
13. `routing/resolver.py:338`: the report of an outage is lost with the message
    that met it, and not written again while its key lasts (`OutageReported`).
14. `api/provision.py:164`: provisioning and deregistration write the status and not
    the attention flag that `before_save` and the health poll derive from it
    (the exception in `FlagKeptWithStatus`).
15. `api/provision.py:367`: the attention flag for a session that the gateway would
    not delete is set on the document in memory and never stored (`ResetRow` and
    `ResetCommits`, which leave the flag alone).
16. `api/provision.py:164`: the last write of a provision puts an id back that was
    given up meanwhile (`LiveIdKept`).
17. `api/provision.py:245`: two provisions at once draw two webhook secrets, and
    the one that is kept may be the one the gateway does not use
    (`SignaturesVerify`).
18. `api/provision.py:290`: a session without a webhook may ask for no attention,
    and cannot be provisioned again (`HangIsShown`).
19. `utils/gateway.py:119`: two documents may drive one gateway session
    (`OwnSession`).

## Only model-checked, not modelled, assumed

Only model-checked: liveness (`EveryRowSettles`, `Settles`, `NeverStranded`, and
the liveness of `AtLeastOnce`), which is out of the prover's reach. Every other
property of a passing run is stated by a theorem.

Assumed of the environment:

- MariaDB at REPEATABLE READ, its default. The SUM inside the claim of a slot
  then takes shared locks; at READ COMMITTED `DailyLimitRespected` would not
  follow. A lock wait that times out, or a deadlock, is a refused claim. With
  `innodb_snapshot_isolation` on, the late ack of finding 8 and the late saves of
  findings 5 and 10 are errors instead. `SessionLifecycle` has both settings; the other
  modules assume it off, where writes are refused less often.
- Redis keeps what it is told until its TTL: a flush would forget claims and
  windows. The 24 h of a webhook claim are longer than any behaviour modelled.
- One clock. Skew between processes is not modelled.
- Every incoming message has an id. One without would pass the second gate as a
  delivery without a key passes the first.
- The cron scheduler may run a job again while the last run is alive, which is
  what the lock is for.

Not modelled, within the modelled parts:

- the weekly purges (`counters.py` 25-55): they delete final rows that nothing
  reads again;
- the reads that only choose (`cap_reached`, `can_send`, the peek at a window):
  the choice of a session is left open instead;
- an InnoDB row lock that outlives an UPDATE which matched no row, and the deadlock
  of two transactions that both hold shared locks of the SUM: a refused claim here;
- windows of different lengths on the gateway's shared key (`Window` is the same
  for all sessions);
- media re-hosting: `normalize_message_event` returns no attachment
  (`webhook_normalizer.py` 99), so nothing ever starts it;
- signatures and secrets, the webhook log, what a message says.

- of a session: its grace window and `skip_auto_heal`, which only delay the healer,
  the QR image, realtime events, `is_default` and its clearing on siblings;
- of provisioning: the re-registration of webhooks by a patch, the rate limit other
  than as a failed call;
- of sending: resolver errors, on which the callers use Meta
  (`whatsapp_message.py` 134-159, `notification.py` 91-98), the second resolution of
  `template.py` (27-60), the check of Meta's rate before a notification is routed
  (`notification.py` 55-57), media validation, permissions, flattening.

Not modelled at all: see the components of `PROJECT.json` with status
`not_modelled` and their reasons.

## Plan

Done: all components with state of their own. Next, in this order:

1. The default flag of an account's sessions, cleared on siblings by plain SQL
   beside whole-row saves.

## How to run

    tlc -workers 2 -config OutboundQueueOverlap.cfg MCOutboundQueue.tla
    tlapm OutboundQueueProofs.tla

Each `.cfg` begins with the question it asks. `PROJECT.json` lists the runs, the
mutants, the source lines of every definition, the findings, the hazards and the
theorems.
