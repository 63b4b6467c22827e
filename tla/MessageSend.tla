---------------------------- MODULE MessageSend ----------------------------
(***************************************************************************)
(* How a message of one account finds its way (routing/resolver.py,        *)
(* routing/router.py, routing/fallback.py, routing/campaign.py,            *)
(* overrides/whatsapp_message.py, notification.py, send.py, the adapters,  *)
(* and the worker's second half of queue/worker.py).                       *)
(*                                                                         *)
(* Four kinds of sender meet at the resolver: the insertion of a document, *)
(* a notification, an API call, and the worker that drains what was        *)
(* queued.  They share the account's sessions, their daily counts, the     *)
(* status cache, the resolver's cache and the key that stops an outage     *)
(* from being reported twice.  Each runs in a transaction of its own, and  *)
(* calls two gateways that no transaction takes back.                      *)
(*                                                                         *)
(* Left to other modules: the rows of the queue (OutboundQueue), the rate  *)
(* windows and the midnight reset (SendSlots; here a session has room or   *)
(* not), and how a status becomes known (SessionLifecycle).                *)
(***************************************************************************)
EXTENDS Integers, FiniteSets, Functions

CONSTANTS
    Session, Message,
    World,      \* the configurations of the account and the gateway
    Kind,       \* the kinds of message that are sent
    Cap,        \* daily_soft_cap of every session
    MaxTries,   \* attempts of the queue worker (six in the code)
    MaxEvents   \* bound: moves of the sessions, and faults

ASSUME BoundAssumption == {Cap, MaxTries, MaxEvents} \subseteq Nat
ASSUME FiniteAssumption == IsFiniteSet(Session) /\ IsFiniteSet(Message)

None == "None"
Modes == {"", "Account-level", "Message-level", "Hybrid"}

\* WhatsApp Account Provider Extension, OpenWA Gateway Settings and the links
\* of the sessions.  `mode` is the account's routing mode, or else the site's.
Worlds == [openwa: BOOLEAN, mode: Modes, allow: BOOLEAN, queue: BOOLEAN, fallback: BOOLEAN,
           linked: SUBSET Session, default: SUBSET Session, ext: Session \cup {None}]

\* `asks`: requested_provider; `mode`, `pool`: of the campaign; `random`: the
\* template's session strategy.
Requests == [asks: {"", "openwa", "meta"}, mode: Modes, pool: SUBSET Session, random: BOOLEAN]
Kinds == [via: {"document", "notification", "api"}, req: Requests]

ASSUME WorldAssumption ==
    /\ World \subseteq Worlds
    /\ \A w \in World : Cardinality(w.default) <= 1 /\ w.default \subseteq w.linked
ASSUME KindAssumption == Kind \subseteq Kinds
\* Only the documents of a bulk message belong to a campaign
\* (whatsapp_message.py:120-132).
ASSUME CampaignAssumption == \A k \in Kind : k.req.pool # {} => k.via = "document"

VARIABLES
    world,      \* the configuration: it does not change
    up,         \* sessions connected at the gateway
    believed,   \* sessions whose cached or stored status is Connected
    count,      \* messages_sent_today, committed
    cached,     \* openwa:resolver:*, [req, to, session] records
    report,     \* openwa:unavailable_reported: none, claimed, or claimed and the row committed
    kind,       \* [Message -> what it is]
    proc,       \* [Message -> the local state of whoever sends it]
    out,        \* [Message -> what went out]: history
    happened    \* how much of MaxEvents is spent

vars == <<world, up, believed, count, cached, report, kind, proc, out, happened>>

\* `to`, `session`: what the resolver said; `first`: the session a notification
\* will count; `held`: session's slot is claimed, its row locked; `alert`: an
\* uncommitted row of the Fallback Log says OpenWA is unavailable.
Proc == [pc: {"resolve", "again", "alive", "check", "reserve", "send", "meta", "adapter",
              "insert", "sent", "failed", "queued", "done", "error"},
         worker: BOOLEAN, to: {None, "openwa", "meta"}, session: Session \cup {None},
         first: Session \cup {None}, held: BOOLEAN, alert: BOOLEAN, calls: 0..1, tries: Nat]
Start == [pc |-> "resolve", worker |-> FALSE, to |-> None, session |-> None, first |-> None,
          held |-> FALSE, alert |-> FALSE, calls |-> 0, tries |-> 0]

\* Sessions that delivered, one per delivery; answers that said so; Meta sends.
Out == [from: SUBSET Session, copies: Nat, accepted: Nat, meta: Nat, unsure: BOOLEAN]
Nothing == [from |-> {}, copies |-> 0, accepted |-> 0, meta |-> 0, unsure |-> FALSE]

TypeOK ==
    /\ world \in World
    /\ up \subseteq Session /\ believed \subseteq Session
    /\ count \in [Session -> Nat]
    /\ \A c \in cached : c.req \in Requests /\ c.to \in {"openwa", "meta"}
                            /\ c.session \in Session \cup {None}
    /\ report \in {"none", "claimed", "written"}
    /\ kind \in [Message -> Kind]
    /\ proc \in [Message -> Proc]
    /\ out \in [Message -> Out]
    /\ happened \in 0..MaxEvents

-----------------------------------------------------------------------------
(* routing/resolver.py: what a request for a provider is answered.         *)

Mode(req) == IF req.mode # "" THEN req.mode ELSE world.mode
EffectiveMode(req) == IF req.random /\ Mode(req) = "" THEN "Message-level" ELSE Mode(req)

\* The account decides; under Message-level a caller may ask otherwise.
Asks(req, provider) == req.asks = provider /\ Mode(req) = "Message-level" /\ world.allow
OverOpenWA(req) == IF world.openwa THEN ~Asks(req, "meta") ELSE Asks(req, "openwa")

HasRoom(s) == count[s] < Cap
Permitted(req) == IF req.pool = {} THEN world.linked ELSE world.linked \cap req.pool
Usable(req) == {s \in Permitted(req) \cap believed : HasRoom(s)}

\* The sessions that carry the least; an arbitrary one of them is taken.
Spread(S) == {s \in S : \A t \in S : count[s] <= count[t]}

OneSession(default, usable) == IF default # {} THEN default ELSE usable
NoSpill(default, usable) == default \cap usable        \* mutant: the default or nothing
Spill(default, usable) == IF default \cap usable # {} THEN default ELSE Spread(usable)

\* The sessions _resolve_openwa may answer; none of them means Meta.
Candidates(req) ==
    LET default == world.default \cap Permitted(req)
        mode == EffectiveMode(req)
    IN  IF Permitted(req) = {}
          THEN IF req.pool = {} THEN {world.ext} \ {None} ELSE {}
        ELSE IF mode = "Message-level" THEN Spread(Usable(req))
        ELSE IF mode = "Hybrid" THEN Spill(default, Usable(req))
        ELSE OneSession(default, Usable(req))

Answer == [to: {"openwa", "meta"}, session: Session \cup {None}]
Meta == [to |-> "meta", session |-> None]
Answers(req) ==
    IF ~OverOpenWA(req) \/ Candidates(req) = {} THEN {Meta}
    ELSE {[to |-> "openwa", session |-> s] : s \in Candidates(req)}
Unavailable(req) == OverOpenWA(req) /\ Candidates(req) = {}

\* A mode that spreads is decided message by message and never cached.
Caches(req) ==
    (IF world.openwa THEN EffectiveMode(req) ELSE Mode(req)) \notin {"Message-level", "Hybrid"}

KeyWithoutPool(req) == [req EXCEPT !.pool = {}, !.mode = ""]   \* mutant: the campaign is not in the key
Key(req) == req
Hits(req) == {c \in cached : c.req = Key(req)}

\* resolve_provider: m's transaction may get an uncommitted report of an
\* outage, once per key; next[a] is m's state after the answer a.
Resolves(m, req, next) ==
    IF Hits(req) # {}
    THEN /\ \E c \in Hits(req) : proc' = [proc EXCEPT ![m] = next[[to |-> c.to, session |-> c.session]]]
         /\ UNCHANGED <<cached, report>>
    ELSE \E a \in Answers(req) :
         LET reports == Unavailable(req) /\ report = "none"
         IN  /\ cached' = IF Caches(req)
                          THEN cached \cup {[req |-> Key(req), to |-> a.to, session |-> a.session]}
                          ELSE cached
             /\ report' = IF reports THEN "claimed" ELSE report
             /\ proc' = [proc EXCEPT ![m] = [next[a] EXCEPT !.alert = @ \/ reports]]

-----------------------------------------------------------------------------
Happens == happened < MaxEvents /\ happened' = happened + 1

Via(m, ways) == ~proc[m].worker /\ kind[m].via \in ways
To(m, pc) == proc' = [proc EXCEPT ![m].pc = pc]
Locked(m, s) == \E q \in Message \ {m} : proc[q].held /\ proc[q].session = s

\* The end of m's transaction.
Commits(m) == report' = IF proc[m].alert THEN "written" ELSE report
Ends(m, pc) == proc' = [proc EXCEPT ![m] = [@ EXCEPT !.pc = pc, !.held = FALSE, !.alert = FALSE]]

Init ==
    /\ world \in World
    /\ up \in SUBSET Session
    /\ believed = up
    /\ count = [s \in Session |-> 0]
    /\ cached = {}
    /\ report = "none"
    /\ kind \in [Message -> Kind]
    /\ proc = [m \in Message |-> Start]
    /\ out = [m \in Message |-> Nothing]
    /\ happened = 0

-----------------------------------------------------------------------------
(* send_outgoing, notify, send_whatsapp_message: up to the provider.       *)

AfterResolve(m) == [a \in Answer |->
    [proc[m] EXCEPT !.to = a.to, !.session = a.session,
        !.first = IF Via(m, {"notification"}) THEN a.session ELSE None,
        !.pc = IF a.to = "meta" THEN IF Via(m, {"api"}) THEN "adapter" ELSE "meta"
               ELSE IF Via(m, {"document"}) THEN "alive"
               ELSE IF Via(m, {"notification"}) THEN "again" ELSE "send"]]

Resolve(m) ==
    /\ proc[m].pc = "resolve"
    /\ Resolves(m, kind[m].req, AfterResolve(m))
    /\ UNCHANGED <<world, up, believed, count, kind, out, happened>>

\* route_send_text without a session_override resolves again: for the account,
\* whatever the campaign says.
ResolveAgain(m) ==
    LET req == [asks |-> IF proc[m].worker THEN "openwa" ELSE "", mode |-> "", pool |-> {},
                random |-> kind[m].req.random]
        next == [a \in Answer |->
                    [proc[m] EXCEPT !.to = a.to, !.session = a.session,
                                    !.pc = IF a.to = "meta" THEN "adapter" ELSE "send"]]
    IN  /\ proc[m].pc = "again"
        /\ Resolves(m, req, next)
        /\ UNCHANGED <<world, up, believed, count, kind, out, happened>>

\* is_session_alive: the cached status, or the gateway's, which is cached.
Alive(s, alive) ==
    \/ alive = (s \in believed) /\ UNCHANGED believed
    \/ alive = (s \in up) /\ believed' = IF alive THEN believed \cup {s} ELSE believed \ {s}

\* _should_queue and _enqueue_for_later.
ShouldQueue(m) ==
    /\ proc[m].pc = "alive"
    /\ IF world.queue
       THEN \E alive \in BOOLEAN :
               /\ Alive(proc[m].session, alive)
               /\ IF alive THEN To(m, "reserve") /\ UNCHANGED report
                           ELSE Ends(m, "queued") /\ Commits(m)
       ELSE To(m, "reserve") /\ UNCHANGED <<believed, report>>
    /\ UNCHANGED <<world, up, count, cached, kind, out, happened>>

\* reserve_slot: the UPDATE that counts also locks the row until the end.
Reserve(m) ==
    LET s == proc[m].session IN
    /\ proc[m].pc = "reserve"
    /\ ~Locked(m, s)
    /\ HasRoom(s)
    /\ proc' = [proc EXCEPT ![m].held = TRUE, ![m].pc = "send"]
    /\ UNCHANGED <<world, up, believed, count, cached, report, kind, out, happened>>

\* _handle_cap_reached; the worker leaves the row for later.
CapReached(m) ==
    LET s == proc[m].session IN
    /\ proc[m].pc = "reserve"
    /\ ~Locked(m, s)
    /\ ~HasRoom(s)
    /\ IF proc[m].worker \/ world.queue THEN Ends(m, "queued") /\ Commits(m)
       ELSE To(m, "meta") /\ UNCHANGED report
    /\ UNCHANGED <<world, up, believed, count, cached, kind, out, happened>>

-----------------------------------------------------------------------------
(* _try_openwa_then_fallback and the adapters.                             *)

\* meta_fallback_fn is the document's own upstream send, or the MetaAdapter.
MetaFallback(m) == IF Via(m, {"document"}) THEN "meta" ELSE "adapter"

GatewayAccepts(m) ==
    LET s == proc[m].session IN
    /\ proc[m].pc = "send"
    /\ s \in up
    /\ out' = [out EXCEPT ![m].from = @ \cup {s}, ![m].copies = @ + 1, ![m].accepted = @ + 1]
    /\ To(m, "sent")
    /\ UNCHANGED <<world, up, believed, count, cached, report, kind, happened>>

\* An error status: one of _OPENWA_ERRORS.
GatewayRefuses(m) ==
    /\ proc[m].pc = "send"
    /\ IF proc[m].session \in up THEN Happens ELSE UNCHANGED happened
    /\ To(m, IF world.fallback THEN MetaFallback(m) ELSE "failed")
    /\ UNCHANGED <<world, up, believed, count, cached, report, kind, out>>

\* httpx raises: the gateway may have sent it.  Two calls, one for the worker;
\* then a failure that does not fall back.
CallsThrice(m) == proc[m].calls < 2 /\ ~proc[m].worker  \* mutant: one attempt too many
CallsAgain(m) == proc[m].calls = 0 /\ ~proc[m].worker
NoAnswer(m) ==
    LET s == proc[m].session
        more == CallsAgain(m)
    IN  /\ proc[m].pc = "send"
        /\ Happens
        /\ \/ UNCHANGED out
           \/ s \in up /\ out' = [out EXCEPT ![m].from = @ \cup {s}, ![m].copies = @ + 1,
                                             ![m].unsure = TRUE]
        /\ proc' = [proc EXCEPT ![m].calls = IF more THEN @ + 1 ELSE 0,
                                ![m].pc = IF more THEN "send" ELSE "failed"]
        /\ UNCHANGED <<world, up, believed, count, cached, report, kind>>

\* _build_openwa_adapter finds no gateway or no session.
NoAdapter(m) ==
    /\ proc[m].pc = "send" /\ proc[m].calls = 0
    /\ Happens
    /\ To(m, MetaFallback(m))
    /\ UNCHANGED <<world, up, believed, count, cached, report, kind, out>>

\* Upstream's send.  The adapter inserts its document after it.
MetaSends(m) ==
    /\ proc[m].pc \in {"meta", "adapter"}
    /\ out' = [out EXCEPT ![m].meta = @ + 1]
    /\ proc' = [proc EXCEPT ![m].to = "meta",
                            ![m].pc = IF proc[m].pc = "meta" THEN "sent" ELSE "insert"]
    /\ UNCHANGED <<world, up, believed, count, cached, report, kind, happened>>

\* The rate limit, or Meta's own refusal.
MetaFails(m) ==
    /\ proc[m].pc \in {"meta", "adapter"}
    /\ Happens
    /\ To(m, "failed")
    /\ UNCHANGED <<world, up, believed, count, cached, report, kind, out>>

\* doc.insert() comes to send_outgoing again, which leaves a message with a
\* message_id alone.
AdapterSendsAgain(m) ==                                \* mutant: only templates are left alone
    /\ proc[m].pc = "insert"
    /\ out' = [out EXCEPT ![m].meta = @ + 1]
    /\ To(m, "sent")
    /\ UNCHANGED <<world, up, believed, count, cached, report, kind, happened>>
AdapterInserts(m) ==
    /\ proc[m].pc = "insert"
    /\ To(m, "sent")
    /\ UNCHANGED <<world, up, believed, count, cached, report, kind, out, happened>>

\* The insertion itself fails: the caller is told that nothing was sent.
AdapterInsertFails(m) ==
    /\ proc[m].pc = "insert"
    /\ Happens
    /\ out' = [out EXCEPT ![m].unsure = TRUE]
    /\ To(m, "failed")
    /\ UNCHANGED <<world, up, believed, count, cached, report, kind>>

-----------------------------------------------------------------------------
(* The end of a send.                                                      *)

\* The session a send that went well is counted on; a notification counts the
\* one it resolved first.
CountedAlways(m) ==                                    \* mutant: a fallback keeps its slot
    IF Via(m, {"notification"}) THEN {proc[m].first} \ {None}
    ELSE IF proc[m].held THEN {proc[m].session} ELSE {}
Counted(m) ==
    IF proc[m].to # "openwa" THEN {}
    ELSE IF Via(m, {"notification"}) THEN {proc[m].first}
    ELSE IF proc[m].held THEN {proc[m].session} ELSE {}

Succeeds(m) ==
    /\ proc[m].pc = "sent"
    /\ \A s \in Counted(m) : ~Locked(m, s)
    /\ count' = [s \in Session |-> IF s \in Counted(m) THEN count[s] + 1 ELSE count[s]]
    /\ Commits(m)
    /\ Ends(m, "done")
    /\ UNCHANGED <<world, up, believed, cached, kind, out, happened>>

\* frappe.throw rolls back; a notification only logs; the worker tries again.
Fails(m) ==
    /\ proc[m].pc = "failed"
    /\ IF proc[m].worker \/ Via(m, {"notification"}) THEN Commits(m) ELSE UNCHANGED report
    /\ Ends(m, IF proc[m].worker /\ proc[m].tries < MaxTries THEN "queued" ELSE "error")
    /\ UNCHANGED <<world, up, believed, count, cached, kind, out, happened>>

\* Something else in the transaction of the insertion fails, after the send.
RollsBack(m) ==
    /\ proc[m].pc = "sent" /\ ~proc[m].worker
    /\ Happens
    /\ Ends(m, "error")
    /\ UNCHANGED <<world, up, believed, count, cached, report, kind, out>>

-----------------------------------------------------------------------------
(* The queue worker takes up a queued message (see OutboundQueue).         *)
Drain(m) ==
    LET next == [a \in Answer |->
                    [proc[m] EXCEPT !.worker = TRUE, !.to = a.to, !.session = a.session,
                        !.pc = IF a.to = "openwa" THEN "check" ELSE "again",
                        !.tries = IF a.to = "openwa" THEN @ ELSE @ + 1]]
    IN  /\ proc[m].pc = "queued" /\ proc[m].tries < MaxTries
        /\ Resolves(m, [kind[m].req EXCEPT !.asks = "openwa"], next)
        /\ UNCHANGED <<world, up, believed, count, kind, out, happened>>

\* An unhealthy session or a reached cap leaves the row; else it is claimed.
DrainChecks(m) ==
    LET s == proc[m].session IN
    /\ proc[m].pc = "check"
    /\ \E alive \in BOOLEAN :
          /\ Alive(s, alive)
          /\ IF alive /\ HasRoom(s)
             THEN proc' = [proc EXCEPT ![m].pc = "reserve", ![m].tries = @ + 1]
             ELSE To(m, "queued")
    /\ UNCHANGED <<world, up, count, cached, report, kind, out, happened>>

-----------------------------------------------------------------------------
(* The environment.                                                        *)
SessionMoves ==
    /\ Happens
    /\ \E s \in Session : up' = IF s \in up THEN up \ {s} ELSE up \cup {s}
    /\ UNCHANGED <<world, believed, count, cached, report, kind, proc, out>>

StatusIsLearnt ==
    /\ believed # up
    /\ believed' = up
    /\ UNCHANGED <<world, up, count, cached, report, kind, proc, out, happened>>

KeysExpire ==
    /\ \/ cached # {} /\ cached' = {} /\ UNCHANGED report
       \/ report # "none" /\ report' = "none" /\ UNCHANGED cached
    /\ UNCHANGED <<world, up, believed, count, kind, proc, out, happened>>

Step(m) ==
    \/ Resolve(m) \/ ResolveAgain(m) \/ ShouldQueue(m) \/ Reserve(m) \/ CapReached(m)
    \/ GatewayAccepts(m) \/ GatewayRefuses(m) \/ NoAnswer(m) \/ NoAdapter(m)
    \/ MetaSends(m) \/ MetaFails(m) \/ AdapterInserts(m) \/ AdapterInsertFails(m)
    \/ Succeeds(m) \/ Fails(m) \/ RollsBack(m) \/ Drain(m) \/ DrainChecks(m)

Next == SessionMoves \/ StatusIsLearnt \/ KeysExpire \/ \E m \in Message : Step(m)

Spec == Init /\ [][Next]_vars

-----------------------------------------------------------------------------
Sends(m) == out[m].copies + out[m].meta

\* A message goes out once, over one provider, unless somebody was told that
\* it did not: no fallback, re-entered insertion (whatsapp_message.py:56-72),
\* retry or drain sends what is known to be sent (worker.py:195-199).
SentOnce == \A m \in Message : out[m].unsure \/ Sends(m) <= 1

\* session_cap.py:13: "A claim that does not result in an OpenWA send is
\* released again", through fallback, refusal, rollback and retry; and each
\* document that went out over OpenWA is counted on its own session.
Sent(s) == {m \in Message : Via(m, {"document"}) /\ proc[m].pc = "done"
                               /\ proc[m].to = "openwa" /\ proc[m].session = s}
Accepted == [m \in Message |-> out[m].accepted]
CountsArePaid ==
    /\ SumFunctionOnSet(count, Session) <= SumFunctionOnSet(Accepted, Message)
    /\ \A s \in Session : Cardinality(Sent(s)) <= count[s]

\* resolver.py:221-226: a message of a campaign is carried by the numbers the
\* campaign named, as long as it is not queued.
InPool(m) == kind[m].req.pool = {} \/ out[m].from \subseteq kind[m].req.pool
PoolHonoured == \A m \in Message : proc[m].worker \/ InPool(m)

\* resolver.py:209-211: "Meta appears here only when nothing can carry the
\* message": no resolution for OpenWA turns to Meta past a session of its
\* account, or of its pool, that is healthy and has room.
MetaIsLastResort == [][\A m \in Message :
    LET req == kind[m].req IN
    (/\ proc[m].pc = "resolve" /\ proc'[m].to = "meta"
     /\ OverOpenWA(req) /\ Hits(req) = {}) => Permitted(req) \cap {s \in believed : HasRoom(s)} = {}]_vars

-----------------------------------------------------------------------------
(* What the code's comments say, and the code does not.                    *)

\* worker.py:108-112: the pool holds for what the worker drains too.
PoolHonouredInQueue == \A m \in Message : InPool(m)

\* resolver.py:333-334: "Losing the alert is worse than writing it twice": when
\* the key says an outage is reported, the row is there or about to be.
OutageReported == report = "claimed" => \E m \in Message : proc[m].alert

=============================================================================
