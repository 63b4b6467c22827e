---------------------------- MODULE Provisioning ----------------------------
(***************************************************************************)
(* Registering sessions with the gateway and giving them up again          *)
(* (api/provision.py, openwa_session.py, webhook.py's secrets).            *)
(*                                                                         *)
(* A document of a session and the gateway's own session are two records   *)
(* of one thing, tied only by the id the document keeps.  The job queued   *)
(* by after_insert, the "Create Session on Gateway" button, "Deregister",  *)
(* the deletion of the document and the status sync of an open form all    *)
(* work on that tie, each in several gateway calls with nothing between    *)
(* them locked.                                                            *)
(*                                                                         *)
(* A step here is one gateway call, or one commit.  A gateway name is the  *)
(* slug of the site and the session name, and two documents may have the   *)
(* same: names that differ in punctuation, or a document made again after  *)
(* the first was deleted.                                                  *)
(***************************************************************************)
EXTENDS Naturals, FiniteSets

CONSTANTS
    Document,     \* names of OpenWA Session documents
    Request,      \* web requests that may be served at the same time
    GatewayName,  \* [Document -> the name build_gateway_session_name gives]
    MaxId,        \* bound: gateway sessions that someone still refers to
    MaxEvents     \* bound: faults, and what users do of their own accord

ASSUME MaxAssumption == MaxId \in Nat \ {0} /\ MaxEvents \in Nat
ASSUME ActorAssumption == Document # {} /\ Document \cap Request = {}

Actor == Document \cup Request    \* the job of a document goes by its name
Id == 1..MaxId
None == 0                         \* no id: gateway_session_id is empty
NoSecret == <<>>
Secret == (Document \X Actor) \cup {NoSecret}   \* whose it is and who drew it
NameOfGateway == {GatewayName[d] : d \in Document}

VARIABLES
    gw,       \* [Id -> the gateway's session]: name, live, and the secrets its webhooks sign with
    row,      \* [Document -> the committed row]
    secret,   \* [Document -> webhook_secret in __Auth]
    proc,     \* [Actor -> its local state]
    lost,     \* history: ids lost to a death before the commit or a refused DELETE
    removed,  \* history: gateway names of documents somebody began to deregister or delete
    happened  \* how much of MaxEvents is spent

vars == <<gw, row, secret, proc, lost, removed, happened>>

GwSession == [name: NameOfGateway, live: BOOLEAN, hooks: SUBSET Secret]
NoRow == [is |-> "new", id |-> None, attention |-> FALSE]
GoneRow == [NoRow EXCEPT !.is = "gone"]
Row == [is: {"here"}, id: Id \cup {None}, attention: BOOLEAN] \cup {NoRow, GoneRow}

\* `warned`: the uncommitted "Webhook not registered" of _register_webhook.
ProcState == [pc: {"idle", "queued", "died", "create", "find", "record", "secret", "mint",
                   "register", "start", "finish", "delete", "reset", "release", "trash", "sync"},
              doc: Document, id: Id \cup {None}, secret: Secret, warned: BOOLEAN]
Fresh(d, pc) == [pc |-> pc, doc |-> d, id |-> None, secret |-> NoSecret, warned |-> FALSE]
AnyDocument == CHOOSE d \in Document : TRUE
IdleProc == Fresh(AnyDocument, "idle")

TypeOK ==
    /\ gw \in [Id -> GwSession]
    /\ row \in [Document -> Row]
    /\ secret \in [Document -> Secret]
    /\ proc \in [Actor -> ProcState]
    /\ lost \subseteq Id
    /\ removed \subseteq NameOfGateway
    /\ happened \in 0..MaxEvents

-----------------------------------------------------------------------------
Happens == happened < MaxEvents /\ happened' = happened + 1

To(p, pc) == proc' = [proc EXCEPT ![p].pc = pc]
Holding(p, pc, g) == proc' = [proc EXCEPT ![p].pc = pc, ![p].id = g]
Ends(p) == proc' = [proc EXCEPT ![p] = IdleProc]
Doc(p) == proc[p].doc
Here(d) == row[d].is = "here"
Working(p) == proc[p].pc \notin {"idle", "queued", "died"}
Busy(d) == \E p \in Actor : (Working(p) \/ proc[p].pc = "queued") /\ Doc(p) = d

\* p's transaction has an uncommitted UPDATE of the row: other writers wait.
Locked(p) == \E q \in Actor \ {p} : proc[q].warned /\ Doc(q) = Doc(p)

\* UPDATE ... WHERE name = d, which a deleted row does not match.
Upsert(d, new) == row' = [row EXCEPT ![d] = new]     \* mutant: a deleted document is written
Update(d, new) == row' = IF Here(d) THEN [row EXCEPT ![d] = new] ELSE row

\* The gateway's names are unique among its sessions.
Named(name) == {g \in Id : gw[g].live /\ gw[g].name = name}

\* An id nobody refers to any more: it stands for a new UUID.
Unused(g) ==
    /\ ~gw[g].live
    /\ \A d \in Document : row[d].id # g
    /\ \A p \in Actor : proc[p].id # g

Init ==
    /\ gw = [g \in Id |-> [name |-> GatewayName[AnyDocument], live |-> FALSE, hooks |-> {}]]
    /\ row = [d \in Document |-> NoRow]
    /\ secret = [d \in Document |-> NoSecret]
    /\ proc = [p \in Actor |-> IdleProc]
    /\ lost = {}
    /\ removed = {}
    /\ happened = 0

-----------------------------------------------------------------------------
(* after_insert and the two ways into _do_provision.                       *)

\* The job starts after the insertion's commit; it may fail to be queued.
Insert(d) ==
    /\ row[d].is = "new"
    /\ row' = [row EXCEPT ![d].is = "here"]
    /\ proc' \in {[proc EXCEPT ![d] = Fresh(d, pc)] : pc \in {"queued", "died"}}
    /\ UNCHANGED <<gw, secret, lost, removed, happened>>

\* provision_session_async and _do_provision up to the first call: nothing to
\* do for a document that is gone or that the button has registered already.
JobStarts(d) ==
    /\ proc[d].pc = "queued"
    /\ To(d, IF Here(d) /\ row[d].id = None THEN "create" ELSE "idle")
    /\ UNCHANGED <<gw, row, secret, lost, removed, happened>>

\* The button, which the form shows only while the document has no id.
ButtonStarts(r, d) ==
    /\ proc[r].pc = "idle"
    /\ Here(d) /\ row[d].id = None
    /\ proc' = [proc EXCEPT ![r] = Fresh(d, "create")]
    /\ UNCHANGED <<gw, row, secret, lost, removed>>

\* An exception.  The request's transaction is rolled back; the job writes the
\* failure on the document and commits, the warning of its own transaction too.
Fails(p) ==
    /\ ~Locked(p)
    /\ Ends(p)
    /\ IF p \in Document THEN Update(p, [row[p] EXCEPT !.attention = TRUE]) ELSE UNCHANGED row

-----------------------------------------------------------------------------
(* _create_or_find_session, and the commit of the id.                      *)

CreateSession(p) ==
    LET name == GatewayName[Doc(p)] IN
    /\ proc[p].pc = "create"
    /\ \/ /\ Named(name) = {}
          /\ \E g \in Id :
                /\ Unused(g) /\ \A f \in 1..(g - 1) : ~Unused(f)
                /\ gw' = [gw EXCEPT ![g] = [name |-> name, live |-> TRUE, hooks |-> {}]]
                /\ lost' = lost \ {g}
                /\ Holding(p, "record", g)
       \/ /\ Named(name) # {}                          \* 409
          /\ To(p, "find")
          /\ UNCHANGED <<gw, lost>>
    /\ UNCHANGED <<row, secret, removed, happened>>

\* GET /api/sessions: the one with the name, unless it went away meanwhile.
FindNothing(p) ==                                      \* mutant: no lookup after a 409
    /\ proc[p].pc = "find"
    /\ Fails(p)
    /\ UNCHANGED <<gw, secret, lost, removed, happened>>
FindSession(p) ==
    LET found == Named(GatewayName[Doc(p)]) IN
    /\ proc[p].pc = "find"
    /\ IF found = {} THEN Fails(p) ELSE \E g \in found : Holding(p, "record", g) /\ UNCHANGED row
    /\ UNCHANGED <<gw, secret, lost, removed, happened>>

RecordLater(p) ==                                      \* mutant: only the last write has the id
    /\ proc[p].pc = "record"
    /\ To(p, "secret")
    /\ UNCHANGED <<gw, row, secret, lost, removed, happened>>
RecordId(p) ==
    /\ proc[p].pc = "record"
    /\ ~Locked(p)
    /\ Update(Doc(p), [row[Doc(p)] EXCEPT !.id = proc[p].id])
    /\ To(p, "secret")
    /\ UNCHANGED <<gw, secret, lost, removed, happened>>

-----------------------------------------------------------------------------
(* ensure_session_webhook_secret, _register_webhook, _start_session.       *)

ReadSecret(p) ==
    LET held == secret[Doc(p)] IN
    /\ proc[p].pc = "secret"
    /\ proc' = [proc EXCEPT ![p].secret = held,
                            ![p].pc = IF held = NoSecret THEN "mint" ELSE "register"]
    /\ UNCHANGED <<gw, row, secret, lost, removed, happened>>

MintSecret(p) ==
    LET drawn == <<Doc(p), p>> IN
    /\ proc[p].pc = "mint"
    /\ secret' = [secret EXCEPT ![Doc(p)] = drawn]
    /\ proc' = [proc EXCEPT ![p].secret = drawn, ![p].pc = "register"]
    /\ UNCHANGED <<gw, row, lost, removed, happened>>

\* The secret cannot be read, which is taken for none; or it cannot be stored, or
\* something fails once it is, and the webhook is registered without one.
SecretFails(p) ==
    /\ Happens
    /\ \/ /\ proc[p].pc = "secret"
          /\ To(p, "mint")
          /\ UNCHANGED secret
       \/ /\ proc[p].pc = "mint"
          /\ To(p, "register")
          /\ secret' \in {secret, [secret EXCEPT ![Doc(p)] = <<Doc(p), p>>]}
    /\ UNCHANGED <<gw, row, lost, removed>>

\* 201, or 409 where our address has a webhook: which of the two a second
\* registration gets is the gateway's affair.
RegisterWebhook(p) ==
    LET g == proc[p].id IN
    /\ proc[p].pc = "register"
    /\ gw[g].live
    /\ \/ gw' = [gw EXCEPT ![g].hooks = @ \cup {proc[p].secret}]
       \/ gw[g].hooks # {} /\ UNCHANGED gw
    /\ To(p, "start")
    /\ UNCHANGED <<row, secret, lost, removed, happened>>

\* The callback address is refused, or the session is gone: the warning is an
\* UPDATE in p's transaction, and provisioning goes on.
Refused(p, g) == IF gw[g].live THEN Happens ELSE UNCHANGED happened
WebhookRefused(p) ==
    /\ proc[p].pc = "register"
    /\ ~Locked(p)
    /\ Refused(p, proc[p].id)
    /\ proc' = [proc EXCEPT ![p].pc = "start", ![p].warned = TRUE]
    /\ UNCHANGED <<gw, row, secret, lost, removed>>

\* 200, or 400: it runs already.  Any other answer is an exception.
StartSession(p) ==
    /\ proc[p].pc = "start"
    /\ IF gw[proc[p].id].live THEN To(p, "finish") /\ UNCHANGED row ELSE Fails(p)
    /\ UNCHANGED <<gw, secret, lost, removed, happened>>

\* The fetches, the last db_set and the commit: it has the id in it again, not
\* the attention flag.
FinishClears(p) ==                                     \* mutant: the flag is reset with last_error
    /\ proc[p].pc = "finish"
    /\ ~Locked(p)
    /\ Update(Doc(p), [row[Doc(p)] EXCEPT !.id = proc[p].id, !.attention = FALSE])
    /\ Ends(p)
    /\ UNCHANGED <<gw, secret, lost, removed, happened>>
Finish(p) ==
    /\ proc[p].pc = "finish"
    /\ ~Locked(p)
    /\ Update(Doc(p), [row[Doc(p)] EXCEPT !.id = proc[p].id, !.attention = @ \/ proc[p].warned])
    /\ Ends(p)
    /\ UNCHANGED <<gw, secret, lost, removed, happened>>

-----------------------------------------------------------------------------
(* Giving a session up: deprovision_session, and the document's deletion.  *)

DeregisterStarts(r, d) ==
    /\ proc[r].pc = "idle"
    /\ Here(d) /\ row[d].id # None
    /\ proc' = [proc EXCEPT ![r] = [Fresh(d, "delete") EXCEPT !.id = row[d].id]]
    /\ removed' = removed \cup {GatewayName[d]}
    /\ UNCHANGED <<gw, row, secret, lost>>

\* on_trash: with an id the gateway is told before the row is gone.
TrashStarts(r, d) ==
    /\ Happens
    /\ proc[r].pc = "idle"
    /\ Here(d)
    /\ proc' = [proc EXCEPT ![r] = [Fresh(d, IF row[d].id = None THEN "trash" ELSE "release")
                                       EXCEPT !.id = row[d].id]]
    /\ removed' = removed \cup {GatewayName[d]}
    /\ UNCHANGED <<gw, row, secret, lost>>

AfterDelete(pc) == IF pc = "delete" THEN "reset" ELSE "trash"

\* DELETE /api/sessions/:id; a 404 is as good.
GatewayDeletes(r) ==
    /\ proc[r].pc \in {"delete", "release"}
    /\ gw' = [gw EXCEPT ![proc[r].id].live = FALSE, ![proc[r].id].hooks = {}]
    /\ To(r, AfterDelete(proc[r].pc))
    /\ UNCHANGED <<row, secret, lost, removed, happened>>

\* An exception, or an answer that is not looked at: logged at most, and the
\* document lets go of the id all the same.
GatewayKeeps(r) ==
    /\ proc[r].pc \in {"delete", "release"}
    /\ gw[proc[r].id].live
    /\ Happens
    /\ lost' = lost \cup {proc[r].id}
    /\ To(r, AfterDelete(proc[r].pc))
    /\ UNCHANGED <<gw, row, secret, removed>>

ResetRow(r) ==
    /\ proc[r].pc = "reset"
    /\ ~Locked(r)
    /\ Update(Doc(r), [row[Doc(r)] EXCEPT !.id = None])
    /\ Ends(r)
    /\ UNCHANGED <<gw, secret, lost, removed, happened>>

DeleteRow(r) ==
    /\ proc[r].pc = "trash"
    /\ ~Locked(r)
    /\ Update(Doc(r), GoneRow)
    /\ secret' = [secret EXCEPT ![Doc(r)] = NoSecret]
    /\ Ends(r)
    /\ UNCHANGED <<gw, lost, removed, happened>>

\* Another document links to this one: the deletion is refused and rolled
\* back, after the gateway's session is gone.
DeleteRefused(r) ==
    /\ proc[r].pc = "trash"
    /\ Ends(r)
    /\ UNCHANGED <<gw, row, secret, lost, removed, happened>>

-----------------------------------------------------------------------------
(* A request that saves the whole row as it read it (SessionLifecycle): the *)
(* saves above do not change `modified`, so nothing refuses it.            *)
SyncReads(r, d) ==
    /\ Happens
    /\ proc[r].pc = "idle"
    /\ Here(d) /\ row[d].id # None
    /\ proc' = [proc EXCEPT ![r] = [Fresh(d, "sync") EXCEPT !.id = row[d].id]]
    /\ UNCHANGED <<gw, row, secret, lost, removed>>

\* before_save sets the flag by the status alone.
SyncSaves(r) ==
    /\ proc[r].pc = "sync"
    /\ ~Locked(r)
    /\ \E flag \in BOOLEAN :
          Update(Doc(r), [row[Doc(r)] EXCEPT !.id = proc[r].id, !.attention = flag])
    /\ Ends(r)
    /\ UNCHANGED <<gw, secret, lost, removed, happened>>

-----------------------------------------------------------------------------
(* The environment.                                                        *)

\* A gateway call that gets no answer, or is refused; the rate limit.
CallFails(p) ==
    /\ proc[p].pc \in {"create", "find", "register", "start"}
    /\ Happens
    /\ Fails(p)
    /\ UNCHANGED <<gw, secret, lost, removed>>

\* The process is killed: what it has not committed is gone, the id of a
\* session it has just created too.
Dies(p) ==
    /\ Working(p)
    /\ Happens
    /\ proc' = [proc EXCEPT ![p] = IF p \in Document THEN [IdleProc EXCEPT !.pc = "died"] ELSE IdleProc]
    /\ lost' = IF proc[p].pc = "record" THEN lost \cup {proc[p].id} ELSE lost
    /\ UNCHANGED <<gw, row, secret, removed>>

-----------------------------------------------------------------------------
\* What a process does when it is left to it.
Works(p) ==
    \/ CreateSession(p) \/ FindSession(p) \/ RecordId(p) \/ ReadSecret(p) \/ MintSecret(p)
    \/ RegisterWebhook(p) \/ StartSession(p) \/ Finish(p)
    \/ (proc[p].pc = "register" /\ ~gw[proc[p].id].live /\ WebhookRefused(p))
    \/ GatewayDeletes(p) \/ ResetRow(p) \/ DeleteRow(p) \/ SyncSaves(p)
    \/ (p \in Document /\ JobStarts(p))

\* An operator who sees nobody at work on a document without an id presses
\* "Create Session on Gateway", and deregisters a session the gateway has lost.
OperatorRetries(d) ==
    /\ ~Busy(d)
    /\ \E r \in Request :
          \/ ButtonStarts(r, d)
          \/ row[d].id # None /\ ~gw[row[d].id].live /\ DeregisterStarts(r, d)
    /\ UNCHANGED happened

\* Or does either at any other time.
OperatorActs(r, d) == Happens /\ (ButtonStarts(r, d) \/ DeregisterStarts(r, d))

Next ==
    \/ \E d \in Document : Insert(d) \/ OperatorRetries(d)
    \/ \E r \in Request, d \in Document :
          OperatorActs(r, d) \/ TrashStarts(r, d) \/ SyncReads(r, d)
    \/ \E r \in Request : GatewayKeeps(r) \/ DeleteRefused(r)
    \/ \E p \in Actor :
          Works(p) \/ SecretFails(p) \/ WebhookRefused(p) \/ CallFails(p) \/ Dies(p)

Spec == Init /\ [][Next]_vars

Fairness ==
    /\ \A p \in Actor : WF_vars(Works(p))
    /\ \A d \in Document : WF_vars(OperatorRetries(d))
FairSpec == Spec /\ Fairness

-----------------------------------------------------------------------------
\* "Sessions accumulate on the gateway with nothing pointing at them"
\* (provision.py:126-132): a session of the gateway that no document names is
\* about to be recorded, or was lost by a process that died before the commit
\* or by a DELETE the gateway refused; or somebody was deregistering or
\* deleting a document of its name, which nothing orders with provisioning.
Orphan(g) == gw[g].live /\ \A d \in Document : row[d].id # g
OrphansExplained == \A g \in Id : Orphan(g) =>
    \/ \E p \in Actor : proc[p].pc \in {"record", "delete", "release"} /\ proc[p].id = g
    \/ g \in lost
    \/ gw[g].name \in removed

\* provision.py:184-185: retrying a failed provision never strands the
\* document.  Whatever fails, dies or overlaps, an operator who goes on
\* pressing ends with a document that names a session the gateway has.
NeverStranded == \A d \in Document :
    <>[](Here(d) => row[d].id # None /\ gw[row[d].id].live)

\* provision.py:54-60, 287-290: an auto-provision that ends, other than by
\* death, and did not get the webhook registered leaves the attention flag on
\* the document: the operator is told why no QR code appears.
JobLeavesWord == [][\A d \in Document :
    (Working(d) /\ proc'[d].pc = "idle" /\ row'[d].is = "here") =>
        \/ row'[d].attention
        \/ proc[d].pc = "finish" /\ ~proc[d].warned]_vars

-----------------------------------------------------------------------------
(* What the code's comments say, and the code does not.                    *)

\* provision.py:126-132: no provisioning overwrites the id of a live session.
LiveIdKept == [][\A d \in Document :
    (row[d].id # None /\ gw[row[d].id].live) => row'[d].id \in {row[d].id, None}]_vars

\* provision.py:290: "Leaving that in the Error Log only is how it goes
\* unnoticed": a session without a webhook that nobody is at work on asks for
\* attention.
HangIsShown == \A d \in Document :
    (Here(d) /\ row[d].id # None /\ gw[row[d].id].live /\ gw[row[d].id].hooks = {} /\ ~Busy(d))
        => row[d].attention

\* provision.py:223-227: the signature of a delivery proves which session sent
\* it: what a webhook signs with is the secret of the document that is tried.
SignaturesVerify == \A d \in Document :
    (Here(d) /\ row[d].id # None /\ gw[row[d].id].hooks # {} /\ ~Busy(d))
        => secret[d] \in gw[row[d].id].hooks

\* gateway.py:119-121: two documents do not drive one session of the gateway.
OwnSession == \A d, e \in Document :
    (d # e /\ row[d].id # None) => row[d].id # row[e].id

=============================================================================
