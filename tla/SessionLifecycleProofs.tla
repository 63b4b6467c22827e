----------------------- MODULE SessionLifecycleProofs -----------------------
(* Proofs about SessionLifecycle, for any number of requests, statuses of  *)
(* the gateway, restarts and faults, and both settings of `isolation`.     *)
EXTENDS SessionLifecycle, TLAPS

\* The requests and the jobs are well typed, and whoever is about to write a
\* status has one to write.
SeenFits(x) == /\ x.pc = "hook" => x.seen # Unknown
               /\ x.pc \in {"ping", "fetched"} => x.seen # NoChange
               /\ x.pc = "record" => x.seen \in Statuses
ReqInv == /\ req \in [Request -> ReqState]
          /\ \A r \in Request : SeenFits(req[r])
PollInv == poll \in PollState /\ (poll.pc = "answer" => poll.seen # Unknown)
HealInv == heal \in HealState

\* What a job has written and not committed: a flag that fits the status or both
\* as they were, and no message counted since, because the row is locked.
Pending(job) == job.pc = "written" => /\ Fits(job.doc) \/ SamePair(job.doc, row)
                                      /\ job.doc.sent = row.sent

\* The lock of the row has one holder among the jobs, and none while a request
\* has it; what a webhook has saved went through before_save.
JobInv ==
    /\ Pending(poll)
    /\ Pending(heal)
    /\ ~(poll.pc = "written" /\ heal.pc = "written")
    /\ \A r \in Request : HasSaved(r) => poll.pc # "written" /\ heal.pc # "written"
    /\ \A r \in Request : req[r].pc = "saved" => Fits(req[r].doc)

RestInv ==
    /\ gw \in Statuses \cup {Unknown}
    /\ events \subseteq Statuses \cup {NoChange}
    /\ row \in Row
    /\ cache \in Statuses \cup {Unknown}
    /\ isolation \in BOOLEAN
    /\ happened \in 0..MaxEvents

Inv == RestInv /\ ReqInv /\ PollInv /\ HealInv /\ JobInv

-----------------------------------------------------------------------------
(* The operators the actions are made of.                                  *)

LEMMA SavedRowFits ==
    ASSUME NEW doc \in Row
    PROVE  BeforeSave(doc) \in Row /\ Fits(BeforeSave(doc))
  <1>1. Attention(doc.status) \in BOOLEAN
    BY DEF Attention
  <1>2. QED
    BY <1>1, Zenon DEF BeforeSave, Fits, Row

LEMMA StatusAndFlag ==
    ASSUME NEW doc \in Row, NEW status \in Statuses, NEW flag \in BOOLEAN,
           flag = Attention(status)
    PROVE  LET new == [doc EXCEPT !.status = status, !.attention = flag]
           IN  new \in Row /\ new.sent = doc.sent /\ Fits(new)
  <1> DEFINE new == [doc EXCEPT !.status = status, !.attention = flag]
  <1>1. new \in Row /\ new.sent = doc.sent /\ new.attention = flag /\ new.status = status
    BY DEF Row
  <1>2. QED
    BY <1>1, Zenon DEF Fits

LEMMA SyncedIsRow ==
    ASSUME NEW doc \in Row, NEW what \in Statuses \cup {NoChange}
    PROVE  Synced(doc, what) \in Row
  BY DEF Synced, Row, NoChange

LEMMA OvertakenRequest ==
    ASSUME NEW x \in ReqState, NEW how \in BOOLEAN
    PROVE  /\ Overtaken(x, how) \in ReqState
           /\ Overtaken(x, how).pc = x.pc
           /\ Overtaken(x, how).seen = x.seen
           /\ Overtaken(x, how).doc = x.doc
  <1> DEFINE old == x.old \/ (how /\ (x.pc \in SavesRow \/ isolation))
  <1>1. old \in BOOLEAN
    BY DEF ReqState
  <1>2. Overtaken(x, how) = x \/ Overtaken(x, how) = [x EXCEPT !.old = old]
    BY Zenon DEF Overtaken
  <1> HIDE DEF old
  <1>3. QED
    BY <1>1, <1>2 DEF ReqState

LEMMA OvertakenPoll ==
    ASSUME NEW x \in PollState, NEW how \in BOOLEAN
    PROVE  /\ Overtaken(x, how) \in PollState
           /\ Overtaken(x, how).pc = x.pc
           /\ Overtaken(x, how).seen = x.seen
           /\ Overtaken(x, how).doc = x.doc
  <1> DEFINE old == x.old \/ (how /\ (x.pc \in SavesRow \/ isolation))
  <1>1. old \in BOOLEAN
    BY DEF PollState
  <1>2. Overtaken(x, how) = x \/ Overtaken(x, how) = [x EXCEPT !.old = old]
    BY Zenon DEF Overtaken
  <1> HIDE DEF old
  <1>3. QED
    BY <1>1, <1>2 DEF PollState

LEMMA OvertakenHeal ==
    ASSUME NEW x \in HealState, NEW how \in BOOLEAN
    PROVE  /\ Overtaken(x, how) \in HealState
           /\ Overtaken(x, how).pc = x.pc
           /\ Overtaken(x, how).doc = x.doc
  <1> DEFINE old == x.old \/ (how /\ (x.pc \in SavesRow \/ isolation))
  <1>1. old \in BOOLEAN
    BY DEF HealState
  <1>2. Overtaken(x, how) = x \/ Overtaken(x, how) = [x EXCEPT !.old = old]
    BY Zenon DEF Overtaken
  <1> HIDE DEF old
  <1>3. QED
    BY <1>1, <1>2 DEF HealState

LEMMA IdleTypes == /\ IdleReq \in ReqState /\ IdleReq.pc = "idle"
                   /\ IdlePoll \in PollState /\ IdlePoll.pc = "idle"
                   /\ IdleHeal \in HealState /\ IdleHeal.pc = "idle"
                   /\ EmptyRow \in Row
  BY DEF IdleReq, ReqState, ReqPhases, IdlePoll, PollState, IdleHeal, HealState,
         EmptyRow, Row, Statuses

LEMMA InitInv == Init => Inv
  <1> SUFFICES ASSUME Init PROVE Inv
    OBVIOUS
  <1>1. gw \in Statuses \cup {Unknown} /\ row \in Row
    <2>1. CASE gw = Unknown /\ row = EmptyRow
      BY <2>1, IdleTypes
    <2>2. CASE /\ gw \in GwStatus
               /\ row = BeforeSave([EmptyRow EXCEPT !.status = gw, !.linked = TRUE])
      <3>1. gw \in Statuses /\ [EmptyRow EXCEPT !.status = gw, !.linked = TRUE] \in Row
        BY <2>2, GatewayAssumption, IdleTypes DEF Row
      <3>2. QED
        BY <2>2, <3>1, SavedRowFits
    <2>3. QED
      BY <2>1, <2>2 DEF Init
  <1>2. happened \in 0..MaxEvents
    BY BoundAssumption DEF Init
  <1>3. QED
    BY <1>1, <1>2, IdleTypes
       DEF Init, Inv, RestInv, ReqInv, SeenFits, PollInv, HealInv, JobInv, Pending, HasSaved

-----------------------------------------------------------------------------
(* What the steps are made of keeps the invariant of its part of the state. *)

\* No request takes the row's lock, and what is saved stays as it is.
NoNewSave ==
    \A q \in Request :
        /\ req'[q].pc \in {"saved", "reset"} => HasSaved(q)
        /\ req'[q].pc = "saved" => req[q].pc = "saved" /\ req'[q].doc = req[q].doc
SameJobs ==
    /\ poll'.pc = poll.pc /\ poll'.doc = poll.doc
    /\ heal'.pc = heal.pc /\ heal'.doc = heal.doc

\* Whoever writes the row while no job holds it disturbs none.
LEMMA RowWritten ==
    ASSUME JobInv, NoNewSave, poll.pc # "written", heal.pc # "written",
           poll'.pc = poll.pc, heal'.pc = heal.pc
    PROVE  JobInv'
  BY DEF JobInv, NoNewSave, Pending, HasSaved, Fits

LEMMA RowKept ==
    ASSUME JobInv, NoNewSave, SameJobs, row' = row
    PROVE  JobInv'
  BY DEF JobInv, NoNewSave, SameJobs, Pending, HasSaved, Fits, SamePair

LEMMA BeginKeeps ==
    ASSUME ReqInv, NEW r \in Request, NEW pc \in ReqPhases \ {"saved", "reset"},
           NEW doc \in Row, NEW seen \in Statuses \cup {Unknown, NoChange},
           SeenFits([pc |-> pc, doc |-> doc, seen |-> seen, old |-> FALSE]),
           Begin(r, pc, doc, seen)
    PROVE  ReqInv' /\ NoNewSave
  <1> DEFINE new == [pc |-> pc, doc |-> doc, seen |-> seen, old |-> FALSE]
  <1>1. new \in ReqState /\ new.pc \notin {"saved", "reset"}
    BY DEF ReqState
  <1>2. req' = [req EXCEPT ![r] = new]
    BY DEF Begin
  <1> HIDE DEF new
  <1>3. SeenFits(new)
    BY DEF new
  <1>4. QED
    BY <1>1, <1>2, <1>3 DEF ReqInv, NoNewSave, HasSaved

LEMMA EndKeeps ==
    ASSUME ReqInv, NEW r \in Request, End(r)
    PROVE  ReqInv' /\ NoNewSave
  BY IdleTypes DEF ReqInv, SeenFits, End, NoNewSave, HasSaved

LEMMA OvertakesRequestsKeeps ==
    ASSUME ReqInv, NEW how \in BOOLEAN, OvertakesRequests(how)
    PROVE  ReqInv' /\ NoNewSave
  BY OvertakenRequest DEF ReqInv, SeenFits, OvertakesRequests, NoNewSave, HasSaved

LEMMA OvertakesJobsKeeps ==
    ASSUME PollInv, HealInv, isolation \in BOOLEAN, OvertakesJobs
    PROVE  PollInv' /\ HealInv' /\ SameJobs
  BY OvertakenPoll, OvertakenHeal DEF PollInv, HealInv, OvertakesJobs, SameJobs

LEMMA CommitAndKeeps ==
    ASSUME ReqInv, PollInv, HealInv, isolation \in BOOLEAN, NEW r \in Request,
           NEW modified \in BOOLEAN, NEW then \in ReqState, SeenFits(then),
           then.pc \notin {"saved", "reset"}, CommitAnd(r, modified, then)
    PROVE  ReqInv' /\ PollInv' /\ HealInv' /\ SameJobs /\ NoNewSave
  <1>1. (modified \/ isolation) \in BOOLEAN
    OBVIOUS
  <1>2. \A q \in Request : /\ Overtaken(req[q], modified \/ isolation) \in ReqState
                           /\ Overtaken(req[q], modified \/ isolation).pc = req[q].pc
                           /\ Overtaken(req[q], modified \/ isolation).seen = req[q].seen
                           /\ Overtaken(req[q], modified \/ isolation).doc = req[q].doc
    BY <1>1, OvertakenRequest DEF ReqInv
  <1>3. ReqInv' /\ NoNewSave
    BY <1>2 DEF ReqInv, SeenFits, CommitAnd, NoNewSave, HasSaved
  <1>4. QED
    BY <1>3, OvertakesJobsKeeps DEF CommitAnd

LEMMA CommitKeeps ==
    ASSUME ReqInv, PollInv, HealInv, isolation \in BOOLEAN, NEW r \in Request,
           NEW modified \in BOOLEAN, Commit(r, modified)
    PROVE  ReqInv' /\ PollInv' /\ HealInv' /\ SameJobs /\ NoNewSave
  <1>1. IdleReq \in ReqState /\ SeenFits(IdleReq) /\ IdleReq.pc \notin {"saved", "reset"}
    BY IdleTypes DEF SeenFits
  <1>2. QED
    BY <1>1, CommitAndKeeps DEF Commit

LEMMA SaveKeeps ==
    ASSUME ReqInv, PollInv, HealInv, JobInv, isolation \in BOOLEAN, NEW r \in Request,
           NEW doc \in Row, Save(r, doc)
    PROVE  ReqInv' /\ PollInv' /\ HealInv' /\ JobInv' /\ row' \in Row
  <1>1. row' \in Row
    BY SavedRowFits DEF Save
  <1>2. ReqInv' /\ PollInv' /\ HealInv' /\ SameJobs /\ NoNewSave
    BY CommitKeeps DEF Save
  <1>3. poll.pc # "written" /\ heal.pc # "written"
    BY DEF Save, Locked
  <1>4. QED
    BY <1>1, <1>2, <1>3, RowWritten DEF SameJobs

LEMMA HappensKeeps ==
    ASSUME happened \in 0..MaxEvents, Happens
    PROVE  happened' \in 0..MaxEvents
  BY BoundAssumption DEF Happens

LEMMA GatewayKeeps ==
    ASSUME events \subseteq Statuses \cup {NoChange},
           NEW status \in GwStatus, GatewayTo(status)
    PROVE  gw' \in Statuses /\ events' \subseteq Statuses \cup {NoChange}
  BY GatewayAssumption DEF GatewayTo

LEMMA RestartKeeps ==
    ASSUME events \subseteq Statuses \cup {NoChange}, RestartAccepted
    PROVE  gw' \in Statuses /\ events' \subseteq Statuses \cup {NoChange}
  BY GatewayKeeps DEF RestartAccepted

-----------------------------------------------------------------------------
(* Steps.                                                                  *)

LEMMA EnvironmentInv ==
    ASSUME Inv, GatewayMoves \/ EventAgain \/ CountSend \/ CacheExpires \/ Killed
    PROVE  Inv'
  <1> USE DEF Inv
  <1>1. ASSUME GatewayMoves \/ EventAgain \/ CacheExpires PROVE Inv'
    <2>1. UNCHANGED <<row, req, poll, heal, isolation>>
      BY <1>1 DEF GatewayMoves, EventAgain, CacheExpires
    <2>2. JobInv' /\ ReqInv' /\ PollInv' /\ HealInv'
      BY <2>1 DEF JobInv, ReqInv, PollInv, HealInv, Pending, HasSaved, Fits, SamePair
    <2>3. /\ gw' \in Statuses \cup {Unknown}
          /\ events' \subseteq Statuses \cup {NoChange}
          /\ cache' \in Statuses \cup {Unknown}
      BY <1>1, GatewayKeeps, GatewayAssumption DEF GatewayMoves, EventAgain, CacheExpires, RestInv
    <2>4. happened' \in 0..MaxEvents
      BY <1>1, HappensKeeps DEF GatewayMoves, EventAgain, CacheExpires, RestInv
    <2>5. QED
      BY <2>1, <2>2, <2>3, <2>4 DEF RestInv
  <1>2. CASE CountSend
    <2>1. row' \in Row
      BY <1>2 DEF CountSend, RestInv, Row
    <2>2. PollInv' /\ HealInv' /\ SameJobs
      BY <1>2, OvertakesJobsKeeps DEF CountSend, RestInv
    <2>3. ReqInv' /\ NoNewSave
      BY <1>2, OvertakesRequestsKeeps DEF CountSend, RestInv
    <2>4. JobInv'
      BY <1>2, <2>2, <2>3, RowWritten DEF CountSend, Locked, SameJobs
    <2>5. QED
      BY <1>2, <2>1, <2>2, <2>3, <2>4, HappensKeeps DEF CountSend, RestInv
  <1>3. CASE Killed
    <2>1. ReqInv' /\ PollInv' /\ HealInv'
      BY <1>3, EndKeeps, IdleTypes DEF Killed, ReqInv, PollInv, HealInv
    <2>2. NoNewSave
      BY <1>3, EndKeeps DEF Killed, NoNewSave, HasSaved
    <2>3. JobInv'
      BY <1>3, <2>2, IdleTypes DEF Killed, JobInv, NoNewSave, Pending, HasSaved, Fits, SamePair
    <2>4. QED
      BY <1>3, <2>1, <2>3, HappensKeeps DEF Killed, RestInv
  <1>4. QED
    BY <1>1, <1>2, <1>3

LEMMA RequestStartInv ==
    ASSUME Inv, NEW r \in Request, RequestStarts(r)
    PROVE  Inv'
  <1> USE DEF Inv
  <1>1. ASSUME \/ HookReads(r) \/ FormReads(r) \/ ButtonReads(r) \/ EditOpens(r)
               \/ PingFetches(r) \/ DeregisterDeletes(r)
        PROVE  Inv'
    <2>1. UNCHANGED <<row, cache, poll, heal, isolation>>
      BY <1>1 DEF HookReads, FormReads, ButtonReads, EditOpens, PingFetches, DeregisterDeletes
    <2>2. RestInv'
      BY <1>1, <2>1, HappensKeeps, RestartKeeps
         DEF HookReads, FormReads, ButtonReads, EditOpens, PingFetches, DeregisterDeletes, RestInv
    <2>3. ReqInv' /\ NoNewSave
      <3>1. CASE HookReads(r)
        BY <3>1, BeginKeeps
           DEF HookReads, RestInv, SeenFits, ReqPhases, Statuses, Unknown, NoChange
      <3>2. CASE FormReads(r) \/ ButtonReads(r) \/ EditOpens(r)
        BY <3>2, BeginKeeps DEF FormReads, ButtonReads, EditOpens, RestInv, SeenFits, ReqPhases
      <3>3. CASE PingFetches(r)
        BY <3>3, BeginKeeps, IdleTypes
           DEF PingFetches, RestInv, SeenFits, ReqPhases, Statuses, NoChange
      <3>4. CASE DeregisterDeletes(r)
        BY <3>4, BeginKeeps, IdleTypes DEF DeregisterDeletes, RestInv, SeenFits, ReqPhases
      <3>5. QED
        BY <1>1, <3>1, <3>2, <3>3, <3>4
    <2>4. JobInv'
      BY <2>1, <2>3, RowKept DEF SameJobs
    <2>5. QED
      BY <2>1, <2>2, <2>3, <2>4 DEF PollInv, HealInv
  <1>2. CASE IdRecorded(r)
    <2> DEFINE then == [IdleReq EXCEPT !.pc = "boot"]
    <2>1. then \in ReqState /\ SeenFits(then) /\ then.pc = "boot"
      BY IdleTypes DEF ReqState, ReqPhases, SeenFits
    <2>2. ReqInv' /\ PollInv' /\ HealInv' /\ SameJobs /\ NoNewSave
      BY <1>2, <2>1, CommitAndKeeps DEF IdRecorded, RestInv
    <2>3. JobInv'
      BY <1>2, <2>2, RowWritten DEF IdRecorded, Locked, SameJobs
    <2>4. gw' \in Statuses \cup {Unknown} /\ row' \in Row
      BY <1>2 DEF IdRecorded, RestInv, Row, Statuses
    <2>5. QED
      BY <1>2, <2>2, <2>3, <2>4, HappensKeeps DEF IdRecorded, RestInv
  <1>3. QED
    BY <1>1, <1>2 DEF RequestStarts

LEMMA RequestStepInv ==
    ASSUME Inv, NEW r \in Request, RequestStep(r)
    PROVE  Inv'
  <1> USE DEF Inv
  <1>0. req[r] \in ReqState /\ SeenFits(req[r]) /\ row \in Row /\ isolation \in BOOLEAN
    BY DEF ReqInv, RestInv
  <1>1. ASSUME FormSaves(r) \/ ButtonSaves(r) \/ EditSaves(r) PROVE Inv'
    <2>1. PICK doc \in Row : Save(r, doc)
      <3>1. CASE FormSaves(r)
        <4>1. req[r].seen \in Statuses \cup {NoChange} /\ req[r].doc \in Row
          BY <1>0, <3>1 DEF FormSaves, ReqState
        <4>2. QED
          BY <3>1, <4>1, SyncedIsRow DEF FormSaves
      <3>2. CASE ButtonSaves(r)
        BY <1>0, <3>2 DEF ButtonSaves, ReqState, Row
      <3>3. CASE EditSaves(r)
        BY <1>0, <3>3 DEF EditSaves, ReqState
      <3>4. QED
        BY <1>1, <3>1, <3>2, <3>3
    <2>2. ReqInv' /\ PollInv' /\ HealInv' /\ JobInv' /\ row' \in Row
      BY <1>0, <2>1, SaveKeeps
    <2>3. UNCHANGED <<gw, events, cache, isolation, happened>>
      BY <1>1 DEF FormSaves, ButtonSaves, EditSaves
    <2>4. QED
      BY <2>2, <2>3 DEF RestInv
  <1>2. CASE HookSaves(r)
    <2> DEFINE doc == BeforeSave(Synced(req[r].doc, req[r].seen))
    <2>1. doc \in Row /\ Fits(doc)
      <3>1. req[r].seen \in Statuses \cup {NoChange} /\ req[r].doc \in Row
        BY <1>0, <1>2 DEF HookSaves, ReqState, SeenFits
      <3>2. QED
        BY <3>1, SyncedIsRow, SavedRowFits
    <2> HIDE DEF doc
    <2>2. req' = [req EXCEPT ![r].pc = "saved", ![r].doc = doc]
      BY <1>2 DEF HookSaves, doc
    <2>3. ReqInv'
      <3>1. req'[r] \in ReqState /\ req'[r].pc = "saved"
        BY <1>0, <2>1, <2>2 DEF ReqInv, ReqState, ReqPhases
      <3>2. QED
        BY <2>2, <3>1 DEF ReqInv, SeenFits
    <2>4. JobInv'
      BY <1>2, <2>1, <2>2
         DEF HookSaves, Locked, ReqInv, ReqState, JobInv, Pending, HasSaved, Fits
    <2>5. QED
      BY <1>2, <2>3, <2>4 DEF HookSaves, RestInv, PollInv, HealInv
  <1>3. CASE DeregisterResets(r)
    <2> DEFINE doc == [row EXCEPT !.status = "Initializing", !.restarts = 0, !.linked = FALSE]
    <2>1. doc \in Row
      BY <1>0 DEF Row, Statuses
    <2> HIDE DEF doc
    <2>2. req' = [req EXCEPT ![r].pc = "reset", ![r].doc = doc]
      BY <1>3 DEF DeregisterResets, doc
    <2>3. ReqInv'
      <3>1. req'[r] \in ReqState /\ req'[r].pc = "reset"
        BY <1>0, <2>1, <2>2 DEF ReqInv, ReqState, ReqPhases
      <3>2. QED
        BY <2>2, <3>1 DEF ReqInv, SeenFits
    <2>4. JobInv'
      BY <1>3, <2>2
         DEF DeregisterResets, Locked, ReqInv, ReqState, JobInv, Pending, HasSaved, Fits
    <2>5. QED
      BY <1>3, <2>3, <2>4 DEF DeregisterResets, RestInv, PollInv, HealInv
  <1>4. CASE HookCommits(r) \/ ResetCommits(r)
    <2>1. row' \in Row
      BY <1>0, <1>4 DEF HookCommits, ResetCommits, ReqState
    <2>2. ReqInv' /\ PollInv' /\ HealInv' /\ SameJobs /\ NoNewSave
      BY <1>0, <1>4, CommitKeeps DEF HookCommits, ResetCommits
    <2>3. poll.pc # "written" /\ heal.pc # "written"
      BY <1>4 DEF HookCommits, ResetCommits, HasSaved, JobInv
    <2>4. JobInv'
      BY <2>2, <2>3, RowWritten DEF SameJobs
    <2>5. QED
      BY <1>4, <2>1, <2>2, <2>4 DEF HookCommits, ResetCommits, RestInv
  <1>5. CASE FormUnchanged(r) \/ SaveRefused(r)
    <2>1. ReqInv' /\ PollInv' /\ HealInv' /\ SameJobs /\ NoNewSave
      <3>1. CASE Commit(r, FALSE)
        BY <1>0, <3>1, CommitKeeps
      <3>2. CASE End(r) /\ UNCHANGED <<poll, heal>>
        BY <3>2, EndKeeps DEF SameJobs, PollInv, HealInv
      <3>3. QED
        BY <1>5, <3>1, <3>2 DEF FormUnchanged, SaveRefused
    <2>2. UNCHANGED <<gw, events, row, cache, isolation, happened>>
      BY <1>5 DEF FormUnchanged, SaveRefused
    <2>3. QED
      BY <2>1, <2>2, RowKept DEF RestInv
  <1>6. CASE StatusRecorded(r) \/ ProvisionFails(r)
    <2>1. CASE StatusRecorded(r) \/ (ProvisionFails(r) /\ ~Locked /\ Commit(r, FALSE)
                                       /\ row' = [row EXCEPT !.attention = TRUE])
      <3>1. row' \in Row
        BY <1>0, <2>1 DEF StatusRecorded, Row, SeenFits
      <3>2. ReqInv' /\ PollInv' /\ HealInv' /\ SameJobs /\ NoNewSave
        BY <1>0, <2>1, CommitKeeps DEF StatusRecorded
      <3>3. JobInv'
        BY <2>1, <3>2, RowWritten DEF StatusRecorded, Locked, SameJobs
      <3>4. QED
        BY <1>6, <3>1, <3>2, <3>3 DEF StatusRecorded, ProvisionFails, RestInv
    <2>2. CASE ProvisionFails(r) /\ End(r) /\ UNCHANGED <<row, poll, heal>>
      <3>1. ReqInv' /\ NoNewSave
        BY <2>2, EndKeeps
      <3>2. QED
        BY <2>2, <3>1, RowKept DEF ProvisionFails, RestInv, SameJobs, PollInv, HealInv
    <2>3. QED
      BY <1>6, <2>1, <2>2 DEF ProvisionFails
  <1>7. CASE EditRejected(r) \/ PingStores(r)
    <2>1. ReqInv' /\ NoNewSave
      BY <1>7, EndKeeps DEF EditRejected, PingStores
    <2>2. cache' \in Statuses \cup {Unknown}
      BY <1>0, <1>7 DEF EditRejected, PingStores, RestInv, ReqState, SeenFits
    <2>3. QED
      BY <1>7, <2>1, <2>2, RowKept
         DEF EditRejected, PingStores, RestInv, SameJobs, PollInv, HealInv
  <1>8. CASE FormFetches(r) \/ EngineBoots(r) \/ ProvisionFetches(r)
    <2>1. req'[r] \in ReqState /\ SeenFits(req'[r]) /\ ~HasSaved(r)'
      <3>1. CASE FormFetches(r)
        BY <1>0, <3>1 DEF FormFetches, ReqInv, RestInv, ReqState, ReqPhases, SeenFits, HasSaved,
                          Statuses, Unknown, NoChange
      <3>2. CASE EngineBoots(r)
        BY <1>0, <3>2 DEF EngineBoots, Goto, ReqInv, ReqState, ReqPhases, SeenFits, HasSaved
      <3>3. CASE ProvisionFetches(r)
        <4>1. Fetched(gw) \in Statuses
          BY DEF Fetched, RestInv, Statuses
        <4>2. QED
          BY <1>0, <3>3, <4>1
             DEF ProvisionFetches, ReqInv, ReqState, ReqPhases, SeenFits, HasSaved
      <3>4. QED
        BY <1>8, <3>1, <3>2, <3>3
    <2>2. \A q \in Request \ {r} : req'[q] = req[q]
      BY <1>8 DEF FormFetches, EngineBoots, ProvisionFetches, Goto, ReqInv
    <2>3. DOMAIN req' = Request /\ req' = [q \in Request |-> req'[q]]
      BY <1>8 DEF FormFetches, EngineBoots, ProvisionFetches, Goto, ReqInv
    <2>4. ReqInv'
      BY <2>1, <2>2, <2>3 DEF ReqInv, SeenFits
    <2>5. NoNewSave
      BY <2>1, <2>2 DEF NoNewSave, HasSaved
    <2>6. UNCHANGED <<row, cache, poll, heal, isolation, happened>>
      BY <1>8 DEF FormFetches, EngineBoots, ProvisionFetches
    <2>7. gw' \in Statuses \cup {Unknown} /\ events' \subseteq Statuses \cup {NoChange}
      BY <1>8, RestartKeeps DEF FormFetches, EngineBoots, ProvisionFetches, RestInv
    <2>8. QED
      BY <2>4, <2>5, <2>6, <2>7, RowKept DEF RestInv, SameJobs, PollInv, HealInv
  <1>9. QED
    BY <1>1, <1>2, <1>3, <1>4, <1>5, <1>6, <1>7, <1>8 DEF RequestStep, Commits

LEMMA PollInvariant ==
    ASSUME Inv, PollStarts \/ PollStep
    PROVE  Inv'
  <1> USE DEF Inv
  <1>1. ASSUME PollStarts \/ PollFetches \/ PollSkips \/ PollRefused PROVE Inv'
    <2>1. poll' \in PollState /\ (poll'.pc = "answer" => poll'.seen # Unknown)
          /\ poll'.pc # "written"
      BY <1>1, IdleTypes DEF PollStarts, PollFetches, PollSkips, PollRefused, PollInv,
                             PollState, IdlePoll, RestInv, Row, Statuses, Unknown
    <2>2. UNCHANGED <<gw, events, row, cache, req, heal, isolation>>
      BY <1>1 DEF PollStarts, PollFetches, PollSkips, PollRefused
    <2>3. happened' \in 0..MaxEvents
      BY <1>1, HappensKeeps DEF PollStarts, PollFetches, PollSkips, PollRefused, RestInv
    <2>4. QED
      BY <2>1, <2>2, <2>3
         DEF RestInv, ReqInv, PollInv, HealInv, JobInv, Pending, HasSaved, Fits, SamePair
  <1>2. ASSUME PollWrites PROVE Inv'
    <2>1. poll.seen \in Statuses
      BY <1>2 DEF PollWrites, PollInv, PollState
    <2>2. /\ PollUpdate \in Row
          /\ Fits(PollUpdate) \/ SamePair(PollUpdate, row)
          /\ PollUpdate.sent = row.sent
      <3>1. CASE poll.seen = poll.read
        BY <3>1 DEF PollUpdate, SamePair, RestInv
      <3>2. CASE poll.seen # poll.read
        <4>1. Attention(poll.seen) \in BOOLEAN
          BY DEF Attention
        <4>2. PollUpdate = [row EXCEPT !.status = poll.seen, !.attention = Attention(poll.seen)]
          BY <3>2 DEF PollUpdate
        <4>3. QED
          BY <2>1, <4>1, <4>2, StatusAndFlag DEF RestInv
      <3>3. QED
        BY <3>1, <3>2
    <2>3. poll' \in PollState /\ poll'.pc = "written" /\ poll'.doc = PollUpdate
      BY <1>2, <2>2 DEF PollWrites, PollState, IdlePoll
    <2>4. QED
      BY <1>2, <2>1, <2>2, <2>3
         DEF PollWrites, Locked, RestInv, ReqInv, PollInv, HealInv, JobInv, Pending, HasSaved,
             Fits, SamePair
  <1>3. ASSUME PollCommits PROVE Inv'
    <2>1. row' \in Row
      BY <1>3 DEF PollCommits, PollInv, PollState
    <2>2. heal' \in HealState /\ heal'.pc # "written"
      BY <1>3, OvertakenHeal DEF PollCommits, HealInv, JobInv, RestInv
    <2>3. ReqInv' /\ NoNewSave
      BY <1>3, OvertakesRequestsKeeps DEF PollCommits, RestInv
    <2>4. poll'.pc = "idle" /\ poll' \in PollState
      BY <1>3, IdleTypes DEF PollCommits
    <2>5. JobInv'
      BY <2>2, <2>3, <2>4 DEF NoNewSave, HasSaved, JobInv, Pending, Fits
    <2>6. QED
      BY <1>3, <2>1, <2>2, <2>3, <2>4, <2>5 DEF PollCommits, RestInv, PollInv, HealInv
  <1>4. QED
    BY <1>1, <1>2, <1>3 DEF PollStep

LEMMA HealInvariant ==
    ASSUME Inv, HealStarts \/ HealStep
    PROVE  Inv'
  <1> USE DEF Inv
  <1>1. ASSUME \/ HealStarts \/ HealFetches \/ HealUnanswered \/ HealRestarts
               \/ HealRefused \/ HealOvertaken
        PROVE  Inv'
    <2>1. heal' \in HealState /\ heal'.pc # "written"
      <3>1. CASE HealStarts
        BY <3>1, IdleTypes DEF HealStarts, IdleHeal, HealState, RestInv, Row
      <3>2. CASE HealFetches \/ HealUnanswered
        BY <3>2 DEF HealFetches, HealUnanswered, HealInv, HealState, RestInv
      <3>3. CASE HealRestarts
        BY <3>3 DEF HealRestarts, HealInv, HealState
      <3>4. CASE HealRefused \/ HealOvertaken
        BY <3>4, IdleTypes DEF HealRefused, HealOvertaken
      <3>5. QED
        BY <1>1, <3>1, <3>2, <3>3, <3>4
    <2>2. UNCHANGED <<row, cache, req, poll, isolation>>
      BY <1>1 DEF HealStarts, HealFetches, HealUnanswered, HealRestarts, HealRefused,
                  HealOvertaken
    <2>3. gw' \in Statuses \cup {Unknown} /\ events' \subseteq Statuses \cup {NoChange}
      BY <1>1, RestartKeeps
         DEF HealStarts, HealFetches, HealUnanswered, HealRestarts, HealRefused,
             HealOvertaken, RestInv
    <2>4. happened' \in 0..MaxEvents
      BY <1>1, HappensKeeps
         DEF HealStarts, HealFetches, HealUnanswered, HealRestarts, HealRefused,
             HealOvertaken, RestInv
    <2>5. QED
      BY <2>1, <2>2, <2>3, <2>4
         DEF RestInv, ReqInv, PollInv, HealInv, JobInv, Pending, HasSaved, Fits, SamePair
  <1>2. ASSUME HealBelievesGateway \/ HealGivesUp \/ HealCounts PROVE Inv'
    <2>1. PICK doc : /\ doc \in Row /\ doc.sent = row.sent
                     /\ Fits(doc) \/ SamePair(doc, row)
                     /\ HealWrites(doc)
      <3>1. CASE HealBelievesGateway
        <4> DEFINE new == [row EXCEPT !.status = "Connected", !.attention = FALSE]
        <4>1. HealWrites(new)
          BY <3>1 DEF HealBelievesGateway
        <4>2. new \in Row /\ new.sent = row.sent /\ Fits(new)
          <5>1. row \in Row /\ "Connected" \in Statuses /\ FALSE \in BOOLEAN
            BY DEF RestInv, Statuses
          <5>2. FALSE = Attention("Connected")
            BY DEF Attention
          <5>3. QED
            BY <5>1, <5>2, StatusAndFlag, Zenon
        <4>3. QED
          BY <4>1, <4>2
      <3>2. CASE HealGivesUp
        BY <3>2 DEF HealGivesUp, RestInv, Row, Fits, Attention, Statuses
      <3>3. CASE HealCounts
        BY <3>3 DEF HealCounts, RestInv, Row, SamePair, HealInv, HealState
      <3>4. QED
        BY <1>2, <3>1, <3>2, <3>3
    <2>2. heal' \in HealState /\ heal'.pc = "written" /\ heal'.doc = doc
      BY <2>1 DEF HealWrites, HealState, IdleHeal
    <2>3. QED
      BY <2>1, <2>2
         DEF HealWrites, Locked, RestInv, ReqInv, PollInv, HealInv, JobInv, Pending, HasSaved,
             Fits, SamePair
  <1>3. ASSUME HealCommits PROVE Inv'
    <2>1. row' \in Row
      BY <1>3 DEF HealCommits, HealInv, HealState
    <2>2. PollInv' /\ poll'.pc # "written"
      BY <1>3, OvertakenPoll DEF HealCommits, PollInv, JobInv, RestInv
    <2>3. ReqInv' /\ NoNewSave
      BY <1>3, OvertakesRequestsKeeps DEF HealCommits, RestInv
    <2>4. heal'.pc = "idle" /\ heal' \in HealState
      BY <1>3, IdleTypes DEF HealCommits
    <2>5. JobInv'
      BY <2>2, <2>3, <2>4 DEF NoNewSave, HasSaved, JobInv, Pending, Fits
    <2>6. QED
      BY <1>3, <2>1, <2>2, <2>3, <2>4, <2>5 DEF HealCommits, RestInv, HealInv
  <1>4. QED
    BY <1>1, <1>2, <1>3 DEF HealStep

LEMMA NextInv == Inv /\ [Next]_vars => Inv'
  <1>1. CASE UNCHANGED vars
    BY <1>1 DEF vars, Inv, RestInv, ReqInv, PollInv, HealInv, JobInv, Pending, HasSaved,
                Fits, SamePair
  <1>2. QED
    BY <1>1, EnvironmentInv, RequestStartInv, RequestStepInv, PollInvariant, HealInvariant
       DEF Next

LEMMA Invariance == Spec => []Inv
  BY InitInv, NextInv, PTL DEF Spec

-----------------------------------------------------------------------------
\* The type invariant, for either setting of `isolation`.
THEOREM TypeCorrect == Spec => []TypeOK
  <1>1. Inv => TypeOK
    BY DEF Inv, RestInv, ReqInv, PollInv, HealInv, TypeOK
  <1>2. QED
    BY <1>1, Invariance, PTL

\* Nobody but provisioning and deregistration parts the committed attention flag
\* from the committed status: saves of documents read at any time before
\* (openwa_session.py:50-54), the poll's write against a status it read before
\* (health.py:68-71), the self-healer's (self_healer.py:83-99), and their
\* commits some steps after the write.
THEOREM FlagStaysWithStatus == Spec => FlagKeptWithStatus
  <1> DEFINE A == ~ProvisioningWrites => Fits(row') \/ SamePair(row', row)
  <1>1. Inv /\ [Next]_vars => [A]_vars
    <2> SUFFICES ASSUME Inv, Next, ~ProvisioningWrites
                 PROVE  Fits(row') \/ SamePair(row', row)
      OBVIOUS
    <2>1. CASE row' = row
      BY <2>1 DEF SamePair
    <2>2. CASE PollCommits \/ HealCommits
      BY <2>2 DEF PollCommits, HealCommits, Inv, JobInv, Pending
    <2>3. CASE CountSend
      BY <2>3 DEF CountSend, SamePair, Inv, RestInv, Row
    <2>4. ASSUME NEW r \in Request,
                 FormSaves(r) \/ ButtonSaves(r) \/ EditSaves(r)
          PROVE  Fits(row')
      <3>1. req[r] \in ReqState /\ SeenFits(req[r])
        BY DEF Inv, ReqInv
      <3>2. PICK doc \in Row : row' = BeforeSave(doc)
        <4>1. CASE FormSaves(r)
          <5>1. req[r].seen \in Statuses \cup {NoChange} /\ req[r].doc \in Row
            BY <3>1, <4>1 DEF FormSaves, ReqState
          <5>2. QED
            BY <4>1, <5>1, SyncedIsRow DEF FormSaves, Save
        <4>2. CASE ButtonSaves(r)
          BY <3>1, <4>2 DEF ButtonSaves, Save, ReqState, Row
        <4>3. CASE EditSaves(r)
          BY <3>1, <4>3 DEF EditSaves, Save, ReqState
        <4>4. QED
          BY <2>4, <4>1, <4>2, <4>3
      <3>3. QED
        BY <3>2, SavedRowFits
    <2>5. ASSUME NEW r \in Request, HookCommits(r)
          PROVE  Fits(row')
      BY <2>5 DEF HookCommits, Inv, JobInv
    <2>6. ASSUME NEW r \in Request, IdRecorded(r)
          PROVE  SamePair(row', row)
      BY <2>6 DEF IdRecorded, SamePair, Inv, RestInv, Row
    <2>7. ASSUME NEW r \in Request, StatusRecorded(r) \/ ProvisionFails(r) \/ ResetCommits(r)
          PROVE  row' = row
      <3>1. row' = row \/ Commit(r, FALSE)
        BY <2>7 DEF StatusRecorded, ProvisionFails, ResetCommits
      <3>2. req[r].pc \in {"boot", "fetch", "record", "reset"}
        BY <2>7 DEF StatusRecorded, ProvisionFails, ResetCommits
      <3>3. Commit(r, FALSE) => req'[r].pc = "idle"
        BY IdleTypes DEF Commit, CommitAnd
      <3>4. QED
        BY <3>1, <3>2, <3>3 DEF ProvisioningWrites
    <2>8. QED
      BY <2>1, <2>2, <2>3, <2>4, <2>5, <2>6, <2>7
         DEF Next, GatewayMoves, EventAgain, CacheExpires, Killed,
             RequestStarts, HookReads, FormReads, ButtonReads, EditOpens, PingFetches,
             DeregisterDeletes, RequestStep, Commits, HookSaves, FormFetches, FormUnchanged,
             EditRejected, SaveRefused, PingStores, EngineBoots, ProvisionFetches,
             DeregisterResets,
             PollStarts, PollStep, PollFetches, PollSkips, PollWrites, PollRefused,
             HealStarts, HealStep, HealFetches, HealUnanswered, HealBelievesGateway,
             HealGivesUp, HealRestarts, HealRefused, HealCounts, HealOvertaken, HealWrites
  <1>2. QED
    BY <1>1, Invariance, PTL DEF Spec, FlagKeptWithStatus

\* A job's commit takes back no message that was counted since its query
\* (health.py:80, self_healer.py:116).
THEOREM JobsTakeNothingBack == Spec => JobsKeepCounts
  <1>1. Inv /\ [Next]_vars => [JobEnds => row'.sent >= row.sent]_vars
    <2> SUFFICES ASSUME Inv, Next, JobEnds
                 PROVE  row'.sent >= row.sent
      BY DEF vars
    <2>1. row.sent \in Nat
      BY DEF Inv, RestInv, Row
    <2>2. CASE PollCommits \/ HealCommits
      BY <2>1, <2>2 DEF PollCommits, HealCommits, Inv, JobInv, Pending
    <2>3. CASE Killed
      BY <2>1, <2>3 DEF Killed
    <2>4. CASE PollStarts \/ (PollStep /\ ~PollCommits) \/ HealStarts \/ (HealStep /\ ~HealCommits)
      BY <2>1, <2>4
         DEF PollStarts, PollStep, PollFetches, PollSkips, PollWrites, PollRefused,
             HealStarts, HealStep, HealFetches, HealUnanswered, HealBelievesGateway,
             HealGivesUp, HealRestarts, HealRefused, HealCounts, HealOvertaken, HealWrites
    <2>5. CASE GatewayMoves \/ EventAgain \/ CountSend \/ CacheExpires
      BY <2>5, OvertakesJobsKeeps
         DEF GatewayMoves, EventAgain, CountSend, CacheExpires, JobEnds, SameJobs, Inv, RestInv
    <2>6. ASSUME NEW r \in Request, RequestStarts(r) \/ RequestStep(r)
          PROVE  row'.sent >= row.sent
      <3>1. UNCHANGED <<poll, heal>> \/ OvertakesJobs
        BY <2>6
           DEF RequestStarts, HookReads, FormReads, ButtonReads, EditOpens, PingFetches,
               IdRecorded, DeregisterDeletes, RequestStep, Commits, HookSaves, HookCommits,
               FormFetches, FormUnchanged, FormSaves, ButtonSaves, EditSaves, EditRejected,
               SaveRefused, PingStores, EngineBoots, ProvisionFetches, StatusRecorded,
               ProvisionFails, DeregisterResets, ResetCommits, Save, Commit, CommitAnd
      <3>2. poll'.pc = poll.pc /\ heal'.pc = heal.pc
        BY <3>1, OvertakesJobsKeeps DEF SameJobs, Inv, RestInv
      <3>3. QED
        BY <3>2 DEF JobEnds
    <2>7. QED
      BY <2>2, <2>3, <2>4, <2>5, <2>6 DEF Next
  <1>2. QED
    BY <1>1, Invariance, PTL DEF Spec, JobsKeepCounts

=============================================================================
