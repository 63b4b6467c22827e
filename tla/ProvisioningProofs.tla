------------------------- MODULE ProvisioningProofs -------------------------
(* Proofs about Provisioning, for any documents, requests, gateway names   *)
(* and number of faults.                                                   *)
EXTENDS Provisioning, TLAPS

\* Gateway session g bears the name of d, and is gone only if somebody gave up
\* that name.
Tied(g, d) ==
    /\ g \in Id
    /\ gw[g].name = GatewayName[d]
    /\ gw[g].live \/ GatewayName[d] \in removed

\* Whoever works on a document that exists or existed, and knows an id of it
\* from the creation of the session on.
Knowing == {"record", "secret", "mint", "register", "start", "finish", "delete", "release",
            "sync"}
GivingUp == {"delete", "reset", "release", "trash"}
ProcInv(p) ==
    /\ proc[p].id # None => Tied(proc[p].id, proc[p].doc)
    /\ proc[p].pc \in Knowing => proc[p].id # None
    /\ proc[p].pc \notin {"idle", "died"} => row[proc[p].doc].is # "new"
    /\ proc[p].pc \in GivingUp => GatewayName[proc[p].doc] \in removed
    /\ p \in Document /\ proc[p].pc \notin {"idle", "died"} =>   \* a job
          proc[p].doc = p /\ proc[p].pc \notin GivingUp \cup {"sync"}

RowInv(d) ==
    /\ row[d].id # None => Tied(row[d].id, d)
    /\ row[d].is = "gone" => GatewayName[d] \in removed
    /\ row[d].is # "here" => row[d].id = None

UniqueNames == \A g, h \in Id :
    (gw[g].live /\ gw[h].live /\ gw[g].name = gw[h].name) => g = h

TieInv ==
    /\ \A p \in Actor : ProcInv(p)
    /\ \A d \in Document : RowInv(d)
    /\ UniqueNames

Inv == TypeOK /\ TieInv /\ OrphansExplained

-----------------------------------------------------------------------------
LEMMA IdleTypes == IdleProc \in ProcState /\ IdleProc.id = None /\ IdleProc.pc = "idle"
  <1>1. AnyDocument \in Document
    BY ActorAssumption DEF AnyDocument
  <1>2. QED
    BY <1>1 DEF IdleProc, Fresh, ProcState, Secret, NoSecret

LEMMA FreshTypes ==
    ASSUME NEW d \in Document,
           NEW pc \in {"idle", "queued", "died", "create", "find", "record", "secret", "mint",
                       "register", "start", "finish", "delete", "reset", "release", "trash",
                       "sync"}
    PROVE  /\ Fresh(d, pc) \in ProcState
           /\ Fresh(d, pc).pc = pc /\ Fresh(d, pc).doc = d /\ Fresh(d, pc).id = None
  BY DEF Fresh, ProcState, Secret, NoSecret

LEMMA RowTypes ==
    ASSUME NEW x \in Row
    PROVE  /\ x.is \in {"new", "here", "gone"}
           /\ x.id \in Id \cup {None}
           /\ x.attention \in BOOLEAN
           /\ x.is # "here" => x.id = None
           /\ x.is = "here" => x \in [is: {"here"}, id: Id \cup {None}, attention: BOOLEAN]
  <1>1. CASE x \in [is: {"here"}, id: Id \cup {None}, attention: BOOLEAN]
    BY <1>1
  <1>2. CASE x = NoRow
    BY <1>2 DEF NoRow
  <1>3. CASE x = GoneRow
    BY <1>3 DEF GoneRow, NoRow
  <1>4. QED
    BY <1>1, <1>2, <1>3 DEF Row

\* UPDATE of a document that is there.
LEMMA UpdatedRow ==
    ASSUME NEW x \in Row, x.is = "here", NEW id \in Id \cup {None}, NEW flag \in BOOLEAN
    PROVE  /\ [x EXCEPT !.id = id] \in Row
           /\ [x EXCEPT !.id = id, !.attention = flag] \in Row
           /\ [x EXCEPT !.attention = flag] \in Row
  BY RowTypes DEF Row

LEMMA InitInv == Init => Inv
  <1> SUFFICES ASSUME Init PROVE Inv
    OBVIOUS
  <1>1. AnyDocument \in Document
    BY ActorAssumption DEF AnyDocument
  <1>2. TypeOK
    <2>1. gw \in [Id -> GwSession]
      BY <1>1 DEF Init, GwSession, NameOfGateway, Secret
    <2>2. row \in [Document -> Row] /\ secret \in [Document -> Secret]
      BY DEF Init, Row, Secret
    <2>3. proc \in [Actor -> ProcState]
      BY IdleTypes DEF Init
    <2>4. lost \subseteq Id /\ removed \subseteq NameOfGateway /\ happened \in 0..MaxEvents
      BY MaxAssumption DEF Init
    <2>5. QED
      BY <2>1, <2>2, <2>3, <2>4 DEF TypeOK
  <1>3. QED
    BY <1>2, IdleTypes
       DEF Init, Inv, TieInv, ProcInv, RowInv, UniqueNames, OrphansExplained, Orphan, NoRow,
           Knowing, GivingUp

-----------------------------------------------------------------------------
(* A step of p that creates no session of the gateway.                     *)

\* Sessions go, and only under a name that was given up.
OnlyGoes == \A g \in Id :
    /\ gw'[g].name = gw[g].name
    /\ gw'[g].live => gw[g].live
    /\ (gw[g].live /\ ~gw'[g].live) => gw[g].name \in removed

\* What a commit makes of a row.
RowMoves(d) ==
    \/ row'[d] = row[d]
    \/ row[d].is = "new" /\ row'[d].is = "here" /\ row'[d].id = None
    \/ row'[d].is = "here" /\ row'[d].id = row[d].id /\ row[d].is = "here"
    \/ row'[d].is = "here" /\ row[d].is = "here" /\ Tied(row'[d].id, d)
    \/ row[d].is = "here" /\ row'[d].is # "new" /\ row'[d].id = None /\ GatewayName[d] \in removed

\* An id that was to be recorded is: or is lost, or nobody wants it any more.
IdKept(p) ==
    proc[p].pc = "record" =>
        \/ proc'[p].pc = "record" /\ proc'[p].id = proc[p].id
        \/ proc[p].id \in lost'
        \/ row'[proc[p].doc].id = proc[p].id
        \/ GatewayName[proc[p].doc] \in removed

LEMMA Keeps ==
    ASSUME Inv, TypeOK', NEW p \in Actor, OnlyGoes,
           removed \subseteq removed', lost \subseteq lost',
           \A q \in Actor : q # p => proc'[q] = proc[q],
           ProcInv(p)', \A d \in Document : RowMoves(d), IdKept(p)
    PROVE  Inv'
  <1>1. /\ gw \in [Id -> GwSession] /\ gw' \in [Id -> GwSession]
        /\ \A d \in Document : row[d] \in Row /\ row'[d] \in Row
        /\ \A q \in Actor : proc[q] \in ProcState /\ proc'[q] \in ProcState
    BY DEF Inv, TypeOK
  <1>2. \A g \in Id, d \in Document : Tied(g, d) => Tied(g, d)'
    BY DEF OnlyGoes, Tied
  <1>3. \A d \in Document : RowInv(d)'
    <2> SUFFICES ASSUME NEW d \in Document PROVE RowInv(d)'
      OBVIOUS
    <2>1. RowInv(d) /\ RowMoves(d)
      BY DEF Inv, TieInv
    <2>2. row'[d].id # None => row'[d].id \in Id
      BY <1>1, RowTypes
    <2>3. QED
      BY <1>1, <1>2, <2>1, <2>2, RowTypes DEF RowInv, RowMoves, Tied
  <1>4. \A d \in Document : row[d].is # "new" => row'[d].is # "new"
    BY DEF RowMoves
  <1>5. \A q \in Actor : ProcInv(q)'
    <2> SUFFICES ASSUME NEW q \in Actor, q # p PROVE ProcInv(q)'
      OBVIOUS
    <2>1. ProcInv(q) /\ proc'[q] = proc[q] /\ proc[q] \in ProcState
      BY <1>1 DEF Inv, TieInv
    <2>2. proc[q].doc \in Document /\ proc[q].id \in Id \cup {None}
      BY <2>1 DEF ProcState
    <2>3. QED
      BY <1>2, <1>4, <2>1, <2>2 DEF ProcInv, Tied
  <1>6. UniqueNames'
    BY DEF Inv, TieInv, UniqueNames, OnlyGoes
  <1>7. OrphansExplained'
    <2> SUFFICES ASSUME NEW g \in Id, gw'[g].live, \A d \in Document : row'[d].id # g,
                        gw'[g].name \notin removed', g \notin lost'
                 PROVE  \E q \in Actor : /\ proc'[q].pc \in {"record", "delete", "release"}
                                         /\ proc'[q].id = g
      BY DEF OrphansExplained, Orphan
    <2>1. /\ gw[g].live /\ gw[g].name \notin removed /\ g \notin lost
          /\ gw'[g].name = gw[g].name
      BY DEF OnlyGoes
    <2>2. ASSUME NEW d \in Document, row[d].id = g PROVE FALSE
      <3>1. gw[g].name = GatewayName[d]
        BY <2>2 DEF Inv, TieInv, RowInv, Tied, Id, None
      <3>2. row[d].is = "here"
        BY <2>2, <1>1 DEF Inv, TieInv, RowInv, Id, None
      <3>3. Tied(row'[d].id, d) /\ row'[d].id # g
        BY <2>1, <2>2, <3>1, <3>2 DEF RowMoves
      <3>4. gw[row'[d].id].live /\ row'[d].id \in Id
        BY <2>1, <3>1, <3>3 DEF Tied
      <3>5. QED
        BY <2>1, <3>1, <3>3, <3>4 DEF Inv, TieInv, UniqueNames, Tied
    <2>3. PICK q \in Actor : proc[q].pc \in {"record", "delete", "release"} /\ proc[q].id = g
      BY <2>1, <2>2 DEF Inv, OrphansExplained, Orphan
    <2>4. gw[g].name = GatewayName[proc[q].doc]
      BY <2>3 DEF Inv, TieInv, ProcInv, Tied, Id, None
    <2>5. proc[q].pc = "record"
      BY <2>1, <2>3, <2>4 DEF Inv, TieInv, ProcInv, GivingUp
    <2>6. CASE q # p
      BY <2>3, <2>6
    <2>7. CASE q = p
      <3>1. proc[p].doc \in Document
        BY <1>1 DEF ProcState
      <3>2. QED
        BY <2>1, <2>3, <2>4, <2>5, <2>7, <3>1 DEF IdKept
    <2>8. QED
      BY <2>6, <2>7
  <1>8. QED
    BY <1>3, <1>5, <1>6, <1>7 DEF Inv, TieInv


-----------------------------------------------------------------------------
(* What the steps are made of.                                             *)

Phases == {"idle", "queued", "died", "create", "find", "record", "secret", "mint", "register",
           "start", "finish", "delete", "reset", "release", "trash", "sync"}

\* The local state of p becomes x, and nobody else's changes.
Becomes(p, x) == /\ proc' \in [Actor -> ProcState]
                 /\ proc'[p] = x
                 /\ \A q \in Actor : q # p => proc'[q] = proc[q]

LEMMA ProcTypes ==
    ASSUME TypeOK, NEW p \in Actor
    PROVE  /\ proc[p] \in ProcState /\ proc[p].doc \in Document
           /\ proc[p].id \in Id \cup {None} /\ proc[p].pc \in Phases
           /\ proc[p].warned \in BOOLEAN /\ proc[p].secret \in Secret
  BY DEF TypeOK, ProcState, Phases

LEMMA ToTypes ==
    ASSUME TypeOK, NEW p \in Actor, NEW pc \in Phases, To(p, pc)
    PROVE  /\ Becomes(p, [proc[p] EXCEPT !.pc = pc])
           /\ proc'[p].pc = pc /\ proc'[p].id = proc[p].id /\ proc'[p].doc = proc[p].doc
           /\ proc'[p].warned = proc[p].warned
  BY DEF TypeOK, To, Becomes, ProcState, Phases

LEMMA HoldingTypes ==
    ASSUME TypeOK, NEW p \in Actor, NEW pc \in Phases, NEW g \in Id, Holding(p, pc, g)
    PROVE  /\ Becomes(p, [proc[p] EXCEPT !.pc = pc, !.id = g])
           /\ proc'[p].pc = pc /\ proc'[p].id = g /\ proc'[p].doc = proc[p].doc
           /\ proc'[p].warned = proc[p].warned
  BY DEF TypeOK, Holding, Becomes, ProcState, Phases

LEMMA EndsTypes ==
    ASSUME TypeOK, NEW p \in Actor, Ends(p)
    PROVE  Becomes(p, IdleProc) /\ proc'[p].pc = "idle" /\ proc'[p].id = None
  BY IdleTypes DEF TypeOK, Ends, Becomes

LEMMA StartsTypes ==
    ASSUME TypeOK, NEW p \in Actor, NEW x \in ProcState, proc' = [proc EXCEPT ![p] = x]
    PROVE  Becomes(p, x)
  BY DEF TypeOK, Becomes

LEMMA UpdateTypes ==
    ASSUME TypeOK, NEW d \in Document, NEW new, Here(d) => new \in Row, Update(d, new)
    PROVE  /\ row' \in [Document -> Row]
           /\ row'[d] = IF Here(d) THEN new ELSE row[d]
           /\ \A e \in Document : e # d => row'[e] = row[e]
  BY DEF TypeOK, Update

LEMMA HappensKeeps ==
    ASSUME happened \in 0..MaxEvents, Happens
    PROVE  happened' \in 0..MaxEvents
  BY MaxAssumption DEF Happens

LEMMA GwTypes ==
    ASSUME TypeOK, NEW g \in Id
    PROVE  gw[g] \in GwSession /\ gw[g].live \in BOOLEAN /\ gw[g].name \in NameOfGateway
           /\ gw[g].hooks \subseteq Secret
  BY DEF TypeOK, GwSession

\* A process ends with a failure on the way: a job leaves word of it.
LEMMA FailsKeeps ==
    ASSUME Inv, NEW p \in Actor, Fails(p), UNCHANGED <<gw, secret, lost, removed>>,
           happened' \in 0..MaxEvents, proc[p].pc # "record"
    PROVE  Inv'
  <1>1. Becomes(p, IdleProc) /\ proc'[p].pc = "idle" /\ proc'[p].id = None
    BY EndsTypes DEF Fails, Inv
  <1>2. ProcInv(p)'
    BY <1>1 DEF ProcInv, Knowing, GivingUp
  <1>3. row' \in [Document -> Row] /\ \A d \in Document : RowMoves(d)
    <2>1. CASE p \in Document
      <3>1. row[p] \in Row /\ TRUE \in BOOLEAN
        BY <2>1 DEF Inv, TypeOK
      <3>2. Here(p) => [row[p] EXCEPT !.attention = TRUE] \in Row
        BY <3>1, UpdatedRow, RowTypes DEF Here
      <3>3. Update(p, [row[p] EXCEPT !.attention = TRUE])
        BY <2>1 DEF Fails
      <3>4. /\ row' \in [Document -> Row]
            /\ row'[p] = IF Here(p) THEN [row[p] EXCEPT !.attention = TRUE] ELSE row[p]
            /\ \A e \in Document : e # p => row'[e] = row[e]
        BY <2>1, <3>2, <3>3, UpdateTypes DEF Inv
      <3>5. RowMoves(p)
        BY <2>1, <3>1, <3>4, RowTypes DEF RowMoves, Here, Row
      <3>6. QED
        BY <3>4, <3>5 DEF RowMoves
    <2>2. CASE p \notin Document
      BY <2>2 DEF Fails, RowMoves, Inv, TypeOK
    <2>3. QED
      BY <2>1, <2>2
  <1>4. TypeOK'
    BY <1>1, <1>3 DEF TypeOK, Inv, Becomes
  <1>5. QED
    BY <1>1, <1>2, <1>3, <1>4, Keeps DEF OnlyGoes, IdKept, Becomes

\* A step of p that writes no row and touches no session but for its hooks.
LEMMA QuietKeeps ==
    ASSUME Inv, NEW p \in Actor, TypeOK', row' = row,
           \A g \in Id : gw'[g].name = gw[g].name /\ gw'[g].live = gw[g].live,
           removed \subseteq removed', lost \subseteq lost',
           \A q \in Actor : q # p => proc'[q] = proc[q],
           ProcInv(p)', IdKept(p)
    PROVE  Inv'
  BY Keeps DEF OnlyGoes, RowMoves

\* p writes its document with an id it knows, or clears it.
LEMMA WriteKeeps ==
    ASSUME Inv, NEW p \in Actor, NEW new, Update(proc[p].doc, new),
           Here(proc[p].doc) => new \in Row,
           UNCHANGED <<gw, lost, removed>>,
           proc' \in [Actor -> ProcState], secret' \in [Document -> Secret],
           happened' \in 0..MaxEvents,
           \A q \in Actor : q # p => proc'[q] = proc[q],
           ProcInv(p)',
           Here(proc[p].doc) =>
               \/ new.is = "here" /\ new.id = proc[p].id /\ proc[p].pc \in Knowing
               \/ /\ new.is # "new" /\ new.id = None
                  /\ proc[p].pc \in GivingUp
    PROVE  Inv'
  <1> DEFINE d == proc[p].doc
  <1>1. d \in Document /\ proc[p].id \in Id \cup {None}
    BY ProcTypes DEF Inv
  <1>2. ProcInv(p) /\ RowInv(d)
    BY <1>1 DEF Inv, TieInv
  <1>3. /\ row' \in [Document -> Row]
        /\ row'[d] = IF Here(d) THEN new ELSE row[d]
        /\ \A e \in Document : e # d => row'[e] = row[e]
    BY <1>1, UpdateTypes DEF Inv
  <1>4. RowMoves(d)
    BY <1>2, <1>3 DEF RowMoves, Here, ProcInv
  <1>5. IdKept(p)
    <2>1. CASE proc[p].pc = "record" /\ Here(d)
      BY <1>3, <2>1 DEF IdKept, GivingUp
    <2>2. CASE proc[p].pc = "record" /\ ~Here(d)
      <3>1. row[d].is = "gone"
        BY <1>1, <1>2, <2>2, RowTypes DEF Here, ProcInv, Inv, TypeOK
      <3>2. QED
        BY <1>2, <3>1 DEF IdKept, RowInv
    <2>3. CASE proc[p].pc # "record"
      BY <2>3 DEF IdKept
    <2>4. QED
      BY <2>1, <2>2, <2>3
  <1>6. TypeOK'
    BY <1>3 DEF TypeOK, Inv
  <1>7. \A e \in Document : RowMoves(e)
    BY <1>3, <1>4 DEF RowMoves
  <1>8. QED
    BY <1>5, <1>6, <1>7, Keeps DEF OnlyGoes


\* p goes on with the document and the id it has.
LEMMA GoesOn ==
    ASSUME Inv, NEW p \in Actor, OnlyGoes, removed \subseteq removed',
           \A d \in Document : row[d].is # "new" => row'[d].is # "new",
           proc'[p].id = proc[p].id, proc'[p].doc = proc[p].doc,
           proc[p].pc \notin {"idle", "died"},
           proc'[p].pc \in Knowing => proc[p].pc \in Knowing,
           proc'[p].pc \in GivingUp => proc[p].pc \in GivingUp,
           proc'[p].pc = "sync" => proc[p].pc = "sync"
    PROVE  ProcInv(p)'
  <1>1. ProcInv(p) /\ proc[p].doc \in Document /\ proc[p].id \in Id \cup {None}
    BY ProcTypes DEF Inv, TieInv
  <1>2. \A g \in Id, d \in Document : Tied(g, d) => Tied(g, d)'
    BY DEF OnlyGoes, Tied
  <1>3. QED
    BY <1>1, <1>2 DEF ProcInv, Tied

-----------------------------------------------------------------------------
(* Steps.                                                                  *)

LEMMA InsertInv == ASSUME Inv, NEW d \in Document, Insert(d) PROVE Inv'
  <1>1. /\ row[d] \in Row /\ row[d].is = "new" /\ d \in Actor
        /\ row' = [row EXCEPT ![d] = [row[d] EXCEPT !.is = "here"]]
        /\ UNCHANGED <<gw, secret, lost, removed, happened>>
    BY DEF Insert, Inv, TypeOK, Actor
  <1>2. row[d] = NoRow
    BY <1>1 DEF Row, NoRow, GoneRow
  <1>3. /\ row' \in [Document -> Row] /\ row'[d].is = "here" /\ row'[d].id = None
        /\ \A e \in Document : e # d => row'[e] = row[e]
    <2>1. row[d] \in [is: {"new"}, id: {None}, attention: BOOLEAN]
      BY <1>2 DEF NoRow
    <2>2. /\ [row[d] EXCEPT !.is = "here"] \in Row
          /\ [row[d] EXCEPT !.is = "here"].is = "here" /\ [row[d] EXCEPT !.is = "here"].id = None
      BY <2>1 DEF Row
    <2>3. QED
      BY <1>1, <2>1, <2>2 DEF Inv, TypeOK
  <1>4. PICK pc \in {"queued", "died"} : proc' = [proc EXCEPT ![d] = Fresh(d, pc)]
    BY DEF Insert
  <1>5. /\ Becomes(d, Fresh(d, pc)) /\ proc'[d].pc = pc
        /\ proc'[d].doc = d /\ proc'[d].id = None
    <2>1. /\ Fresh(d, pc) \in ProcState
          /\ Fresh(d, pc).pc = pc /\ Fresh(d, pc).doc = d /\ Fresh(d, pc).id = None
      BY FreshTypes
    <2>2. Becomes(d, Fresh(d, pc))
      BY <1>1, <1>4, <2>1, StartsTypes DEF Inv
    <2>3. QED
      BY <2>1, <2>2 DEF Becomes
  <1>6. ProcInv(d)'
    BY <1>3, <1>5 DEF ProcInv, Knowing, GivingUp
  <1>7. \A e \in Document : RowMoves(e)
    BY <1>1, <1>3 DEF RowMoves
  <1>8. IdKept(d)
    <2>1. ProcInv(d)
      BY <1>1 DEF Inv, TieInv
    <2>2. proc[d].pc # "record"
      BY <1>1, <2>1 DEF ProcInv
    <2>3. QED
      BY <2>2 DEF IdKept
  <1>9. TypeOK'
    BY <1>1, <1>3, <1>5 DEF Becomes, Inv, TypeOK
  <1>10. QED
    BY <1>1, <1>5, <1>6, <1>7, <1>8, <1>9, Keeps DEF Becomes, OnlyGoes


LEMMA RequestStartInv ==
    ASSUME Inv, NEW r \in Request, NEW d \in Document, happened' \in 0..MaxEvents,
           ButtonStarts(r, d) \/ DeregisterStarts(r, d) \/ TrashStarts(r, d) \/ SyncReads(r, d)
    PROVE  Inv'
  <1>1. r \in Actor /\ r \notin Document /\ proc[r].pc = "idle" /\ Here(d)
    BY ActorAssumption DEF Actor, ButtonStarts, DeregisterStarts, TrashStarts, SyncReads
  <1>2. row[d] \in Row /\ row[d].is = "here" /\ row[d].id \in Id \cup {None} /\ RowInv(d)
    BY <1>1, RowTypes DEF Here, Inv, TypeOK, TieInv
  <1>3. PICK pc \in {"create", "delete", "trash", "release", "sync"}, id \in {None, row[d].id} :
           /\ proc' = [proc EXCEPT ![r] = [Fresh(d, pc) EXCEPT !.id = id]]
           /\ pc \in Knowing => id # None
           /\ pc \in GivingUp => GatewayName[d] \in removed'
    <2>1. CASE ButtonStarts(r, d)
      <3>1. Fresh(d, "create") = [Fresh(d, "create") EXCEPT !.id = None]
        <4>1. Fresh(d, "create") \in ProcState /\ Fresh(d, "create").id = None
          BY FreshTypes
        <4>2. \A x \in ProcState : x.id = None => x = [x EXCEPT !.id = None]
          BY DEF ProcState
        <4>3. QED
          BY <4>1, <4>2
      <3>2. QED
        BY <2>1, <3>1 DEF ButtonStarts, Knowing, GivingUp
    <2>2. CASE DeregisterStarts(r, d)
      BY <2>2 DEF DeregisterStarts
    <2>3. CASE TrashStarts(r, d)
      BY <2>3 DEF TrashStarts, Knowing
    <2>4. CASE SyncReads(r, d)
      BY <2>4 DEF SyncReads, GivingUp
    <2>5. QED
      BY <2>1, <2>2, <2>3, <2>4
  <1> DEFINE x == [Fresh(d, pc) EXCEPT !.id = id]
  <1>4. x \in ProcState /\ x.pc = pc /\ x.doc = d /\ x.id = id
    BY <1>2, FreshTypes DEF ProcState
  <1> HIDE DEF x
  <1>5. Becomes(r, x)
    BY <1>1, <1>3, <1>4, StartsTypes DEF Inv, x
  <1>6. /\ UNCHANGED <<gw, row, secret, lost>>
        /\ removed \subseteq removed' /\ removed' \subseteq NameOfGateway
    BY DEF ButtonStarts, DeregisterStarts, TrashStarts, SyncReads, NameOfGateway, Inv, TypeOK
  <1>7. ProcInv(r)'
    <2>1. id # None => Tied(id, d)
      BY <1>2 DEF RowInv
    <2>2. QED
      BY <1>1, <1>2, <1>3, <1>4, <1>5, <1>6, <2>1 DEF ProcInv, Becomes, Tied
  <1>8. TypeOK'
    BY <1>5, <1>6 DEF Becomes, Inv, TypeOK
  <1>9. QED
    BY <1>1, <1>5, <1>6, <1>7, <1>8, QuietKeeps DEF Becomes, IdKept

\* Steps that only move p on.
LEMMA WorkInv ==
    ASSUME Inv, NEW p \in Actor,
           \/ p \in Document /\ JobStarts(p)
           \/ ReadSecret(p) \/ MintSecret(p) \/ RegisterWebhook(p) \/ WebhookRefused(p)
    PROVE  Inv'
  <1>1. proc[p] \in ProcState /\ ProcInv(p)
    BY ProcTypes DEF Inv, TieInv
  <1>2. happened' \in 0..MaxEvents
    BY HappensKeeps DEF JobStarts, ReadSecret, MintSecret, RegisterWebhook, WebhookRefused,
                        Refused, Inv, TypeOK
  <1>3. UNCHANGED <<row, lost, removed>>
    BY DEF JobStarts, ReadSecret, MintSecret, RegisterWebhook, WebhookRefused
  <1>4. /\ gw' \in [Id -> GwSession]
        /\ \A g \in Id : gw'[g].name = gw[g].name /\ gw'[g].live = gw[g].live
    <2>1. CASE RegisterWebhook(p)
      <3>1. proc[p].id \in Id /\ proc[p].secret \in Secret
        <4>1. proc[p].pc = "register"
          BY <2>1 DEF RegisterWebhook
        <4>2. proc[p].id # None
          BY <1>1, <4>1 DEF ProcInv, Knowing
        <4>3. QED
          BY <4>2, ProcTypes DEF Inv
      <3>2. gw[proc[p].id] \in GwSession
        BY <3>1 DEF Inv, TypeOK
      <3>3. CASE gw' = gw
        BY <3>3 DEF Inv, TypeOK
      <3>4. CASE gw' # gw
        <4> DEFINE s == [gw[proc[p].id] EXCEPT !.hooks = @ \cup {proc[p].secret}]
        <4>1. gw' = [gw EXCEPT ![proc[p].id] = s]
          BY <2>1, <3>4 DEF RegisterWebhook
        <4>2. /\ s \in GwSession /\ s.name = gw[proc[p].id].name
              /\ s.live = gw[proc[p].id].live
          BY <3>1, <3>2 DEF GwSession
        <4>3. QED
          BY <3>1, <4>1, <4>2 DEF Inv, TypeOK
      <3>5. QED
        BY <3>3, <3>4
    <2>2. CASE ~RegisterWebhook(p)
      BY <2>2 DEF JobStarts, ReadSecret, MintSecret, WebhookRefused, Inv, TypeOK
    <2>3. QED
      BY <2>1, <2>2
  <1>5. PICK x \in ProcState :
           /\ proc' = [proc EXCEPT ![p] = x]
           /\ x.id = proc[p].id /\ x.doc = proc[p].doc
           /\ \/ proc[p].pc = "queued" /\ x.pc \in {"create", "idle"}
              \/ proc[p].pc \in {"secret", "mint", "register"}
                    /\ x.pc \in {"mint", "register", "start"}
    <2>1. CASE JobStarts(p)
      <3>1. PICK pc \in {"create", "idle"} : To(p, pc)
        BY <2>1 DEF JobStarts
      <3> DEFINE x == [proc[p] EXCEPT !.pc = pc]
      <3>2. proc' = [proc EXCEPT ![p] = x] /\ proc[p].pc = "queued"
        BY <2>1, <3>1 DEF JobStarts, To
      <3>3. x \in ProcState /\ x.pc = pc /\ x.id = proc[p].id /\ x.doc = proc[p].doc
        BY <1>1 DEF ProcState
      <3>4. QED
        BY <3>2, <3>3
    <2>2. CASE ReadSecret(p)
      <3> DEFINE held == secret[proc[p].doc]
                 pc == IF held = NoSecret THEN "mint" ELSE "register"
                 x == [proc[p] EXCEPT !.secret = held, !.pc = pc]
      <3>1. held \in Secret /\ pc \in {"mint", "register"}
        BY <1>1 DEF ProcState, Inv, TypeOK
      <3>2. proc' = [proc EXCEPT ![p] = x] /\ proc[p].pc = "secret"
        BY <2>2 DEF ReadSecret, Doc
      <3> HIDE DEF held, pc
      <3>3. x \in ProcState /\ x.pc = pc /\ x.id = proc[p].id /\ x.doc = proc[p].doc
        BY <1>1, <3>1 DEF ProcState
      <3>4. QED
        BY <3>1, <3>2, <3>3
    <2>3. CASE MintSecret(p)
      <3> DEFINE drawn == <<proc[p].doc, p>>
                 x == [proc[p] EXCEPT !.secret = drawn, !.pc = "register"]
      <3>1. drawn \in Secret
        BY <1>1 DEF ProcState, Secret
      <3>2. proc' = [proc EXCEPT ![p] = x] /\ proc[p].pc = "mint"
        BY <2>3 DEF MintSecret, Doc
      <3> HIDE DEF drawn
      <3>3. x \in ProcState /\ x.pc = "register" /\ x.id = proc[p].id /\ x.doc = proc[p].doc
        BY <1>1, <3>1 DEF ProcState
      <3>4. QED
        BY <3>2, <3>3
    <2>4. CASE RegisterWebhook(p)
      <3> DEFINE x == [proc[p] EXCEPT !.pc = "start"]
      <3>1. proc' = [proc EXCEPT ![p] = x] /\ proc[p].pc = "register"
        BY <2>4 DEF RegisterWebhook, To
      <3>2. x \in ProcState /\ x.pc = "start" /\ x.id = proc[p].id /\ x.doc = proc[p].doc
        BY <1>1 DEF ProcState
      <3>3. QED
        BY <3>1, <3>2
    <2>5. CASE WebhookRefused(p)
      <3> DEFINE x == [proc[p] EXCEPT !.pc = "start", !.warned = TRUE]
      <3>1. proc' = [proc EXCEPT ![p] = x] /\ proc[p].pc = "register"
        BY <2>5 DEF WebhookRefused
      <3>2. x \in ProcState /\ x.pc = "start" /\ x.id = proc[p].id /\ x.doc = proc[p].doc
        BY <1>1 DEF ProcState
      <3>3. QED
        BY <3>1, <3>2
    <2>6. QED
      BY <2>1, <2>2, <2>3, <2>4, <2>5
  <1>6. Becomes(p, x)
    BY <1>5, StartsTypes DEF Inv
  <1>7. ProcInv(p)'
    <2>1. OnlyGoes
      BY <1>4 DEF OnlyGoes
    <2>2. QED
      BY <1>3, <1>5, <1>6, <2>1, GoesOn DEF Becomes, Knowing, GivingUp
  <1>8. secret' \in [Document -> Secret]
    <2>1. CASE MintSecret(p)
      <3>1. <<proc[p].doc, p>> \in Secret /\ proc[p].doc \in Document
        BY <1>1 DEF ProcState, Secret
      <3>2. secret' = [secret EXCEPT ![proc[p].doc] = <<proc[p].doc, p>>]
        BY <2>1 DEF MintSecret, Doc
      <3>3. QED
        BY <3>1, <3>2 DEF Inv, TypeOK
    <2>2. CASE ~MintSecret(p)
      BY <2>2 DEF JobStarts, ReadSecret, RegisterWebhook, WebhookRefused, Inv, TypeOK
    <2>3. QED
      BY <2>1, <2>2
  <1>9. TypeOK'
    BY <1>2, <1>3, <1>4, <1>6, <1>8 DEF Becomes, Inv, TypeOK
  <1>10. QED
    BY <1>3, <1>4, <1>5, <1>6, <1>7, <1>9, QuietKeeps DEF Becomes, IdKept

LEMMA SecretFailsInv ==
    ASSUME Inv, NEW p \in Actor, SecretFails(p)
    PROVE  Inv'
  <1>1. proc[p] \in ProcState /\ proc[p].doc \in Document /\ p \in Actor
    BY ProcTypes DEF Inv
  <1>2. happened' \in 0..MaxEvents
    BY HappensKeeps DEF SecretFails, Inv, TypeOK
  <1>3. UNCHANGED <<gw, row, lost, removed>>
    BY DEF SecretFails
  <1>4. PICK pc \in {"mint", "register"} : To(p, pc) /\ proc[p].pc \in {"secret", "mint"}
    BY DEF SecretFails
  <1>5. Becomes(p, [proc[p] EXCEPT !.pc = pc]) /\ proc'[p].pc = pc
        /\ proc'[p].id = proc[p].id /\ proc'[p].doc = proc[p].doc
    BY <1>4, ToTypes DEF Inv, Phases
  <1>6. ProcInv(p)'
    BY <1>3, <1>4, <1>5, GoesOn DEF OnlyGoes, Knowing, GivingUp
  <1>7. secret' \in [Document -> Secret]
    <2>1. <<proc[p].doc, p>> \in Secret
      BY <1>1 DEF Secret
    <2>2. secret' = secret \/ secret' = [secret EXCEPT ![proc[p].doc] = <<proc[p].doc, p>>]
      BY DEF SecretFails, Doc
    <2>3. QED
      BY <1>1, <2>1, <2>2 DEF Inv, TypeOK
  <1>8. TypeOK'
    BY <1>2, <1>3, <1>5, <1>7 DEF Becomes, Inv, TypeOK
  <1>9. QED
    BY <1>3, <1>4, <1>5, <1>6, <1>8, QuietKeeps DEF Becomes, IdKept

\* p knows the id it looks for; a job's failure loses none.
LEMMA KnownId ==
    ASSUME Inv, NEW p \in Actor, proc[p].pc \in Knowing
    PROVE  /\ proc[p].id \in Id /\ proc[p].id # None
           /\ gw[proc[p].id].name = GatewayName[proc[p].doc]
           /\ gw[proc[p].id] \in GwSession /\ proc[p].doc \in Document
  <1>1. ProcInv(p) /\ proc[p].id # None
    BY DEF Inv, TieInv, ProcInv
  <1>2. proc[p].id \in Id /\ proc[p].doc \in Document
    BY <1>1, ProcTypes DEF Inv
  <1>3. QED
    BY <1>1, <1>2 DEF ProcInv, Tied, Inv, TypeOK

\* A step of p that changes its local state, to go on with what it has, and
\* nothing committed.
LEMMA ToKeeps ==
    ASSUME Inv, NEW p \in Actor, NEW pc \in Phases, To(p, pc),
           UNCHANGED <<gw, row, secret, removed>>, lost \subseteq lost', lost' \subseteq Id,
           happened' \in 0..MaxEvents,
           proc[p].pc \notin {"idle", "died", "record"},
           pc \in Knowing => proc[p].pc \in Knowing,
           pc \in GivingUp => proc[p].pc \in GivingUp,
           pc = "sync" => proc[p].pc = "sync"
    PROVE  Inv'
  <1>1. /\ Becomes(p, [proc[p] EXCEPT !.pc = pc])
        /\ proc'[p].pc = pc /\ proc'[p].id = proc[p].id /\ proc'[p].doc = proc[p].doc
    BY ToTypes DEF Inv
  <1>2. ProcInv(p)'
    BY <1>1, GoesOn DEF OnlyGoes
  <1>3. TypeOK'
    BY <1>1 DEF Becomes, Inv, TypeOK
  <1>4. QED
    BY <1>1, <1>2, <1>3, QuietKeeps DEF Becomes, IdKept

LEMMA StartSessionInv == ASSUME Inv, NEW p \in Actor, StartSession(p) PROVE Inv'
  <1>1. proc[p].pc = "start" /\ UNCHANGED <<gw, secret, lost, removed, happened>>
    BY DEF StartSession
  <1>2. happened' \in 0..MaxEvents /\ lost' \subseteq Id
    BY <1>1 DEF Inv, TypeOK
  <1>3. CASE gw[proc[p].id].live
    BY <1>1, <1>2, <1>3, ToKeeps DEF StartSession, Phases, Knowing, GivingUp
  <1>4. CASE ~gw[proc[p].id].live
    BY <1>1, <1>2, <1>4, FailsKeeps DEF StartSession
  <1>5. QED
    BY <1>3, <1>4

LEMMA FindSessionInv == ASSUME Inv, NEW p \in Actor, FindSession(p) PROVE Inv'
  <1>1. proc[p].pc = "find" /\ UNCHANGED <<gw, secret, lost, removed, happened>>
    BY DEF FindSession
  <1>2. happened' \in 0..MaxEvents
    BY <1>1 DEF Inv, TypeOK
  <1>3. CASE Named(GatewayName[Doc(p)]) = {}
    BY <1>1, <1>2, <1>3, FailsKeeps DEF FindSession
  <1>4. CASE Named(GatewayName[Doc(p)]) # {}
    <2>1. PICK g \in Named(GatewayName[Doc(p)]) : Holding(p, "record", g) /\ UNCHANGED row
      BY <1>4 DEF FindSession
    <2>2. g \in Id /\ Tied(g, proc[p].doc)
      BY <2>1 DEF Named, Tied, Doc
    <2>3. /\ Becomes(p, [proc[p] EXCEPT !.pc = "record", !.id = g])
          /\ proc'[p].pc = "record" /\ proc'[p].id = g /\ proc'[p].doc = proc[p].doc
      BY <2>1, <2>2, HoldingTypes DEF Inv, Phases
    <2>4. ProcInv(p) /\ g # None
      BY <2>2 DEF Inv, TieInv, Id, None
    <2>5. ProcInv(p)'
      BY <1>1, <2>1, <2>2, <2>3, <2>4 DEF ProcInv, Tied, Knowing, GivingUp
    <2>6. TypeOK'
      BY <1>1, <2>1, <2>3 DEF Becomes, Inv, TypeOK
    <2>7. QED
      BY <1>1, <2>1, <2>3, <2>5, <2>6, QuietKeeps DEF Becomes, IdKept
  <1>5. QED
    BY <1>3, <1>4

LEMMA CallFailsInv == ASSUME Inv, NEW p \in Actor, CallFails(p) PROVE Inv'
  <1>1. happened' \in 0..MaxEvents
    BY HappensKeeps DEF CallFails, Inv, TypeOK
  <1>2. QED
    BY <1>1, FailsKeeps DEF CallFails

LEMMA DeleteRefusedInv == ASSUME Inv, NEW r \in Request, DeleteRefused(r) PROVE Inv'
  <1>1. r \in Actor /\ proc[r].pc = "trash" /\ UNCHANGED <<gw, row, secret, lost, removed, happened>>
    BY DEF DeleteRefused, Actor
  <1>2. Becomes(r, IdleProc) /\ proc'[r].pc = "idle" /\ proc'[r].id = None
    BY <1>1, EndsTypes DEF DeleteRefused, Inv
  <1>3. ProcInv(r)'
    BY <1>2 DEF ProcInv, Knowing, GivingUp
  <1>4. TypeOK'
    BY <1>1, <1>2 DEF Becomes, Inv, TypeOK
  <1>5. QED
    BY <1>1, <1>2, <1>3, <1>4, QuietKeeps DEF Becomes, IdKept

LEMMA GatewayKeepsInv == ASSUME Inv, NEW r \in Request, GatewayKeeps(r) PROVE Inv'
  <1>1. r \in Actor /\ proc[r].pc \in {"delete", "release"}
    BY DEF GatewayKeeps, Actor
  <1>2. happened' \in 0..MaxEvents
    BY HappensKeeps DEF GatewayKeeps, Inv, TypeOK
  <1>3. proc[r].id \in Id
    BY <1>1, KnownId DEF Knowing
  <1>4. lost \subseteq lost' /\ lost' \subseteq Id
    BY <1>3 DEF GatewayKeeps, Inv, TypeOK
  <1>5. PICK pc \in {"reset", "trash"} : To(r, pc)
    BY <1>1 DEF GatewayKeeps, AfterDelete
  <1>6. QED
    BY <1>1, <1>2, <1>4, <1>5, ToKeeps DEF GatewayKeeps, Phases, Knowing, GivingUp

LEMMA DiesInv == ASSUME Inv, NEW p \in Actor, Dies(p) PROVE Inv'
  <1>1. UNCHANGED <<gw, row, secret, removed>> /\ happened' \in 0..MaxEvents
    BY HappensKeeps DEF Dies, Inv, TypeOK
  <1>2. /\ lost \subseteq lost' /\ lost' \subseteq Id
        /\ proc[p].pc = "record" => proc[p].id \in lost'
    <2>1. proc[p].pc = "record" => proc[p].id \in Id
      BY KnownId DEF Knowing
    <2>2. QED
      BY <2>1 DEF Dies, Inv, TypeOK
  <1>3. PICK x \in ProcState :
           proc' = [proc EXCEPT ![p] = x] /\ x.pc \in {"idle", "died"} /\ x.id = None
    <2>1. /\ [IdleProc EXCEPT !.pc = "died"] \in ProcState
          /\ [IdleProc EXCEPT !.pc = "died"].pc = "died"
          /\ [IdleProc EXCEPT !.pc = "died"].id = None
      BY IdleTypes DEF ProcState
    <2>2. QED
      BY <2>1, IdleTypes DEF Dies
  <1>4. Becomes(p, x)
    BY <1>3, StartsTypes DEF Inv
  <1>5. ProcInv(p)'
    BY <1>3, <1>4 DEF ProcInv, Becomes, Knowing, GivingUp
  <1>6. TypeOK'
    BY <1>1, <1>2, <1>4 DEF Becomes, Inv, TypeOK
  <1>7. QED
    BY <1>1, <1>2, <1>4, <1>5, <1>6, QuietKeeps DEF Becomes, IdKept

LEMMA GatewayDeletesInv == ASSUME Inv, NEW p \in Actor, GatewayDeletes(p) PROVE Inv'
  <1>1. proc[p].pc \in {"delete", "release"} /\ UNCHANGED <<row, secret, lost, removed, happened>>
    BY DEF GatewayDeletes
  <1>2. /\ proc[p].id \in Id /\ gw[proc[p].id].name = GatewayName[proc[p].doc]
        /\ gw[proc[p].id] \in GwSession
    BY <1>1, KnownId DEF Knowing
  <1>3. PICK pc \in {"reset", "trash"} : To(p, pc)
    BY <1>1 DEF GatewayDeletes, AfterDelete
  <1>4. GatewayName[proc[p].doc] \in removed
    BY <1>1 DEF Inv, TieInv, ProcInv, GivingUp
  <1> DEFINE s == [gw[proc[p].id] EXCEPT !.live = FALSE, !.hooks = {}]
  <1>5. s \in GwSession /\ s.name = gw[proc[p].id].name /\ ~s.live
    BY <1>2 DEF GwSession
  <1>6. gw' = [gw EXCEPT ![proc[p].id] = s]
    BY DEF GatewayDeletes
  <1> HIDE DEF s
  <1>7. gw' \in [Id -> GwSession] /\ OnlyGoes
    BY <1>2, <1>4, <1>5, <1>6 DEF OnlyGoes, Inv, TypeOK
  <1>8. /\ Becomes(p, [proc[p] EXCEPT !.pc = pc])
        /\ proc'[p].pc = pc /\ proc'[p].id = proc[p].id /\ proc'[p].doc = proc[p].doc
    BY <1>3, ToTypes DEF Inv, Phases
  <1>9. ProcInv(p)'
    BY <1>1, <1>7, <1>8, GoesOn DEF Knowing, GivingUp
  <1>10. TypeOK'
    BY <1>1, <1>7, <1>8 DEF Becomes, Inv, TypeOK
  <1>11. QED
    BY <1>1, <1>7, <1>8, <1>9, <1>10, Keeps DEF Becomes, IdKept, RowMoves

\* The commits: the id it knows, or no id.
LEMMA RecordIdInv == ASSUME Inv, NEW p \in Actor, RecordId(p) PROVE Inv'
  <1>1. proc[p].pc = "record" /\ UNCHANGED <<gw, secret, lost, removed, happened>> /\ To(p, "secret")
    BY DEF RecordId
  <1>2. proc[p].id \in Id /\ proc[p].doc \in Document
    BY <1>1, KnownId DEF Knowing
  <1>3. /\ Becomes(p, [proc[p] EXCEPT !.pc = "secret"])
        /\ proc'[p].pc = "secret" /\ proc'[p].id = proc[p].id /\ proc'[p].doc = proc[p].doc
    BY <1>1, ToTypes DEF Inv, Phases
  <1> DEFINE d == proc[p].doc
             new == [row[d] EXCEPT !.id = proc[p].id]
  <1>4. Update(d, new)
    BY DEF RecordId, Doc
  <1>5. row[d] \in Row
    BY <1>2 DEF Inv, TypeOK
  <1>6. Here(d) => new \in Row /\ new.is = "here" /\ new.id = proc[p].id
    BY <1>2, <1>5, RowTypes, UpdatedRow DEF Here
  <1> HIDE DEF new
  <1>7. \A e \in Document : row[e].is # "new" => row'[e].is # "new"
    BY <1>2, <1>4, <1>6 DEF Update, Here, Inv, TypeOK
  <1>8. ProcInv(p)'
    BY <1>1, <1>3, <1>7, GoesOn DEF OnlyGoes, Knowing, GivingUp
  <1>9. secret' \in [Document -> Secret] /\ happened' \in 0..MaxEvents
    BY <1>1 DEF Inv, TypeOK
  <1>10. QED
    BY <1>1, <1>3, <1>4, <1>6, <1>8, <1>9, WriteKeeps DEF Becomes, Knowing

\* The last write of a provision, a form's status sync, a deregistration and a
\* deletion end with their commit.
LEMMA LastWriteInv ==
    ASSUME Inv, NEW p \in Actor,
           Finish(p) \/ SyncSaves(p) \/ ResetRow(p) \/ DeleteRow(p)
    PROVE  Inv'
  <1>1. /\ proc[p].pc \in {"finish", "sync", "reset", "trash"} /\ Ends(p)
        /\ UNCHANGED <<gw, lost, removed, happened>>
    BY DEF Finish, SyncSaves, ResetRow, DeleteRow
  <1>2. Becomes(p, IdleProc) /\ proc'[p].pc = "idle" /\ proc'[p].id = None
    BY <1>1, EndsTypes DEF Inv
  <1>3. ProcInv(p)'
    BY <1>2 DEF ProcInv, Knowing, GivingUp
  <1> DEFINE d == proc[p].doc
  <1>4. /\ d \in Document /\ row[d] \in Row /\ proc[p].id \in Id \cup {None}
        /\ proc[p].warned \in BOOLEAN
    BY ProcTypes DEF Inv, TypeOK
  <1>5. PICK new :
           /\ Update(d, new)
           /\ Here(d) => new \in Row
           /\ Here(d) => \/ new.is = "here" /\ new.id = proc[p].id /\ proc[p].pc \in Knowing
                         \/ new.is # "new" /\ new.id = None /\ proc[p].pc \in GivingUp
    <2>1. CASE Finish(p)
      <3>1. PICK flag : /\ flag = (row[d].attention \/ proc[p].warned)
                        /\ Update(d, [row[d] EXCEPT !.id = proc[p].id, !.attention = flag])
        BY <2>1 DEF Finish, Doc
      <3>2. flag \in BOOLEAN
        BY <3>1, <1>4
      <3>3. Here(d) => /\ [row[d] EXCEPT !.id = proc[p].id, !.attention = flag] \in Row
                       /\ [row[d] EXCEPT !.id = proc[p].id, !.attention = flag].is = "here"
                       /\ [row[d] EXCEPT !.id = proc[p].id, !.attention = flag].id = proc[p].id
        BY <1>4, <3>2, RowTypes, UpdatedRow DEF Here
      <3>4. proc[p].pc \in Knowing
        BY <2>1 DEF Finish, Knowing
      <3>5. QED
        BY <3>1, <3>3, <3>4
    <2>2. CASE SyncSaves(p)
      <3>1. PICK flag \in BOOLEAN :
               Update(d, [row[d] EXCEPT !.id = proc[p].id, !.attention = flag])
        BY <2>2 DEF SyncSaves, Doc
      <3>2. Here(d) => /\ [row[d] EXCEPT !.id = proc[p].id, !.attention = flag] \in Row
                       /\ [row[d] EXCEPT !.id = proc[p].id, !.attention = flag].is = "here"
                       /\ [row[d] EXCEPT !.id = proc[p].id, !.attention = flag].id = proc[p].id
        BY <1>4, RowTypes, UpdatedRow DEF Here
      <3>3. proc[p].pc \in Knowing
        BY <2>2 DEF SyncSaves, Knowing
      <3>4. QED
        BY <3>1, <3>2, <3>3
    <2>3. CASE ResetRow(p)
      <3>1. Update(d, [row[d] EXCEPT !.id = None]) /\ proc[p].pc \in GivingUp
        BY <2>3 DEF ResetRow, Doc, GivingUp
      <3>2. Here(d) => /\ [row[d] EXCEPT !.id = None] \in Row
                       /\ [row[d] EXCEPT !.id = None].is = "here"
                       /\ [row[d] EXCEPT !.id = None].id = None
        BY <1>4, RowTypes, UpdatedRow DEF Here
      <3>3. QED
        BY <3>1, <3>2
    <2>4. CASE DeleteRow(p)
      <3>1. Update(d, GoneRow) /\ proc[p].pc \in GivingUp
        BY <2>4 DEF DeleteRow, Doc, GivingUp
      <3>2. GoneRow \in Row /\ GoneRow.is = "gone" /\ GoneRow.id = None
        BY DEF GoneRow, NoRow, Row
      <3>3. QED
        BY <3>1, <3>2
    <2>5. QED
      BY <2>1, <2>2, <2>3, <2>4
  <1>6. secret' \in [Document -> Secret] /\ happened' \in 0..MaxEvents
    <2>1. NoSecret \in Secret
      BY DEF Secret
    <2>2. QED
      BY <1>1, <1>4, <2>1 DEF Finish, SyncSaves, ResetRow, DeleteRow, Doc, Inv, TypeOK
  <1> HIDE DEF d
  <1>7. Update(proc[p].doc, new) /\ (Here(proc[p].doc) => new \in Row)
    BY <1>5 DEF d
  <1>8. QED
    BY <1>1, <1>2, <1>3, <1>5, <1>6, <1>7, WriteKeeps DEF Becomes, d

\* POST /api/sessions: a session nobody refers to, with a name no session has.
LEMMA CreateSessionInv == ASSUME Inv, NEW p \in Actor, CreateSession(p) PROVE Inv'
  <1>1. /\ proc[p].pc = "create" /\ UNCHANGED <<row, secret, removed, happened>>
        /\ happened' \in 0..MaxEvents /\ proc[p].doc \in Document
    BY ProcTypes DEF CreateSession, Inv, TypeOK
  <1>2. CASE UNCHANGED <<gw, lost>> /\ To(p, "find")
    <2>1. lost' \subseteq Id
      BY <1>2 DEF Inv, TypeOK
    <2>2. QED
      BY <1>1, <1>2, <2>1, ToKeeps DEF Phases, Knowing, GivingUp
  <1>3. ASSUME NEW g \in Id, Unused(g), Named(GatewayName[Doc(p)]) = {}, lost' = lost \ {g},
               gw' = [gw EXCEPT ![g] = [name |-> GatewayName[Doc(p)], live |-> TRUE,
                                        hooks |-> {}]],
               Holding(p, "record", g)
        PROVE  Inv'
    <2> DEFINE s == [name |-> GatewayName[proc[p].doc], live |-> TRUE, hooks |-> {}]
    <2>1. s \in GwSession /\ s.name = GatewayName[proc[p].doc] /\ s.live
      BY <1>1 DEF GwSession, NameOfGateway
    <2>2. gw' = [gw EXCEPT ![g] = s]
      BY <1>3 DEF Doc
    <2> HIDE DEF s
    <2>3. /\ gw' \in [Id -> GwSession] /\ gw'[g] = s
          /\ \A h \in Id : h # g => gw'[h] = gw[h]
      BY <2>1, <2>2 DEF Inv, TypeOK
    <2>4. /\ Becomes(p, [proc[p] EXCEPT !.pc = "record", !.id = g])
          /\ proc'[p].pc = "record" /\ proc'[p].id = g /\ proc'[p].doc = proc[p].doc
      BY <1>3, HoldingTypes DEF Inv, Phases
    <2>5. \A h \in Id, d \in Document : h # g /\ Tied(h, d) => Tied(h, d)'
      BY <1>1, <2>3 DEF Tied
    <2>6. Tied(g, proc[p].doc)'
      BY <2>1, <2>3, <2>4 DEF Tied
    <2>7. ProcInv(p)'
      BY <1>1, <2>4, <2>6 DEF ProcInv, Inv, TieInv, Knowing, GivingUp, Id, None
    <2>8. \A q \in Actor : q # p => ProcInv(q)'
      <3> SUFFICES ASSUME NEW q \in Actor, q # p PROVE ProcInv(q)'
        OBVIOUS
      <3>1. ProcInv(q) /\ proc'[q] = proc[q] /\ proc[q].doc \in Document /\ proc[q].id # g
        BY <1>3, <2>4, ProcTypes DEF Inv, TieInv, Becomes, Unused
      <3>2. QED
        BY <1>1, <2>5, <3>1 DEF ProcInv, Tied
    <2>9. \A d \in Document : RowInv(d)'
      <3> SUFFICES ASSUME NEW d \in Document PROVE RowInv(d)'
        OBVIOUS
      <3>1. RowInv(d) /\ row[d].id # g
        BY <1>3 DEF Inv, TieInv, Unused
      <3>2. QED
        BY <1>1, <2>5, <3>1 DEF RowInv, Tied
    <2>10. UniqueNames'
      <3>1. \A h \in Id : h # g /\ gw[h].live => gw[h].name # s.name
        BY <1>3, <2>1 DEF Named, Doc
      <3>2. QED
        BY <2>3, <3>1 DEF Inv, TieInv, UniqueNames
    <2>11. OrphansExplained'
      <3> SUFFICES ASSUME NEW h \in Id, Orphan(h)', h # g
                   PROVE  \/ \E q \in Actor : /\ proc'[q].pc \in {"record", "delete", "release"}
                                              /\ proc'[q].id = h
                          \/ h \in lost'
                          \/ gw'[h].name \in removed'
        BY <2>4 DEF OrphansExplained
      <3>1. Orphan(h)
        BY <1>1, <2>3 DEF Orphan
      <3>2. CASE h \in lost \/ gw[h].name \in removed
        BY <1>1, <1>3, <2>3, <3>2
      <3>3. ASSUME NEW q \in Actor, proc[q].pc \in {"record", "delete", "release"},
                   proc[q].id = h
            PROVE  proc'[q] = proc[q]
        BY <1>1, <2>4, <3>3 DEF Becomes
      <3>4. QED
        BY <3>1, <3>2, <3>3 DEF Inv, OrphansExplained
    <2>12. TypeOK'
      BY <1>1, <1>3, <2>3, <2>4 DEF Becomes, Inv, TypeOK
    <2>13. QED
      BY <2>7, <2>8, <2>9, <2>10, <2>11, <2>12 DEF Inv, TieInv
  <1>4. QED
    BY <1>2, <1>3 DEF CreateSession

LEMMA NextInv == Inv /\ [Next]_vars => Inv'
  <1> SUFFICES ASSUME Inv, [Next]_vars PROVE Inv'
    OBVIOUS
  <1>1. happened \in 0..MaxEvents
    BY DEF Inv, TypeOK
  <1>2. ASSUME NEW d \in Document, Insert(d) PROVE Inv'
    BY <1>2, InsertInv
  <1>3. ASSUME NEW d \in Document, OperatorRetries(d) PROVE Inv'
    BY <1>1, <1>3, RequestStartInv DEF OperatorRetries
  <1>4. ASSUME NEW r \in Request, NEW d \in Document,
               OperatorActs(r, d) \/ TrashStarts(r, d) \/ SyncReads(r, d)
        PROVE  Inv'
    <2>1. happened' \in 0..MaxEvents
      BY <1>1, <1>4, HappensKeeps DEF OperatorActs, TrashStarts, SyncReads
    <2>2. QED
      BY <1>4, <2>1, RequestStartInv DEF OperatorActs
  <1>5. ASSUME NEW r \in Request, GatewayKeeps(r) \/ DeleteRefused(r) PROVE Inv'
    BY <1>5, GatewayKeepsInv, DeleteRefusedInv
  <1>6. ASSUME NEW p \in Actor, Works(p) PROVE Inv'
    BY <1>6, CreateSessionInv, FindSessionInv, RecordIdInv, WorkInv, StartSessionInv,
       LastWriteInv, GatewayDeletesInv DEF Works
  <1>7. ASSUME NEW p \in Actor, SecretFails(p) \/ WebhookRefused(p) \/ CallFails(p) \/ Dies(p)
        PROVE  Inv'
    BY <1>7, SecretFailsInv, WorkInv, CallFailsInv, DiesInv
  <1>8. CASE UNCHANGED vars
    <2>1. UNCHANGED <<gw, row, secret, proc, lost, removed, happened>>
      BY <1>8 DEF vars
    <2>2. QED
      BY <2>1 DEF Inv, TypeOK, TieInv, ProcInv, RowInv, Tied, UniqueNames, OrphansExplained,
                  Orphan
  <1>9. QED
    BY <1>2, <1>3, <1>4, <1>5, <1>6, <1>7, <1>8 DEF Next

LEMMA Invariance == Spec => []Inv
  <1>1. QED
    BY InitInv, NextInv, PTL DEF Spec

\* The records of both sides stay what they are said to be (openwa_session.json,
\* provision.py:104-160).
THEOREM TypeCorrect == Spec => []TypeOK
  <1>1. Inv => TypeOK
    BY DEF Inv
  <1>2. QED
    BY <1>1, Invariance, PTL

\* provision.py:126-132: whatever interleaves, fails or dies, a session of the
\* gateway that no document names is being recorded or deleted, was lost by a
\* death or a refused DELETE, or bears a name somebody gave up.
THEOREM OrphansAreExplained == Spec => []OrphansExplained
  <1>1. Inv => OrphansExplained
    BY DEF Inv
  <1>2. QED
    BY <1>1, Invariance, PTL

-----------------------------------------------------------------------------
(* What a job leaves on its document.                                      *)

\* A step of p changes nobody else's local state.
LEMMA OneAtATime ==
    ASSUME TypeOK, NEW p \in Actor, NEW q \in Actor, q # p,
           Works(p) \/ SecretFails(p) \/ WebhookRefused(p) \/ CallFails(p) \/ Dies(p)
             \/ GatewayKeeps(p) \/ DeleteRefused(p)
    PROVE  proc'[q] = proc[q]
  <1>1. CASE CreateSession(p) \/ FindSession(p) \/ RecordId(p) \/ ReadSecret(p)
    BY <1>1 DEF CreateSession, FindSession, RecordId, ReadSecret, To, Holding, Fails, Ends, TypeOK
  <1>2. CASE MintSecret(p) \/ RegisterWebhook(p) \/ StartSession(p) \/ Finish(p)
    BY <1>2 DEF MintSecret, RegisterWebhook, StartSession, Finish, To, Fails, Ends, TypeOK
  <1>3. CASE GatewayDeletes(p) \/ ResetRow(p) \/ DeleteRow(p) \/ SyncSaves(p)
               \/ (p \in Document /\ JobStarts(p))
    BY <1>3 DEF GatewayDeletes, ResetRow, DeleteRow, SyncSaves, JobStarts, To, Ends, TypeOK
  <1>4. CASE SecretFails(p) \/ WebhookRefused(p) \/ CallFails(p) \/ Dies(p) \/ GatewayKeeps(p)
               \/ DeleteRefused(p)
    BY <1>4 DEF SecretFails, WebhookRefused, CallFails, Dies, GatewayKeeps, DeleteRefused, To,
                Fails, Ends, TypeOK
  <1>5. QED
    BY <1>1, <1>2, <1>3, <1>4 DEF Works

\* The job's failure writes the flag, where there is still a row to write.
LEMMA FailureIsWritten ==
    ASSUME TypeOK, NEW d \in Document, Fails(d), row'[d].is = "here"
    PROVE  row'[d].attention
  <1>1. row[d] \in Row /\ Update(d, [row[d] EXCEPT !.attention = TRUE])
    BY DEF Fails, TypeOK
  <1>2. Here(d)
    BY <1>1 DEF Update, Here
  <1>3. row[d] \in [is: {"here"}, id: Id \cup {None}, attention: BOOLEAN]
    BY <1>1, <1>2, RowTypes DEF Here
  <1>4. [row[d] EXCEPT !.attention = TRUE].attention
    BY <1>3
  <1>5. row' = [row EXCEPT ![d] = [row[d] EXCEPT !.attention = TRUE]]
    BY <1>1, <1>2 DEF Update
  <1>6. QED
    BY <1>4, <1>5 DEF TypeOK

\* A step that ends the work of a job, other than by death.
LEMMA JobEnds ==
    ASSUME Inv, NEW d \in Document, Next,
           Working(d), proc'[d].pc = "idle", row'[d].is = "here"
    PROVE  row'[d].attention \/ (proc[d].pc = "finish" /\ ~proc[d].warned)
  <1>1. /\ TypeOK /\ ProcInv(d) /\ d \in Actor /\ proc[d] \in ProcState /\ row[d] \in Row
        /\ proc[d].pc \notin {"idle", "queued", "died"}
    BY DEF Inv, TieInv, TypeOK, Actor, Working
  <1>2. proc[d].doc = d /\ proc[d].pc \notin GivingUp \cup {"sync"}
    BY <1>1 DEF ProcInv
  <1>3. ~Fails(d) => \/ Works(d) \/ SecretFails(d) \/ WebhookRefused(d) \/ CallFails(d) \/ Dies(d)
    <2>1. ASSUME NEW e \in Document, Insert(e) PROVE FALSE
      <3>1. PICK pc \in {"queued", "died"} : proc' = [proc EXCEPT ![e] = Fresh(e, pc)]
        BY <2>1 DEF Insert
      <3>2. CASE e = d
        BY <1>1, <2>1, <3>2 DEF Insert, ProcInv, Inv, TieInv
      <3>3. CASE e # d
        BY <1>1, <3>1, <3>3 DEF TypeOK
      <3>4. QED
        BY <3>2, <3>3
    <2>2. ASSUME NEW r \in Request, NEW e \in Document,
                 ButtonStarts(r, e) \/ DeregisterStarts(r, e) \/ TrashStarts(r, e)
                   \/ SyncReads(r, e)
          PROVE  FALSE
      <3>1. r # d
        BY ActorAssumption
      <3>2. proc'[d] = proc[d]
        BY <1>1, <2>2, <3>1 DEF ButtonStarts, DeregisterStarts, TrashStarts, SyncReads, TypeOK
      <3>3. QED
        BY <1>1, <3>2
    <2>3. ASSUME NEW r \in Request, GatewayKeeps(r) \/ DeleteRefused(r) PROVE FALSE
      <3>1. r \in Actor /\ r # d
        BY ActorAssumption DEF Actor
      <3>2. proc'[d] = proc[d]
        BY <1>1, <2>3, <3>1, OneAtATime
      <3>3. QED
        BY <1>1, <3>2
    <2>4. ASSUME NEW p \in Actor, p # d,
                 Works(p) \/ SecretFails(p) \/ WebhookRefused(p) \/ CallFails(p) \/ Dies(p)
          PROVE  FALSE
      <3>1. proc'[d] = proc[d]
        BY <1>1, <2>4, OneAtATime
      <3>2. QED
        BY <1>1, <3>1
    <2>5. QED
      BY <2>1, <2>2, <2>3, <2>4 DEF Next, OperatorRetries, OperatorActs
  <1>4. CASE Fails(d)
    BY <1>1, <1>4, FailureIsWritten
  <1>5. CASE ~Fails(d) /\ Works(d)
    <2>1. \A pc \in Phases : To(d, pc) => pc = "idle"
      BY <1>1, ToTypes
    <2>2. \A g \in Id : ~Holding(d, "record", g)
      BY <1>1, HoldingTypes DEF Phases
    <2>3. ~CreateSession(d) /\ ~FindSession(d) /\ ~RecordId(d) /\ ~RegisterWebhook(d)
      BY <1>5, <2>1, <2>2 DEF CreateSession, FindSession, RecordId, RegisterWebhook, Named, Phases
    <2>4. ~StartSession(d) /\ ~JobStarts(d)
      BY <1>1, <1>5, <2>1 DEF StartSession, JobStarts, Phases
    <2>5. ~ReadSecret(d) /\ ~MintSecret(d) /\ ~WebhookRefused(d)
      <3>1. ~ReadSecret(d)
        <4>1. ASSUME ReadSecret(d) PROVE proc'[d].pc \in {"mint", "register"}
          BY <1>1, <4>1 DEF ReadSecret, ProcState, TypeOK
        <4>2. QED
          BY <4>1
      <3>2. ~MintSecret(d)
        BY <1>1 DEF MintSecret, ProcState, TypeOK
      <3>3. ~WebhookRefused(d)
        BY <1>1 DEF WebhookRefused, ProcState, TypeOK
      <3>4. QED
        BY <3>1, <3>2, <3>3
    <2>6. ~GatewayDeletes(d) /\ ~ResetRow(d) /\ ~DeleteRow(d) /\ ~SyncSaves(d)
      BY <1>2 DEF GatewayDeletes, ResetRow, DeleteRow, SyncSaves, GivingUp
    <2>7. Finish(d)
      BY <1>5, <2>3, <2>4, <2>5, <2>6 DEF Works
    <2>8. ASSUME proc[d].warned PROVE row'[d].attention
      <3>1. PICK flag : /\ flag = (row[d].attention \/ proc[d].warned)
                        /\ Update(d, [row[d] EXCEPT !.id = proc[d].id, !.attention = flag])
        BY <1>2, <2>7 DEF Finish, Doc
      <3>2. flag = TRUE
        BY <2>8, <3>1
      <3>3. Here(d)
        BY <3>1 DEF Update, Here
      <3>4. row[d] \in [is: {"here"}, id: Id \cup {None}, attention: BOOLEAN]
        BY <1>1, <3>3, RowTypes DEF Here
      <3>5. [row[d] EXCEPT !.id = proc[d].id, !.attention = flag].attention = flag
        BY <3>4
      <3>6. row' = [row EXCEPT ![d] = [row[d] EXCEPT !.id = proc[d].id, !.attention = flag]]
        BY <3>1, <3>3 DEF Update
      <3>7. row'[d].attention = flag
        BY <1>1, <3>5, <3>6 DEF TypeOK
      <3>8. QED
        BY <3>2, <3>7
    <2>9. QED
      BY <2>7, <2>8 DEF Finish
  <1>6. CASE ~Fails(d) /\ (SecretFails(d) \/ WebhookRefused(d) \/ CallFails(d) \/ Dies(d))
    <2>0. ~SecretFails(d)
      <3>1. \A pc \in {"mint", "register"} : ~To(d, pc)
        BY <1>1, ToTypes DEF Phases
      <3>2. QED
        BY <3>1 DEF SecretFails
    <2>1. ~WebhookRefused(d)
      BY <1>1 DEF WebhookRefused, ProcState, TypeOK
    <2>2. ~Dies(d)
      <3>1. [IdleProc EXCEPT !.pc = "died"].pc = "died"
        BY IdleTypes DEF ProcState
      <3>2. QED
        BY <1>1, <3>1 DEF Dies, TypeOK
    <2>3. QED
      BY <1>6, <2>0, <2>1, <2>2 DEF CallFails
  <1>7. QED
    BY <1>3, <1>4, <1>5, <1>6

\* provision.py:54-60, 287-290: an auto-provision never ends without the
\* webhook and without a word: whoever else writes the document, its last
\* commit leaves the attention flag set.
THEOREM JobsLeaveWord == Spec => JobLeavesWord
  <1>1. Inv /\ [Next]_vars => [\A d \in Document :
            (Working(d) /\ proc'[d].pc = "idle" /\ row'[d].is = "here") =>
                \/ row'[d].attention
                \/ proc[d].pc = "finish" /\ ~proc[d].warned]_vars
    BY JobEnds
  <1>2. QED
    BY <1>1, Invariance, PTL DEF Spec, JobLeavesWord

=============================================================================
