------------------------- MODULE MessageSendProofs -------------------------
(* Proofs about MessageSend, for any account, sessions, messages and       *)
(* number of faults.                                                       *)
EXTENDS MessageSend, FoldLemmas

\* A cached answer to a request of a campaign names a session of its pool.
CacheInv == \A c \in cached : (c.req.pool # {} /\ c.to = "openwa") => c.session \in c.req.pool

\* A message of a campaign that was never queued is on its way to a session of
\* the pool, by the road of a document.
OnItsRoad(m) ==
    /\ proc[m].pc = "check" => proc[m].worker
    /\ (~proc[m].worker /\ kind[m].req.pool # {}) =>
          /\ proc[m].pc # "again"
          /\ proc[m].pc \in {"alive", "reserve", "send"} => proc[m].session \in kind[m].req.pool
          /\ out[m].from \subseteq kind[m].req.pool

\* Nothing has gone out of a message that is still going to be sent.
StillToSend == {"resolve", "again", "alive", "check", "reserve", "send", "meta", "adapter",
                "failed", "queued"}
Ledger(m) ==
    out[m].unsure \/ (Sends(m) <= 1 /\ (proc[m].pc \in StillToSend => Sends(m) = 0))

MessageInv(m) == OnItsRoad(m) /\ Ledger(m)
Inv == TypeOK /\ CacheInv /\ \A m \in Message : MessageInv(m)

-----------------------------------------------------------------------------
LEMMA KindTypes == ASSUME TypeOK, NEW m \in Message
                   PROVE  /\ kind[m] \in Kinds /\ kind[m].req \in Requests
                          /\ kind[m].req.pool # {} => kind[m].via = "document"
  BY KindAssumption, CampaignAssumption DEF TypeOK, Kinds

LEMMA CandidateTypes ==
    ASSUME TypeOK, NEW req \in Requests, NEW s \in Candidates(req)
    PROVE  s \in Session \cup {None} /\ (req.pool # {} => s \in req.pool)
  <1>1. /\ world.linked \subseteq Session /\ world.ext \in Session \cup {None}
        /\ req.pool \subseteq Session
    BY WorldAssumption DEF TypeOK, Worlds, Requests
  <1>2. Permitted(req) \subseteq Session /\ (req.pool # {} => Permitted(req) \subseteq req.pool)
    BY <1>1 DEF Permitted
  <1>3. Usable(req) \subseteq Permitted(req)
    BY DEF Usable
  <1>4. \A S : Spread(S) \subseteq S
    BY DEF Spread
  <1>5. CASE Permitted(req) = {}
    BY <1>1, <1>5 DEF Candidates
  <1>6. CASE Permitted(req) # {}
    <2>1. s \in Permitted(req)
      BY <1>3, <1>4, <1>6 DEF Candidates, Spill, OneSession
    <2>2. QED
      BY <1>2, <2>1
  <1>7. QED
    BY <1>5, <1>6

\* An answer is well typed and, for a campaign, from its pool; so is the cache.
LEMMA ResolvesTo ==
    ASSUME TypeOK, CacheInv, NEW m \in Message, NEW req \in Requests, NEW next,
           Resolves(m, req, next)
    PROVE  /\ CacheInv'
           /\ \A c \in cached' : /\ c.req \in Requests /\ c.to \in {"openwa", "meta"}
                                 /\ c.session \in Session \cup {None}
           /\ report' \in {"none", "claimed", "written"}
           /\ \E a \in Answer :
                 /\ (req.pool # {} /\ a.to = "openwa") => a.session \in req.pool
                 /\ \/ proc' = [proc EXCEPT ![m] = next[a]]
                    \/ \E flag \in BOOLEAN :
                          proc' = [proc EXCEPT ![m] = [next[a] EXCEPT !.alert = @ \/ flag]]
  <1>1. CASE Hits(req) # {}
    <2>1. PICK c \in Hits(req) :
             proc' = [proc EXCEPT ![m] = next[[to |-> c.to, session |-> c.session]]]
      BY <1>1 DEF Resolves
    <2>2. c \in cached /\ c.req = req
      BY DEF Hits, Key
    <2>3. [to |-> c.to, session |-> c.session] \in Answer
      BY <2>2 DEF Answer, TypeOK
    <2>4. UNCHANGED <<cached, report>>
      BY <1>1 DEF Resolves
    <2>5. QED
      BY <2>1, <2>2, <2>3, <2>4 DEF CacheInv, TypeOK
  <1>2. CASE Hits(req) = {}
    <2>1. PICK a \in Answers(req), flag \in BOOLEAN :
             /\ cached' = IF Caches(req)
                          THEN cached \cup {[req |-> Key(req), to |-> a.to, session |-> a.session]}
                          ELSE cached
             /\ report' = IF flag THEN "claimed" ELSE report
             /\ proc' = [proc EXCEPT ![m] = [next[a] EXCEPT !.alert = @ \/ flag]]
      BY <1>2 DEF Resolves, Unavailable
    <2>2. a \in Answer /\ ((req.pool # {} /\ a.to = "openwa") => a.session \in req.pool)
      BY CandidateTypes DEF Answers, Answer, Meta
    <2>3. \A c \in cached' : /\ c.req \in Requests /\ c.to \in {"openwa", "meta"}
                             /\ c.session \in Session \cup {None}
      BY <2>1, <2>2 DEF Answer, Key, TypeOK
    <2>4. CacheInv'
      BY <2>1, <2>2 DEF CacheInv, Key
    <2>5. QED
      BY <2>1, <2>2, <2>3, <2>4 DEF TypeOK
  <1>3. QED
    BY <1>1, <1>2

LEMMA InitInv == Init => Inv
  <1> SUFFICES ASSUME Init PROVE Inv
    OBVIOUS
  <1>1. Start \in Proc /\ Start.pc = "resolve" /\ ~Start.worker
    BY DEF Start, Proc
  <1>2. Nothing \in Out /\ Nothing.copies = 0 /\ Nothing.meta = 0 /\ Nothing.from = {}
    BY DEF Nothing, Out
  <1>3. 0 \in 0..MaxEvents
    BY BoundAssumption
  <1>4. TypeOK
    BY <1>1, <1>2, <1>3 DEF Init, TypeOK
  <1>5. QED
    BY <1>1, <1>2, <1>4
       DEF Init, Inv, CacheInv, MessageInv, OnItsRoad, Ledger, Sends, StillToSend

-----------------------------------------------------------------------------
(* What the steps are made of.                                             *)

\* What all messages share.
SharedInv ==
    /\ world \in World
    /\ up \subseteq Session /\ believed \subseteq Session
    /\ count \in [Session -> Nat]
    /\ \A c \in cached : c.req \in Requests /\ c.to \in {"openwa", "meta"}
                            /\ c.session \in Session \cup {None}
    /\ CacheInv
    /\ report \in {"none", "claimed", "written"}
    /\ kind \in [Message -> Kind]
    /\ happened \in 0..MaxEvents

\* A step of m leaves the other messages alone.
OthersKept(m) == \A q \in Message : q # m => proc'[q] = proc[q] /\ out'[q] = out[q]

LEMMA OneMoves ==
    ASSUME Inv, NEW m \in Message, SharedInv', kind' = kind,
           proc' \in [Message -> Proc], out' \in [Message -> Out], OthersKept(m),
           MessageInv(m)'
    PROVE  Inv'
  <1>1. \A q \in Message : q # m => MessageInv(q)'
    BY DEF Inv, OthersKept, MessageInv, OnItsRoad, Ledger, Sends
  <1>2. QED
    BY <1>1 DEF Inv, SharedInv, TypeOK

\* m goes to pc, and its transaction may end.
LEMMA MovesTo ==
    ASSUME TypeOK, NEW m \in Message, NEW pc,
           pc \in {"alive", "reserve", "send", "meta", "adapter", "sent", "failed", "insert",
                   "queued", "done", "error"},
           To(m, pc) \/ Ends(m, pc)
    PROVE  /\ proc' \in [Message -> Proc]
           /\ \A q \in Message : q # m => proc'[q] = proc[q]
           /\ proc'[m].pc = pc
           /\ proc'[m].worker = proc[m].worker
           /\ proc'[m].session = proc[m].session
  <1>1. proc[m] \in Proc
    BY DEF TypeOK
  <1>2. CASE To(m, pc)
    BY <1>1, <1>2 DEF TypeOK, Proc, To
  <1>3. CASE Ends(m, pc)
    <2>1. proc' = [proc EXCEPT ![m] = [proc[m] EXCEPT !.pc = pc, !.held = FALSE, !.alert = FALSE]]
      BY <1>3 DEF Ends
    <2>2. [proc[m] EXCEPT !.pc = pc, !.held = FALSE, !.alert = FALSE] \in Proc
      BY <1>1 DEF Proc
    <2>3. QED
      BY <1>1, <2>1, <2>2 DEF TypeOK, Proc
  <1>4. QED
    BY <1>2, <1>3

\* ... and nothing goes out: it must be no step back, and not to a session
\* it has not been told of.
LEMMA QuietMove ==
    ASSUME Inv, NEW m \in Message, NEW pc, kind' = kind, out' = out, SharedInv',
           To(m, pc) \/ Ends(m, pc),
           \/ /\ pc \in {"reserve", "send"}
              /\ proc[m].pc \in {"alive", "reserve"}
           \/ /\ pc \in {"queued", "meta", "adapter", "failed"}
              /\ proc[m].pc \in StillToSend
           \/ pc \in {"sent", "done", "error"}
    PROVE  Inv'
  <1>1. /\ proc' \in [Message -> Proc]
        /\ \A q \in Message : q # m => proc'[q] = proc[q]
        /\ proc'[m].pc = pc
        /\ proc'[m].worker = proc[m].worker
        /\ proc'[m].session = proc[m].session
    BY MovesTo DEF Inv
  <1>2. OnItsRoad(m)'
    BY <1>1 DEF Inv, MessageInv, OnItsRoad
  <1>3. Ledger(m)'
    BY <1>1 DEF Inv, MessageInv, Ledger, Sends, StillToSend
  <1>4. QED
    BY <1>1, <1>2, <1>3, OneMoves DEF Inv, TypeOK, OthersKept, MessageInv

LEMMA HappensKeeps ==
    ASSUME happened \in 0..MaxEvents, Happens
    PROVE  happened' \in 0..MaxEvents
  BY BoundAssumption DEF Happens

LEMMA AliveKeeps ==
    ASSUME TypeOK, NEW s \in Session \cup {None}, NEW alive, Alive(s, alive)
    PROVE  believed' \subseteq Session
  BY DEF TypeOK, Alive

LEMMA InvShared == Inv => SharedInv
  BY DEF Inv, SharedInv, TypeOK


-----------------------------------------------------------------------------
(* Steps.                                                                  *)

LEMMA EnvironmentInv ==
    ASSUME Inv, SessionMoves \/ StatusIsLearnt \/ KeysExpire
    PROVE  Inv'
  <1>1. UNCHANGED <<world, count, kind, proc, out>>
    BY DEF SessionMoves, StatusIsLearnt, KeysExpire
  <1>2. SharedInv'
    BY HappensKeeps DEF SessionMoves, StatusIsLearnt, KeysExpire, Inv, SharedInv, TypeOK, CacheInv
  <1>3. QED
    BY <1>1, <1>2 DEF Inv, SharedInv, TypeOK, MessageInv, OnItsRoad, Ledger, Sends

\* The steps in which nothing goes out and only `pc` moves on.
LEMMA QuietInv ==
    ASSUME Inv, NEW m \in Message,
           \/ ShouldQueue(m) \/ CapReached(m) \/ GatewayRefuses(m) \/ NoAdapter(m)
           \/ MetaFails(m) \/ AdapterInserts(m) \/ Succeeds(m) \/ Fails(m) \/ RollsBack(m)
    PROVE  Inv'
  <1>1. /\ UNCHANGED <<world, up, cached, kind, out>>
        /\ report' \in {"none", "claimed", "written"}
    BY DEF ShouldQueue, CapReached, GatewayRefuses, NoAdapter, MetaFails, AdapterInserts,
           Succeeds, Fails, RollsBack, Commits, Inv, TypeOK
  <1>2. happened' \in 0..MaxEvents
    BY HappensKeeps DEF ShouldQueue, CapReached, GatewayRefuses, NoAdapter, MetaFails,
           AdapterInserts, Succeeds, Fails, RollsBack, Inv, TypeOK
  <1>3. believed' \subseteq Session
    <2>1. CASE ShouldQueue(m)
      <3>1. proc[m].session \in Session \cup {None}
        BY DEF Inv, TypeOK, Proc
      <3>2. believed' = believed \/ \E alive \in BOOLEAN : Alive(proc[m].session, alive)
        BY <2>1 DEF ShouldQueue
      <3>3. QED
        BY <3>1, <3>2, AliveKeeps DEF Inv, TypeOK
    <2>2. CASE ~ShouldQueue(m)
      BY <2>2 DEF CapReached, GatewayRefuses, NoAdapter, MetaFails, AdapterInserts,
                  Succeeds, Fails, RollsBack, Inv, TypeOK
    <2>3. QED
      BY <2>1, <2>2
  <1>4. count' \in [Session -> Nat]
    BY DEF ShouldQueue, CapReached, GatewayRefuses, NoAdapter, MetaFails, AdapterInserts,
           Succeeds, Fails, RollsBack, Inv, TypeOK
  <1>5. SharedInv'
    BY <1>1, <1>2, <1>3, <1>4, InvShared DEF SharedInv, CacheInv
  <1>6. CASE ShouldQueue(m)
    <2>1. proc[m].pc = "alive" /\ (To(m, "reserve") \/ Ends(m, "queued"))
      BY <1>6 DEF ShouldQueue
    <2>2. QED
      BY <1>1, <1>5, <2>1, QuietMove DEF StillToSend
  <1>7. CASE CapReached(m)
    <2>1. proc[m].pc = "reserve" /\ (Ends(m, "queued") \/ To(m, "meta"))
      BY <1>7 DEF CapReached
    <2>2. QED
      BY <1>1, <1>5, <2>1, QuietMove DEF StillToSend
  <1>8. CASE GatewayRefuses(m) \/ NoAdapter(m)
    <2>1. proc[m].pc = "send" /\ (To(m, "meta") \/ To(m, "adapter") \/ To(m, "failed"))
      BY <1>8 DEF GatewayRefuses, NoAdapter, MetaFallback
    <2>2. QED
      BY <1>1, <1>5, <2>1, QuietMove DEF StillToSend
  <1>9. CASE MetaFails(m)
    <2>1. proc[m].pc \in StillToSend /\ To(m, "failed")
      BY <1>9 DEF MetaFails, StillToSend
    <2>2. QED
      BY <1>1, <1>5, <2>1, QuietMove
  <1>10. CASE AdapterInserts(m) \/ Succeeds(m) \/ RollsBack(m)
    <2>1. To(m, "sent") \/ Ends(m, "done") \/ Ends(m, "error")
      BY <1>10 DEF AdapterInserts, Succeeds, RollsBack
    <2>2. QED
      BY <1>1, <1>5, <2>1, QuietMove
  <1>11. CASE Fails(m)
    <2>1. proc[m].pc \in StillToSend /\ (Ends(m, "queued") \/ Ends(m, "error"))
      BY <1>11 DEF Fails, StillToSend
    <2>2. QED
      BY <1>1, <1>5, <2>1, QuietMove
  <1>12. QED
    BY <1>6, <1>7, <1>8, <1>9, <1>10, <1>11

LEMMA ReserveInv == ASSUME Inv, NEW m \in Message, Reserve(m) PROVE Inv'
  <1> DEFINE p == [proc[m] EXCEPT !.held = TRUE, !.pc = "send"]
  <1>1. proc[m] \in Proc /\ proc[m].pc = "reserve"
    BY DEF Inv, TypeOK, Reserve
  <1>2. /\ p \in Proc /\ p.pc = "send" /\ p.worker = proc[m].worker
        /\ p.session = proc[m].session
    BY <1>1 DEF Proc
  <1>3. proc' = [proc EXCEPT ![m] = p] /\ UNCHANGED <<kind, out>>
    BY DEF Reserve
  <1>4. SharedInv'
    BY InvShared DEF Reserve, SharedInv, CacheInv
  <1>5. proc' \in [Message -> Proc] /\ OthersKept(m) /\ proc'[m] = p
    BY <1>2, <1>3 DEF Inv, TypeOK, OthersKept
  <1>6. MessageInv(m)'
    BY <1>1, <1>2, <1>3, <1>5
       DEF Inv, MessageInv, OnItsRoad, Ledger, Sends, StillToSend
  <1>7. QED
    BY <1>3, <1>4, <1>5, <1>6, OneMoves DEF Inv, TypeOK

\* Something goes out, or may have.
LEMMA SendInv ==
    ASSUME Inv, NEW m \in Message,
           GatewayAccepts(m) \/ NoAnswer(m) \/ MetaSends(m) \/ AdapterInsertFails(m)
    PROVE  Inv'
  <1>1. /\ proc[m] \in Proc /\ out[m] \in Out
        /\ UNCHANGED <<world, up, believed, count, cached, report, kind>>
    BY DEF Inv, TypeOK, GatewayAccepts, NoAnswer, MetaSends, AdapterInsertFails
  <1>2. SharedInv'
    BY <1>1, InvShared, HappensKeeps
       DEF GatewayAccepts, NoAnswer, MetaSends, AdapterInsertFails, SharedInv, CacheInv
  <1>3. CASE GatewayAccepts(m)
    <2>1. /\ proc' \in [Message -> Proc] /\ proc'[m].pc = "sent"
          /\ proc'[m].worker = proc[m].worker
          /\ \A q \in Message : q # m => proc'[q] = proc[q]
      BY <1>3, MovesTo DEF GatewayAccepts, Inv
    <2>2. /\ proc[m].pc = "send" /\ proc[m].session \in Session
          /\ out' = [out EXCEPT ![m] = [out[m] EXCEPT !.from = @ \cup {proc[m].session},
                                            !.copies = @ + 1, !.accepted = @ + 1]]
      BY <1>3 DEF GatewayAccepts, Inv, TypeOK
    <2>3. /\ out' \in [Message -> Out]
          /\ out'[m].from = out[m].from \cup {proc[m].session}
          /\ out'[m].copies = out[m].copies + 1 /\ out'[m].meta = out[m].meta
          /\ out'[m].unsure = out[m].unsure
          /\ \A q \in Message : q # m => out'[q] = out[q]
      <3> DEFINE o == [out[m] EXCEPT !.from = @ \cup {proc[m].session},
                                     !.copies = @ + 1, !.accepted = @ + 1]
      <3>1. /\ out[m].from \subseteq Session /\ out[m].copies + 1 \in Nat
            /\ out[m].accepted + 1 \in Nat
        BY <1>1 DEF Out
      <3>2. /\ o \in Out /\ o.from = out[m].from \cup {proc[m].session}
            /\ o.copies = out[m].copies + 1 /\ o.meta = out[m].meta
            /\ o.unsure = out[m].unsure
        BY <1>1, <2>2, <3>1 DEF Out
      <3>3. QED
        BY <2>2, <3>2 DEF Inv, TypeOK
    <2>4. MessageInv(m)'
      BY <1>1, <2>1, <2>2, <2>3 DEF Inv, MessageInv, OnItsRoad, Ledger, Sends, StillToSend, Out
    <2>5. QED
      BY <1>1, <1>2, <2>1, <2>3, <2>4, OneMoves DEF OthersKept
  <1>4. CASE NoAnswer(m)
    <2>1. /\ proc[m].pc = "send" /\ proc'[m].pc \in {"send", "failed"}
          /\ proc' \in [Message -> Proc]
          /\ proc'[m].worker = proc[m].worker /\ proc'[m].session = proc[m].session
          /\ \A q \in Message : q # m => proc'[q] = proc[q]
      <3>1. CASE CallsAgain(m)
        <4> DEFINE p == [proc[m] EXCEPT !.calls = @ + 1, !.pc = "send"]
        <4>1. proc[m].calls = 0 /\ proc' = [proc EXCEPT ![m] = p]
          BY <1>4, <3>1 DEF NoAnswer, CallsAgain
        <4>2. /\ p \in Proc /\ p.pc = "send" /\ p.worker = proc[m].worker
              /\ p.session = proc[m].session
          <5>1. proc[m].calls + 1 \in 0..1
            BY <4>1
          <5>2. QED
            BY <1>1, <5>1 DEF Proc
        <4>3. proc[m].pc = "send"
          BY <1>4 DEF NoAnswer
        <4> HIDE DEF p
        <4>4. QED
          BY <4>1, <4>2, <4>3 DEF Inv, TypeOK
      <3>2. CASE ~CallsAgain(m)
        BY <1>1, <1>4, <3>2 DEF NoAnswer, Inv, TypeOK, Proc
      <3>3. QED
        BY <3>1, <3>2
    <2>2. CASE out' = out
      <3>1. MessageInv(m)'
        BY <1>1, <2>1, <2>2 DEF Inv, MessageInv, OnItsRoad, Ledger, Sends, StillToSend
      <3>2. QED
        BY <1>1, <1>2, <2>1, <2>2, <3>1, OneMoves DEF OthersKept, Inv, TypeOK
    <2>3. CASE out' # out
      <3>1. /\ proc[m].session \in Session
            /\ out' = [out EXCEPT ![m] = [out[m] EXCEPT !.from = @ \cup {proc[m].session},
                                              !.copies = @ + 1, !.unsure = TRUE]]
        BY <1>4, <2>3 DEF NoAnswer, Inv, TypeOK
      <3>2. /\ out' \in [Message -> Out]
            /\ out'[m].from = out[m].from \cup {proc[m].session} /\ out'[m].unsure
            /\ \A q \in Message : q # m => out'[q] = out[q]
        <4> DEFINE o == [out[m] EXCEPT !.from = @ \cup {proc[m].session},
                                       !.copies = @ + 1, !.unsure = TRUE]
        <4>1. out[m].from \subseteq Session /\ out[m].copies + 1 \in Nat
          BY <1>1 DEF Out
        <4>2. o \in Out /\ o.from = out[m].from \cup {proc[m].session} /\ o.unsure
          BY <1>1, <3>1, <4>1 DEF Out
        <4>3. QED
          BY <3>1, <4>2 DEF Inv, TypeOK
      <3>3. MessageInv(m)'
        BY <1>1, <2>1, <3>2 DEF Inv, MessageInv, OnItsRoad, Ledger
      <3>4. QED
        BY <1>1, <1>2, <2>1, <3>2, <3>3, OneMoves DEF OthersKept
    <2>4. QED
      BY <2>2, <2>3
  <1>5. CASE MetaSends(m)
    <2>1. /\ proc[m].pc \in {"meta", "adapter"} /\ proc'[m].pc \in {"sent", "insert"}
          /\ proc' \in [Message -> Proc]
          /\ proc'[m].worker = proc[m].worker
          /\ \A q \in Message : q # m => proc'[q] = proc[q]
      <3>1. CASE proc[m].pc = "meta"
        BY <1>1, <1>5, <3>1 DEF MetaSends, Inv, TypeOK, Proc
      <3>2. CASE proc[m].pc = "adapter"
        BY <1>1, <1>5, <3>2 DEF MetaSends, Inv, TypeOK, Proc
      <3>3. QED
        BY <1>5, <3>1, <3>2 DEF MetaSends
    <2>2. out' = [out EXCEPT ![m] = [out[m] EXCEPT !.meta = @ + 1]]
      BY <1>5 DEF MetaSends
    <2>3. /\ out' \in [Message -> Out]
          /\ out'[m].from = out[m].from
          /\ out'[m].copies = out[m].copies /\ out'[m].meta = out[m].meta + 1
          /\ out'[m].unsure = out[m].unsure
          /\ \A q \in Message : q # m => out'[q] = out[q]
      BY <1>1, <2>2 DEF Inv, TypeOK, Out
    <2>4. MessageInv(m)'
      BY <1>1, <2>1, <2>3 DEF Inv, MessageInv, OnItsRoad, Ledger, Sends, StillToSend, Out
    <2>5. QED
      BY <1>1, <1>2, <2>1, <2>3, <2>4, OneMoves DEF OthersKept
  <1>6. CASE AdapterInsertFails(m)
    <2>1. /\ proc' \in [Message -> Proc] /\ proc'[m].pc = "failed"
          /\ proc'[m].worker = proc[m].worker
          /\ \A q \in Message : q # m => proc'[q] = proc[q]
      BY <1>6, MovesTo DEF AdapterInsertFails, Inv
    <2>2. out' = [out EXCEPT ![m] = [out[m] EXCEPT !.unsure = TRUE]]
      BY <1>6 DEF AdapterInsertFails
    <2>3. /\ out' \in [Message -> Out]
          /\ out'[m].from = out[m].from /\ out'[m].unsure
          /\ \A q \in Message : q # m => out'[q] = out[q]
      BY <1>1, <2>2 DEF Inv, TypeOK, Out
    <2>4. MessageInv(m)'
      BY <1>1, <2>1, <2>3 DEF Inv, MessageInv, OnItsRoad, Ledger
    <2>5. QED
      BY <1>1, <1>2, <2>1, <2>3, <2>4, OneMoves DEF OthersKept
  <1>7. QED
    BY <1>3, <1>4, <1>5, <1>6


\* m takes an answer of the resolver.
LEMMA AlertKeeps ==
    ASSUME NEW p \in Proc, NEW flag \in BOOLEAN
    PROVE  LET q == [p EXCEPT !.alert = @ \/ flag]
           IN  /\ q \in Proc /\ q.pc = p.pc /\ q.worker = p.worker
               /\ q.session = p.session /\ q.to = p.to /\ q.held = p.held
  <1>1. p.alert \in BOOLEAN /\ (p.alert \/ flag) \in BOOLEAN
    BY DEF Proc
  <1>2. QED
    BY <1>1 DEF Proc

LEMMA TakesAnswer ==
    ASSUME Inv, NEW m \in Message, NEW p \in Proc, kind' = kind, out' = out, SharedInv',
           \/ proc' = [proc EXCEPT ![m] = p]
           \/ \E flag \in BOOLEAN : proc' = [proc EXCEPT ![m] = [p EXCEPT !.alert = @ \/ flag]],
           proc[m].pc \in StillToSend,
           p.pc = "check" => p.worker,
           proc[m].worker => p.worker,
           ~p.worker /\ kind[m].req.pool # {} =>
               \/ p.pc \in {"meta", "adapter"}
               \/ p.pc = "alive" /\ p.session \in kind[m].req.pool
    PROVE  Inv'
  <1>1. PICK q \in Proc : /\ proc' = [proc EXCEPT ![m] = q]
                          /\ q.pc = p.pc /\ q.worker = p.worker /\ q.session = p.session
    <2>1. CASE proc' = [proc EXCEPT ![m] = p]
      BY <2>1
    <2>2. CASE \E flag \in BOOLEAN :
                  proc' = [proc EXCEPT ![m] = [p EXCEPT !.alert = @ \/ flag]]
      BY <2>2, AlertKeeps
    <2>3. QED
      BY <2>1, <2>2
  <1>2. proc' \in [Message -> Proc] /\ OthersKept(m) /\ proc'[m] = q
    BY <1>1 DEF Inv, TypeOK, OthersKept
  <1>3. OnItsRoad(m)'
    BY <1>1, <1>2 DEF Inv, MessageInv, OnItsRoad
  <1>4. Ledger(m)'
    BY <1>2 DEF Inv, MessageInv, Ledger, Sends
  <1>5. QED
    BY <1>2, <1>3, <1>4, OneMoves DEF Inv, TypeOK, MessageInv

LEMMA ResolveInv == ASSUME Inv, NEW m \in Message, Resolve(m) PROVE Inv'
  <1>1. proc[m] \in Proc /\ kind[m] \in Kinds /\ kind[m].req \in Requests
    BY KindTypes DEF Inv, TypeOK
  <1>2. PICK a \in Answer :
           /\ (kind[m].req.pool # {} /\ a.to = "openwa") => a.session \in kind[m].req.pool
           /\ \/ proc' = [proc EXCEPT ![m] = AfterResolve(m)[a]]
              \/ \E flag \in BOOLEAN :
                    proc' = [proc EXCEPT ![m] = [AfterResolve(m)[a] EXCEPT !.alert = @ \/ flag]]
    BY <1>1, ResolvesTo DEF Resolve, Inv
  <1>3. SharedInv'
    BY <1>1, ResolvesTo, InvShared DEF Resolve, Inv, SharedInv
  <1> DEFINE first == IF Via(m, {"notification"}) THEN a.session ELSE None
             pc == IF a.to = "meta" THEN IF Via(m, {"api"}) THEN "adapter" ELSE "meta"
                   ELSE IF Via(m, {"document"}) THEN "alive"
                   ELSE IF Via(m, {"notification"}) THEN "again" ELSE "send"
             p == AfterResolve(m)[a]
  <1>4. p = [proc[m] EXCEPT !.to = a.to, !.session = a.session, !.first = first, !.pc = pc]
    BY DEF AfterResolve
  <1>5. /\ a.to \in {"openwa", "meta"} /\ a.session \in Session \cup {None}
        /\ first \in Session \cup {None}
        /\ pc \in {"adapter", "meta", "alive", "again", "send"}
    BY DEF Answer
  <1> HIDE DEF first
  <1>6. /\ p \in Proc /\ p.pc = pc /\ p.worker = proc[m].worker /\ p.session = a.session
    <2> HIDE DEF pc, p
    <2>1. QED
      BY <1>1, <1>4, <1>5 DEF Proc
  <1>7. ~proc[m].worker /\ kind[m].req.pool # {} =>
           pc \in {"meta", "adapter"} \/ (pc = "alive" /\ a.session \in kind[m].req.pool)
    BY <1>1, <1>2, <1>5, KindTypes DEF Via, Inv
  <1> HIDE DEF pc, p
  <1>8. proc[m].pc \in StillToSend /\ kind' = kind /\ out' = out
    BY DEF Resolve, StillToSend
  <1>9. pc # "check"
    BY <1>5
  <1>10. QED
    BY <1>2, <1>3, <1>6, <1>7, <1>8, <1>9, TakesAnswer DEF p

\* Only a worker and a notification ask again, and a notification has no pool.
LEMMA ResolveAgainInv == ASSUME Inv, NEW m \in Message, ResolveAgain(m) PROVE Inv'
  <1> DEFINE req == [asks |-> IF proc[m].worker THEN "openwa" ELSE "", mode |-> "", pool |-> {},
                     random |-> kind[m].req.random]
             next == [a \in Answer |->
                         [proc[m] EXCEPT !.to = a.to, !.session = a.session,
                                         !.pc = IF a.to = "meta" THEN "adapter" ELSE "send"]]
  <1>1. /\ proc[m] \in Proc /\ kind[m].req \in Requests /\ req \in Requests
        /\ proc[m].pc = "again" /\ Resolves(m, req, next)
        /\ UNCHANGED <<world, up, believed, count, kind, out, happened>>
    <2>1. proc[m] \in Proc /\ kind[m].req \in Requests
      BY KindTypes DEF Inv, TypeOK
    <2>2. req \in Requests
      BY <2>1 DEF Requests, Modes
    <2>3. QED
      BY <2>1, <2>2 DEF ResolveAgain
  <1> HIDE DEF req
  <1>2. PICK a \in Answer :
           \/ proc' = [proc EXCEPT ![m] = next[a]]
           \/ \E flag \in BOOLEAN : proc' = [proc EXCEPT ![m] = [next[a] EXCEPT !.alert = @ \/ flag]]
    <2> HIDE DEF next
    <2>1. QED
      BY <1>1, ResolvesTo DEF Inv
  <1>3. SharedInv'
    <2> HIDE DEF next
    <2>1. QED
      BY <1>1, ResolvesTo, InvShared DEF Inv, SharedInv
  <1>4. next[a] \in Proc /\ next[a].pc # "check" /\ next[a].worker = proc[m].worker
    <2>1. a.to \in {"openwa", "meta"} /\ a.session \in Session \cup {None}
      BY DEF Answer
    <2>2. QED
      BY <1>1, <2>1 DEF Proc
  <1>5. proc[m].worker \/ kind[m].req.pool = {}
    BY <1>1 DEF Inv, MessageInv, OnItsRoad
  <1>6. proc[m].pc \in StillToSend
    BY <1>1 DEF StillToSend
  <1> HIDE DEF next
  <1>7. QED
    BY <1>1, <1>2, <1>3, <1>4, <1>5, <1>6, TakesAnswer

LEMMA DrainInv == ASSUME Inv, NEW m \in Message, Drain(m) PROVE Inv'
  <1> DEFINE req == [kind[m].req EXCEPT !.asks = "openwa"]
             next == [a \in Answer |->
                         [proc[m] EXCEPT !.worker = TRUE, !.to = a.to, !.session = a.session,
                             !.pc = IF a.to = "openwa" THEN "check" ELSE "again",
                             !.tries = IF a.to = "openwa" THEN @ ELSE @ + 1]]
  <1>1. /\ proc[m] \in Proc /\ req \in Requests
        /\ proc[m].pc = "queued" /\ Resolves(m, req, next)
        /\ UNCHANGED <<world, up, believed, count, kind, out, happened>>
    <2>1. proc[m] \in Proc /\ kind[m].req \in Requests
      BY KindTypes DEF Inv, TypeOK
    <2>2. req \in Requests
      BY <2>1 DEF Requests
    <2>3. QED
      BY <2>1, <2>2 DEF Drain
  <1> HIDE DEF req
  <1>2. PICK a \in Answer :
           \/ proc' = [proc EXCEPT ![m] = next[a]]
           \/ \E flag \in BOOLEAN : proc' = [proc EXCEPT ![m] = [next[a] EXCEPT !.alert = @ \/ flag]]
    <2> HIDE DEF next
    <2>1. QED
      BY <1>1, ResolvesTo DEF Inv
  <1>3. SharedInv'
    <2> HIDE DEF next
    <2>1. QED
      BY <1>1, ResolvesTo, InvShared DEF Inv, SharedInv
  <1>4. next[a] \in Proc /\ next[a].worker
    <2> DEFINE pc == IF a.to = "openwa" THEN "check" ELSE "again"
               tries == IF a.to = "openwa" THEN proc[m].tries ELSE proc[m].tries + 1
    <2>1. a.to \in {"openwa", "meta"} /\ a.session \in Session \cup {None}
      BY DEF Answer
    <2>2. proc[m].tries \in Nat
      BY <1>1 DEF Proc
    <2>3. tries \in Nat /\ pc \in {"check", "again"}
      BY <2>2
    <2>4. next[a] = [proc[m] EXCEPT !.worker = TRUE, !.to = a.to, !.session = a.session,
                                    !.pc = pc, !.tries = tries]
      BY <1>1 DEF Proc
    <2> HIDE DEF pc, tries, next
    <2>5. QED
      BY <1>1, <2>1, <2>3, <2>4 DEF Proc
  <1>5. proc[m].pc \in StillToSend
    BY <1>1 DEF StillToSend
  <1> HIDE DEF next
  <1>6. QED
    BY <1>1, <1>2, <1>3, <1>4, <1>5, TakesAnswer

LEMMA DrainChecksInv == ASSUME Inv, NEW m \in Message, DrainChecks(m) PROVE Inv'
  <1>1. proc[m] \in Proc /\ proc[m].pc = "check" /\ proc[m].worker
    BY DEF Inv, TypeOK, DrainChecks, MessageInv, OnItsRoad
  <1>2. UNCHANGED <<world, up, count, cached, report, kind, out, happened>>
    BY DEF DrainChecks
  <1>3. believed' \subseteq Session
    BY <1>1, AliveKeeps DEF DrainChecks, Inv, Proc
  <1>4. SharedInv'
    BY <1>2, <1>3, InvShared DEF SharedInv, CacheInv
  <1>5. PICK p \in Proc : p.worker /\ p.pc # "check" /\ proc' = [proc EXCEPT ![m] = p]
    <2>1. CASE proc' = [proc EXCEPT ![m].pc = "reserve", ![m].tries = @ + 1]
      <3> DEFINE p == [proc[m] EXCEPT !.pc = "reserve", !.tries = @ + 1]
      <3>1. proc' = [proc EXCEPT ![m] = p]
        BY <2>1
      <3>2. p \in Proc /\ p.worker /\ p.pc = "reserve"
        <4>1. proc[m].tries \in Nat
          BY <1>1 DEF Proc
        <4>2. proc[m].tries + 1 \in Nat
          BY <4>1
        <4>3. QED
          BY <1>1, <4>2 DEF Proc
      <3>3. QED
        BY <3>1, <3>2
    <2>2. CASE To(m, "queued")
      <3> DEFINE p == [proc[m] EXCEPT !.pc = "queued"]
      <3>1. proc' = [proc EXCEPT ![m] = p]
        BY <2>2 DEF To
      <3>2. p \in Proc /\ p.worker /\ p.pc = "queued"
        BY <1>1 DEF Proc
      <3>3. QED
        BY <3>1, <3>2
    <2>3. QED
      BY <2>1, <2>2 DEF DrainChecks
  <1>6. proc[m].pc \in StillToSend
    BY <1>1 DEF StillToSend
  <1>7. QED
    BY <1>2, <1>4, <1>5, <1>6, TakesAnswer

LEMMA NextInv == Inv /\ [Next]_vars => Inv'
  <1>1. CASE UNCHANGED vars
    BY <1>1 DEF vars, Inv, TypeOK, CacheInv, MessageInv, OnItsRoad, Ledger, Sends
  <1>2. QED
    BY <1>1, EnvironmentInv, QuietInv, ReserveInv, SendInv, ResolveInv, ResolveAgainInv,
       DrainInv, DrainChecksInv DEF Next, Step

LEMMA Invariance == Spec => []Inv
  BY InitInv, NextInv, PTL DEF Spec

-----------------------------------------------------------------------------
(* Meta is the last resort.                                                *)

LEMMA SpreadOffers ==
    ASSUME count \in [Session -> Nat], NEW S \in SUBSET Session, S # {}
    PROVE  Spread(S) # {}
  <1> DEFINE T == {count[s] : s \in S}
  <1>1. T \subseteq Nat /\ T # {}
    OBVIOUS
  <1>2. PICK x \in T : \A y \in T : x <= y
    <2> HIDE DEF T
    <2>1. QED
      BY <1>1, LeastNumber
  <1>3. PICK s \in S : x = count[s]
    OBVIOUS
  <1>4. \A t \in S : count[s] <= count[t]
    BY <1>2, <1>3
  <1>5. QED
    BY <1>4 DEF Spread

\* No candidate, no usable session.
LEMMA NoCandidate ==
    ASSUME TypeOK, NEW req \in Requests, Candidates(req) = {}
    PROVE  Usable(req) = {}
  <1> SUFFICES ASSUME Usable(req) # {} PROVE FALSE
    OBVIOUS
  <1>1. Usable(req) \subseteq Permitted(req) /\ Usable(req) \subseteq Session
    BY DEF Usable, TypeOK
  <1>2. Permitted(req) # {}
    BY <1>1
  <1>3. Spread(Usable(req)) # {}
    BY <1>1, SpreadOffers DEF TypeOK
  <1>4. QED
    BY <1>2, <1>3 DEF Candidates, Spill, OneSession

\* A message that waits for its first resolution has been told of no provider.
Undecided == \A m \in Message : proc[m].pc = "resolve" => proc[m].to # "meta"

\* Another message's step leaves m alone.
LEMMA OthersStay ==
    ASSUME Inv, NEW m \in Message, NEW q \in Message, Step(q), q # m
    PROVE  proc'[m] = proc[m]
  <1>1. ASSUME NEW req, NEW next, Resolves(q, req, next) PROVE proc'[m] = proc[m]
    BY <1>1 DEF Resolves, Inv, TypeOK
  <1>2. CASE Resolve(q) \/ ResolveAgain(q) \/ Drain(q)
    BY <1>1, <1>2 DEF Resolve, ResolveAgain, Drain
  <1>3. CASE ~(Resolve(q) \/ ResolveAgain(q) \/ Drain(q))
    <2>1. ASSUME NEW pc, To(q, pc) \/ Ends(q, pc) PROVE proc'[m] = proc[m]
      BY <2>1 DEF To, Ends, Inv, TypeOK
    <2>2. QED
      BY <1>3, <2>1
         DEF Step, ShouldQueue, Reserve, CapReached, GatewayAccepts, GatewayRefuses, NoAnswer,
             NoAdapter, MetaSends, MetaFails, AdapterInserts, AdapterInsertFails, Succeeds,
             Fails, RollsBack, DrainChecks, Inv, TypeOK
  <1>4. QED
    BY <1>2, <1>3

LEMMA OnlyItsStep ==
    ASSUME Inv, [Next]_vars, NEW m \in Message
    PROVE  proc'[m] = proc[m] \/ Step(m)
  <1>1. CASE SessionMoves \/ StatusIsLearnt \/ KeysExpire \/ UNCHANGED vars
    BY <1>1 DEF SessionMoves, StatusIsLearnt, KeysExpire, vars
  <1>2. QED
    BY <1>1, OthersStay DEF Next

\* Nothing leads back there, and only success leads to the end.
LEMMA WhereSteps ==
    ASSUME Inv, NEW m \in Message, Step(m)
    PROVE  proc'[m].pc # "resolve" /\ (proc'[m].pc = "done" => Succeeds(m))
  <1>1. proc[m] \in Proc /\ proc \in [Message -> Proc] /\ kind[m].req \in Requests
    BY KindTypes DEF Inv, TypeOK
  <1>2. ASSUME NEW req \in Requests, NEW next, Resolves(m, req, next),
               \A a \in Answer : next[a] \in Proc /\ next[a].pc \notin {"resolve", "done"}
        PROVE  proc'[m].pc \notin {"resolve", "done"}
    <2>1. PICK a \in Answer :
             \/ proc' = [proc EXCEPT ![m] = next[a]]
             \/ \E flag \in BOOLEAN : proc' = [proc EXCEPT ![m] = [next[a] EXCEPT !.alert = @ \/ flag]]
      BY <1>2, ResolvesTo DEF Inv
    <2>2. next[a] \in Proc /\ next[a].pc \notin {"resolve", "done"}
      BY <1>2
    <2>3. CASE proc' = [proc EXCEPT ![m] = next[a]]
      BY <1>1, <2>2, <2>3
    <2>4. CASE \E flag \in BOOLEAN : proc' = [proc EXCEPT ![m] = [next[a] EXCEPT !.alert = @ \/ flag]]
      BY <1>1, <2>2, <2>4, AlertKeeps
    <2>5. QED
      BY <2>1, <2>3, <2>4
  <1>3. ASSUME NEW pc \in {"alive", "reserve", "send", "meta", "adapter", "sent", "failed",
                           "insert", "queued", "done", "error"}, To(m, pc) \/ Ends(m, pc)
        PROVE  proc'[m].pc = pc
    BY <1>3, MovesTo DEF Inv
  <1>4. CASE Resolve(m)
    <2>1. \A a \in Answer : AfterResolve(m)[a] \in Proc /\ AfterResolve(m)[a].pc \notin {"resolve", "done"}
      <3> SUFFICES ASSUME NEW a \in Answer
                   PROVE  AfterResolve(m)[a] \in Proc /\ AfterResolve(m)[a].pc \notin {"resolve", "done"}
        OBVIOUS
      <3> DEFINE first == IF Via(m, {"notification"}) THEN a.session ELSE None
                 pc == IF a.to = "meta" THEN IF Via(m, {"api"}) THEN "adapter" ELSE "meta"
                       ELSE IF Via(m, {"document"}) THEN "alive"
                       ELSE IF Via(m, {"notification"}) THEN "again" ELSE "send"
                 p == AfterResolve(m)[a]
      <3>1. p = [proc[m] EXCEPT !.to = a.to, !.session = a.session, !.first = first, !.pc = pc]
        BY DEF AfterResolve
      <3>2. /\ a.to \in {"openwa", "meta"} /\ a.session \in Session \cup {None}
            /\ first \in Session \cup {None}
            /\ pc \in {"adapter", "meta", "alive", "again", "send"}
        BY DEF Answer
      <3> HIDE DEF first, pc, p
      <3>3. p \in Proc /\ p.pc \notin {"resolve", "done"}
        BY <1>1, <3>1, <3>2 DEF Proc
      <3>4. QED
        BY <3>3 DEF p
    <2>2. QED
      BY <1>1, <1>2, <1>4, <2>1 DEF Resolve
  <1>5. CASE ResolveAgain(m)
    <2> DEFINE req == [asks |-> IF proc[m].worker THEN "openwa" ELSE "", mode |-> "", pool |-> {},
                       random |-> kind[m].req.random]
               next == [a \in Answer |->
                           [proc[m] EXCEPT !.to = a.to, !.session = a.session,
                                           !.pc = IF a.to = "meta" THEN "adapter" ELSE "send"]]
    <2>1. req \in Requests
      BY <1>1 DEF Requests, Modes
    <2>2. \A a \in Answer : next[a] \in Proc /\ next[a].pc \notin {"resolve", "done"}
      BY <1>1 DEF Answer, Proc
    <2>3. Resolves(m, req, next)
      BY <1>5 DEF ResolveAgain
    <2> HIDE DEF req, next
    <2>4. QED
      BY <1>2, <2>1, <2>2, <2>3
  <1>6. CASE Drain(m)
    <2> DEFINE req == [kind[m].req EXCEPT !.asks = "openwa"]
               next == [a \in Answer |->
                           [proc[m] EXCEPT !.worker = TRUE, !.to = a.to, !.session = a.session,
                               !.pc = IF a.to = "openwa" THEN "check" ELSE "again",
                               !.tries = IF a.to = "openwa" THEN @ ELSE @ + 1]]
    <2>1. req \in Requests
      BY <1>1 DEF Requests
    <2>2. \A a \in Answer : next[a] \in Proc /\ next[a].pc \notin {"resolve", "done"}
      <3> SUFFICES ASSUME NEW a \in Answer PROVE next[a] \in Proc /\ next[a].pc \notin {"resolve", "done"}
        OBVIOUS
      <3> DEFINE pc == IF a.to = "openwa" THEN "check" ELSE "again"
                 tries == IF a.to = "openwa" THEN proc[m].tries ELSE proc[m].tries + 1
      <3>1. a.to \in {"openwa", "meta"} /\ a.session \in Session \cup {None}
        BY DEF Answer
      <3>2. proc[m].tries \in Nat
        BY <1>1 DEF Proc
      <3>3. tries \in Nat /\ pc \in {"check", "again"}
        BY <3>2
      <3>4. next[a] = [proc[m] EXCEPT !.worker = TRUE, !.to = a.to, !.session = a.session,
                                      !.pc = pc, !.tries = tries]
        BY <1>1 DEF Proc
      <3> HIDE DEF pc, tries, next
      <3>5. QED
        BY <1>1, <3>1, <3>3, <3>4 DEF Proc
    <2>3. Resolves(m, req, next)
      BY <1>6 DEF Drain
    <2> HIDE DEF req, next
    <2>4. QED
      BY <1>2, <2>1, <2>2, <2>3
  <1>7. CASE ~(Resolve(m) \/ ResolveAgain(m) \/ Drain(m))
    BY <1>1, <1>3, <1>7
       DEF Step, ShouldQueue, Reserve, CapReached, GatewayAccepts, GatewayRefuses, NoAnswer,
           NoAdapter, MetaFallback, MetaSends, MetaFails, AdapterInserts, AdapterInsertFails,
           Succeeds, Fails, RollsBack, DrainChecks, Proc
  <1>8. QED
    BY <1>4, <1>5, <1>6, <1>7

LEMMA UndecidedInv == Spec => []Undecided
  <1>1. Init => Undecided
    BY DEF Init, Undecided, Start, None
  <1>2. Inv /\ Undecided /\ [Next]_vars => Undecided'
    <2> SUFFICES ASSUME Inv, Undecided, [Next]_vars, NEW m \in Message, proc'[m].pc = "resolve"
                 PROVE  proc'[m].to # "meta"
      BY DEF Undecided
    <2>1. CASE proc'[m] = proc[m]
      BY <2>1 DEF Undecided
    <2>2. CASE Step(m)
      BY <2>2, WhereSteps
    <2>3. QED
      BY <2>1, <2>2, OnlyItsStep
  <1>3. QED
    BY <1>1, <1>2, Invariance, PTL DEF Spec

-----------------------------------------------------------------------------
(* What is counted has been paid for.                                      *)

\* A send that went well over OpenWA had an answer that said so, and if it was
\* a document's it holds the slot of its session.
OnPaper(m) ==
    /\ proc[m].pc = "insert" => proc[m].to = "meta"
    /\ proc[m].pc = "sent" /\ proc[m].to = "openwa" => out[m].accepted >= 1
    /\ Via(m, {"document"}) =>
          /\ proc[m].pc # "again"
          /\ proc[m].pc = "send" => proc[m].held
          /\ proc[m].pc = "sent" /\ proc[m].to = "openwa" => proc[m].held

\* Messages that ended well over OpenWA: what is counted is no more than these.
Paid == {m \in Message : proc[m].pc = "done" /\ proc[m].to = "openwa" /\ out[m].accepted >= 1}

PaidInv ==
    /\ \A m \in Message : OnPaper(m)
    /\ Sum(count, Session) <= Cardinality(Paid)
    /\ \A s \in Session : Cardinality(Sent(s)) <= count[s]

\* The fields a move leaves alone.
LEMMA MoveKeeps ==
    ASSUME TypeOK, NEW m \in Message, NEW pc
    PROVE  /\ To(m, pc) => /\ proc'[m].pc = pc /\ proc'[m].to = proc[m].to
                           /\ proc'[m].held = proc[m].held /\ proc'[m].worker = proc[m].worker
                           /\ proc'[m].session = proc[m].session
           /\ Ends(m, pc) => /\ proc'[m].pc = pc /\ proc'[m].to = proc[m].to
                             /\ proc'[m].worker = proc[m].worker
                             /\ proc'[m].session = proc[m].session
  <1>1. proc[m] \in Proc /\ proc \in [Message -> Proc]
    BY DEF TypeOK
  <1>2. ASSUME To(m, pc)
        PROVE  /\ proc'[m].pc = pc /\ proc'[m].to = proc[m].to
               /\ proc'[m].held = proc[m].held /\ proc'[m].worker = proc[m].worker
               /\ proc'[m].session = proc[m].session
    BY <1>1, <1>2 DEF Proc, To
  <1>3. ASSUME Ends(m, pc)
        PROVE  /\ proc'[m].pc = pc /\ proc'[m].to = proc[m].to
               /\ proc'[m].worker = proc[m].worker
               /\ proc'[m].session = proc[m].session
    <2> DEFINE p == [proc[m] EXCEPT !.pc = pc, !.held = FALSE, !.alert = FALSE]
    <2>1. proc' = [proc EXCEPT ![m] = p]
      BY <1>3 DEF Ends
    <2>2. /\ p.pc = pc /\ p.to = proc[m].to /\ p.worker = proc[m].worker
          /\ p.session = proc[m].session
      BY <1>1 DEF Proc
    <2>3. proc'[m] = p
      BY <1>1, <2>1
    <2> HIDE DEF p
    <2>4. QED
      BY <2>2, <2>3
  <1>4. QED
    BY <1>2, <1>3

\* An answer puts m where it says.
LEMMA AnswerLands ==
    ASSUME Inv, NEW m \in Message, NEW req \in Requests, NEW next, Resolves(m, req, next),
           \A a \in Answer : next[a] \in Proc
    PROVE  \E a \in Answer : /\ proc'[m].pc = next[a].pc
                             /\ proc'[m].worker = next[a].worker
                             /\ proc'[m].held = next[a].held
  <1>1. PICK a \in Answer :
           \/ proc' = [proc EXCEPT ![m] = next[a]]
           \/ \E flag \in BOOLEAN : proc' = [proc EXCEPT ![m] = [next[a] EXCEPT !.alert = @ \/ flag]]
    BY ResolvesTo DEF Inv
  <1>2. next[a] \in Proc /\ proc \in [Message -> Proc]
    BY DEF Inv, TypeOK
  <1>3. CASE proc' = [proc EXCEPT ![m] = next[a]]
    BY <1>2, <1>3
  <1>4. CASE \E flag \in BOOLEAN : proc' = [proc EXCEPT ![m] = [next[a] EXCEPT !.alert = @ \/ flag]]
    BY <1>2, <1>4, AlertKeeps
  <1>5. QED
    BY <1>1, <1>3, <1>4

\* A document is resolved once and reserves before it is sent.
LEMMA ResolveOnPaper ==
    ASSUME Inv, NEW m \in Message, OnPaper(m), Resolve(m)
    PROVE  OnPaper(m)'
  <1>1. proc[m] \in Proc /\ kind[m].req \in Requests
    BY KindTypes DEF Inv, TypeOK
  <1>2. kind' = kind
    BY DEF Resolve
  <1>3. \A a \in Answer : /\ AfterResolve(m)[a] \in Proc
                          /\ AfterResolve(m)[a].worker = proc[m].worker
                          /\ AfterResolve(m)[a].pc \in {"adapter", "meta", "alive", "again", "send"}
                          /\ Via(m, {"document"}) => AfterResolve(m)[a].pc \in {"meta", "alive"}
    <2> SUFFICES ASSUME NEW a \in Answer
                 PROVE  /\ AfterResolve(m)[a] \in Proc
                        /\ AfterResolve(m)[a].worker = proc[m].worker
                        /\ AfterResolve(m)[a].pc \in {"adapter", "meta", "alive", "again", "send"}
                        /\ Via(m, {"document"}) => AfterResolve(m)[a].pc \in {"meta", "alive"}
      OBVIOUS
    <2> DEFINE first == IF Via(m, {"notification"}) THEN a.session ELSE None
               pc == IF a.to = "meta" THEN IF Via(m, {"api"}) THEN "adapter" ELSE "meta"
                     ELSE IF Via(m, {"document"}) THEN "alive"
                     ELSE IF Via(m, {"notification"}) THEN "again" ELSE "send"
               p == AfterResolve(m)[a]
    <2>1. p = [proc[m] EXCEPT !.to = a.to, !.session = a.session, !.first = first, !.pc = pc]
      BY DEF AfterResolve
    <2>2. /\ a.to \in {"openwa", "meta"} /\ a.session \in Session \cup {None}
          /\ first \in Session \cup {None}
          /\ pc \in {"adapter", "meta", "alive", "again", "send"}
          /\ Via(m, {"document"}) => pc \in {"meta", "alive"}
      BY DEF Answer, Via
    <2> HIDE DEF first, pc, p
    <2>3. p \in Proc /\ p.pc = pc /\ p.worker = proc[m].worker
      BY <1>1, <2>1, <2>2 DEF Proc
    <2>4. QED
      BY <2>2, <2>3 DEF p
  <1>4. PICK a \in Answer : /\ proc'[m].pc = AfterResolve(m)[a].pc
                            /\ proc'[m].worker = AfterResolve(m)[a].worker
    BY <1>1, <1>3, AnswerLands DEF Resolve
  <1>5. QED
    BY <1>2, <1>3, <1>4 DEF OnPaper, Via

LEMMA ResolveAgainOnPaper ==
    ASSUME Inv, NEW m \in Message, OnPaper(m), ResolveAgain(m)
    PROVE  OnPaper(m)'
  <1>1. proc[m] \in Proc /\ kind[m].req \in Requests
    BY KindTypes DEF Inv, TypeOK
  <1>2. kind' = kind
    BY DEF ResolveAgain
  <1> DEFINE req == [asks |-> IF proc[m].worker THEN "openwa" ELSE "", mode |-> "", pool |-> {},
                     random |-> kind[m].req.random]
             next == [a \in Answer |->
                         [proc[m] EXCEPT !.to = a.to, !.session = a.session,
                                         !.pc = IF a.to = "meta" THEN "adapter" ELSE "send"]]
  <1>3. req \in Requests
    BY <1>1 DEF Requests, Modes
  <1>4. \A a \in Answer : /\ next[a] \in Proc /\ next[a].pc \in {"adapter", "send"}
                          /\ next[a].worker = proc[m].worker
    BY <1>1 DEF Answer, Proc
  <1>5. Resolves(m, req, next) /\ proc[m].pc = "again"
    BY DEF ResolveAgain
  <1> HIDE DEF req, next
  <1>6. proc'[m].pc \in {"adapter", "send"} /\ proc'[m].worker = proc[m].worker
    BY <1>3, <1>4, <1>5, AnswerLands
  <1>7. QED
    BY <1>2, <1>5, <1>6 DEF OnPaper, Via

LEMMA DrainOnPaper ==
    ASSUME Inv, NEW m \in Message, OnPaper(m), Drain(m)
    PROVE  OnPaper(m)'
  <1>1. proc[m] \in Proc /\ kind[m].req \in Requests
    BY KindTypes DEF Inv, TypeOK
  <1>2. kind' = kind
    BY DEF Drain
  <1> DEFINE req == [kind[m].req EXCEPT !.asks = "openwa"]
             next == [a \in Answer |->
                         [proc[m] EXCEPT !.worker = TRUE, !.to = a.to, !.session = a.session,
                             !.pc = IF a.to = "openwa" THEN "check" ELSE "again",
                             !.tries = IF a.to = "openwa" THEN @ ELSE @ + 1]]
  <1>3. req \in Requests
    BY <1>1 DEF Requests
  <1>4. \A a \in Answer : next[a] \in Proc /\ next[a].worker /\ next[a].pc \in {"check", "again"}
    <2> SUFFICES ASSUME NEW a \in Answer
                 PROVE  next[a] \in Proc /\ next[a].worker /\ next[a].pc \in {"check", "again"}
      OBVIOUS
    <2> DEFINE pc == IF a.to = "openwa" THEN "check" ELSE "again"
               tries == IF a.to = "openwa" THEN proc[m].tries ELSE proc[m].tries + 1
    <2>1. a.to \in {"openwa", "meta"} /\ a.session \in Session \cup {None}
      BY DEF Answer
    <2>2. proc[m].tries \in Nat
      BY <1>1 DEF Proc
    <2>3. tries \in Nat /\ pc \in {"check", "again"}
      BY <2>2
    <2>4. next[a] = [proc[m] EXCEPT !.worker = TRUE, !.to = a.to, !.session = a.session,
                                    !.pc = pc, !.tries = tries]
      BY <1>1 DEF Proc
    <2> HIDE DEF pc, tries, next
    <2>5. QED
      BY <1>1, <2>1, <2>3, <2>4 DEF Proc
  <1>5. Resolves(m, req, next)
    BY DEF Drain
  <1> HIDE DEF req, next
  <1>6. proc'[m].pc \in {"check", "again"} /\ proc'[m].worker
    BY <1>3, <1>4, <1>5, AnswerLands
  <1>7. QED
    BY <1>2, <1>6 DEF OnPaper, Via

LEMMA StepOnPaper ==
    ASSUME Inv, NEW m \in Message, OnPaper(m), Step(m)
    PROVE  OnPaper(m)'
  <1>1. proc[m] \in Proc /\ proc \in [Message -> Proc] /\ out \in [Message -> Out] /\ TypeOK
    BY DEF Inv, TypeOK
  <1>2. CASE Resolve(m) \/ ResolveAgain(m) \/ Drain(m)
    BY <1>2, ResolveOnPaper, ResolveAgainOnPaper, DrainOnPaper
  <1>3. ASSUME NEW pc \in {"reserve", "meta", "adapter", "failed", "queued", "done", "error"},
               To(m, pc) \/ Ends(m, pc)
        PROVE  OnPaper(m)'
    <2>1. proc'[m].pc = pc
      BY <1>1, <1>3, MoveKeeps
    <2>2. QED
      BY <1>3, <2>1 DEF OnPaper
  <1>4. CASE ShouldQueue(m) \/ CapReached(m) \/ GatewayRefuses(m) \/ NoAdapter(m) \/ MetaFails(m)
             \/ AdapterInsertFails(m) \/ Succeeds(m) \/ Fails(m) \/ RollsBack(m)
    BY <1>3, <1>4
       DEF ShouldQueue, CapReached, GatewayRefuses, NoAdapter, MetaFallback, MetaFails,
           AdapterInsertFails, Succeeds, Fails, RollsBack
  <1>5. CASE DrainChecks(m)
    <2>1. proc'[m].pc \in {"reserve", "queued"}
      BY <1>1, <1>5, MoveKeeps DEF DrainChecks, Proc
    <2>2. QED
      BY <2>1 DEF OnPaper
  <1>6. CASE Reserve(m)
    <2>1. proc' = [proc EXCEPT ![m] = [proc[m] EXCEPT !.held = TRUE, !.pc = "send"]]
      BY <1>6 DEF Reserve
    <2>2. proc'[m].pc = "send" /\ proc'[m].held
      BY <1>1, <2>1 DEF Proc
    <2>3. QED
      BY <2>2 DEF OnPaper
  <1>7. CASE GatewayAccepts(m)
    <2>1. /\ proc[m].pc = "send" /\ To(m, "sent") /\ kind' = kind
          /\ out' = [out EXCEPT ![m] = [out[m] EXCEPT !.from = @ \cup {proc[m].session},
                                            !.copies = @ + 1, !.accepted = @ + 1]]
      BY <1>7 DEF GatewayAccepts
    <2>2. /\ proc'[m].pc = "sent" /\ proc'[m].held = proc[m].held
          /\ proc'[m].worker = proc[m].worker
      BY <1>1, <2>1, MoveKeeps
    <2>3. out'[m].accepted >= 1
      BY <1>1, <2>1 DEF Out
    <2>4. QED
      BY <2>1, <2>2, <2>3 DEF OnPaper, Via
  <1>8. CASE NoAnswer(m)
    <2>1. proc[m].pc = "send" /\ kind' = kind
      BY <1>8 DEF NoAnswer
    <2>2. /\ proc'[m].pc \in {"send", "failed"} /\ proc'[m].held = proc[m].held
          /\ proc'[m].worker = proc[m].worker
      BY <1>1, <1>8 DEF NoAnswer, CallsAgain, Proc
    <2>3. QED
      BY <2>1, <2>2 DEF OnPaper, Via
  <1>9. CASE MetaSends(m)
    <2>1. proc'[m].pc \in {"sent", "insert"} /\ proc'[m].to = "meta"
      BY <1>1, <1>9 DEF MetaSends, Proc
    <2>2. QED
      BY <2>1 DEF OnPaper
  <1>10. CASE AdapterInserts(m)
    <2>1. proc[m].pc = "insert" /\ To(m, "sent")
      BY <1>10 DEF AdapterInserts
    <2>2. proc'[m].pc = "sent" /\ proc'[m].to = "meta"
      BY <1>1, <2>1, MoveKeeps DEF OnPaper
    <2>3. QED
      BY <2>2 DEF OnPaper
  <1>11. QED
    BY <1>2, <1>4, <1>5, <1>6, <1>7, <1>8, <1>9, <1>10 DEF Step

\* A step that is no success leaves what is counted and what was sent alone.
LEMMA StepOutLeaves ==
    ASSUME Inv, NEW m \in Message, Step(m), ~Succeeds(m)
    PROVE  /\ count' = count /\ kind' = kind
           /\ proc[m].pc # "done" /\ proc'[m].pc # "done"
           /\ \A q \in Message : q # m => proc'[q] = proc[q] /\ out'[q] = out[q]
  <1>1. /\ count' = count /\ kind' = kind
        /\ proc[m].pc # "done"
    BY DEF Step, Resolve, ResolveAgain, ShouldQueue, Reserve, CapReached, GatewayAccepts,
       GatewayRefuses, NoAnswer, NoAdapter, MetaSends, MetaFails, AdapterInserts,
       AdapterInsertFails, Fails, RollsBack, Drain, DrainChecks
  <1>2. proc'[m].pc # "done"
    BY WhereSteps
  <1>3. ASSUME NEW q \in Message, q # m PROVE proc'[q] = proc[q] /\ out'[q] = out[q]
    <2>1. proc'[q] = proc[q]
      BY <1>3, OthersStay
    <2>2. out'[q] = out[q]
      BY <1>3 DEF Step, Resolve, ResolveAgain, ShouldQueue, Reserve, CapReached, GatewayAccepts,
         GatewayRefuses, NoAnswer, NoAdapter, MetaSends, MetaFails, AdapterInserts,
         AdapterInsertFails, Fails, RollsBack, Drain, DrainChecks, Inv, TypeOK
    <2>3. QED
      BY <2>1, <2>2
  <1>4. QED
    BY <1>1, <1>2, <1>3

LEMMA MessageSets ==
    ASSUME NEW S \in SUBSET Message
    PROVE  /\ IsFiniteSet(S) /\ Cardinality(S) \in Nat
           /\ \A T \in SUBSET S : Cardinality(T) <= Cardinality(S)
           /\ \A m \in Message \ S : Cardinality(S \cup {m}) = Cardinality(S) + 1
  BY FiniteAssumption, FS_Subset, FS_CardinalityType, FS_AddElement

LEMMA SentAreMessages == \A s \in Session : Sent(s) \in SUBSET Message /\ Sent(s)' \in SUBSET Message
  BY DEF Sent

\* What success makes of the ledger: m is paid for and, if it was a document's,
\* counted on the session that carried it.
LEMMA SuccessFacts ==
    ASSUME Inv, NEW m \in Message, OnPaper(m), Succeeds(m)
    PROVE  /\ count' = [s \in Session |-> IF s \in Counted(m) THEN count[s] + 1 ELSE count[s]]
           /\ Counted(m) \cap Session = {} \/ \E x \in Session : Counted(m) = {x}
           /\ Counted(m) # {} => m \in Paid'
           /\ m \notin Paid /\ Paid \subseteq Paid'
           /\ \A s \in Session : m \notin Sent(s)
           /\ \A s \in Session : Sent(s)' \subseteq Sent(s) \cup {m}
           /\ \A s \in Session : m \in Sent(s)' => Counted(m) = {s}
  <1>1. /\ proc[m].pc = "sent" /\ Ends(m, "done") /\ UNCHANGED <<kind, out>>
        /\ count' = [s \in Session |-> IF s \in Counted(m) THEN count[s] + 1 ELSE count[s]]
    BY DEF Succeeds
  <1>2. /\ proc'[m].pc = "done" /\ proc'[m].to = proc[m].to
        /\ proc'[m].worker = proc[m].worker /\ proc'[m].session = proc[m].session
    BY <1>1, MoveKeeps DEF Inv
  <1>3. \A q \in Message : q # m => proc'[q] = proc[q]
    BY OthersStay DEF Step
  <1>4. proc[m].session \in Session \cup {None} /\ proc[m].first \in Session \cup {None}
    BY DEF Inv, TypeOK, Proc
  <1>5. Counted(m) \cap Session = {} \/ \E x \in Session : Counted(m) = {x}
    BY <1>4 DEF Counted
  <1>6. Counted(m) # {} => m \in Paid'
    BY <1>1, <1>2 DEF Counted, OnPaper, Paid
  <1>7. m \notin Paid /\ \A s \in Session : m \notin Sent(s)
    BY <1>1 DEF Paid, Sent
  <1>8. Paid \subseteq Paid'
    BY <1>1, <1>2, <1>3 DEF Paid
  <1>9. \A s \in Session : Sent(s)' \subseteq Sent(s) \cup {m}
    BY <1>1, <1>3 DEF Sent, Via
  <1>10. ASSUME NEW s \in Session, m \in Sent(s)' PROVE Counted(m) = {s}
    <2>1. Via(m, {"document"}) /\ proc[m].to = "openwa" /\ proc[m].session = s
      BY <1>1, <1>2, <1>10 DEF Sent, Via
    <2>2. proc[m].held /\ ~Via(m, {"notification"})
      BY <1>1, <2>1 DEF OnPaper, Via
    <2>3. QED
      BY <2>1, <2>2 DEF Counted
  <1>11. QED
    BY <1>1, <1>5, <1>6, <1>7, <1>8, <1>9, <1>10

LEMMA SuccessPaid ==
    ASSUME Inv, PaidInv, NEW m \in Message, Succeeds(m)
    PROVE  /\ Sum(count', Session) <= Cardinality(Paid')
           /\ \A s \in Session : Cardinality(Sent(s)') <= count'[s]
  <1>1. /\ count' = [s \in Session |-> IF s \in Counted(m) THEN count[s] + 1 ELSE count[s]]
        /\ Counted(m) \cap Session = {} \/ \E x \in Session : Counted(m) = {x}
        /\ Counted(m) # {} => m \in Paid'
        /\ m \notin Paid /\ Paid \subseteq Paid'
        /\ \A s \in Session : m \notin Sent(s)
        /\ \A s \in Session : Sent(s)' \subseteq Sent(s) \cup {m}
        /\ \A s \in Session : m \in Sent(s)' => Counted(m) = {s}
    BY SuccessFacts DEF PaidInv
  <1>2. /\ count \in [Session -> Nat] /\ count' \in [Session -> Nat]
        /\ Paid \in SUBSET Message /\ Paid' \in SUBSET Message
        /\ IsFiniteSet(Session)
    BY <1>1, FiniteAssumption DEF Inv, TypeOK, Paid
  <1>3. /\ Cardinality(Paid) \in Nat /\ Cardinality(Paid') \in Nat
        /\ Cardinality(Paid) <= Cardinality(Paid')
    BY <1>1, <1>2, MessageSets
  <1>4. Sum(count, Session) \in Int /\ Sum(count, Session) <= Cardinality(Paid)
    BY <1>2, SumInt DEF PaidInv
  <1>5. Sum(count', Session) <= Cardinality(Paid')
    <2>1. CASE Counted(m) \cap Session = {}
      <3>1. \A s \in Session : count'[s] = count[s]
        BY <1>1, <2>1
      <3>2. Sum(count', Session) = Sum(count, Session)
        BY <1>2, <3>1, SumSame
      <3>3. QED
        BY <1>3, <1>4, <3>2
    <2>2. ASSUME NEW x \in Session, Counted(m) = {x}
          PROVE  Sum(count', Session) <= Cardinality(Paid')
      <3>1. count'[x] = count[x] + 1 /\ \A s \in Session \ {x} : count'[s] = count[s]
        BY <1>1, <2>2
      <3>2. Sum(count', Session) = Sum(count, Session) - count[x] + count'[x]
        BY <1>2, <3>1, SumChanges
      <3>3. Cardinality(Paid \cup {m}) = Cardinality(Paid) + 1
        BY <1>1, <1>2, MessageSets
      <3>4. Paid \cup {m} \in SUBSET Paid'
        BY <1>1, <2>2
      <3>5. Cardinality(Paid \cup {m}) <= Cardinality(Paid')
        BY <1>2, <3>4, MessageSets
      <3>6. QED
        BY <1>2, <1>3, <1>4, <3>1, <3>2, <3>3, <3>5
    <2>3. QED
      BY <1>1, <2>1, <2>2
  <1>6. ASSUME NEW s \in Session PROVE Cardinality(Sent(s)') <= count'[s]
    <2>1. /\ Sent(s) \in SUBSET Message /\ Sent(s)' \in SUBSET Message
          /\ Cardinality(Sent(s)) \in Nat /\ Cardinality(Sent(s)') \in Nat
          /\ Cardinality(Sent(s)) <= count[s] /\ count[s] \in Nat
      BY <1>2, SentAreMessages, MessageSets DEF PaidInv
    <2>2. CASE m \in Sent(s)'
      <3>1. count'[s] = count[s] + 1
        BY <1>1, <2>2
      <3>2. Cardinality(Sent(s) \cup {m}) = Cardinality(Sent(s)) + 1
        BY <1>1, <2>1, MessageSets
      <3>3. Cardinality(Sent(s)') <= Cardinality(Sent(s) \cup {m})
        <4>1. Sent(s)' \in SUBSET (Sent(s) \cup {m}) /\ Sent(s) \cup {m} \in SUBSET Message
          BY <1>1, <2>1
        <4>2. QED
          BY <4>1, MessageSets
      <3>4. QED
        BY <2>1, <3>1, <3>2, <3>3
    <2>3. CASE m \notin Sent(s)'
      <3>1. Cardinality(Sent(s)') <= Cardinality(Sent(s))
        <4>1. Sent(s)' \in SUBSET Sent(s)
          BY <1>1, <2>3
        <4>2. QED
          BY <2>1, <4>1, MessageSets
      <3>2. count'[s] >= count[s]
        BY <1>1, <2>1
      <3>3. count'[s] \in Nat
        BY <1>2
      <3>4. QED
        BY <2>1, <3>1, <3>2, <3>3
    <2>4. QED
      BY <2>2, <2>3
  <1>7. QED
    BY <1>5, <1>6

\* A step that leaves the ends and the counts alone.
LEMMA LedgerStays ==
    ASSUME PaidInv, count' = count, Paid' = Paid, \A s \in Session : Sent(s)' = Sent(s),
           \A m \in Message : OnPaper(m)'
    PROVE  PaidInv'
  BY DEF PaidInv

LEMMA StepPaid ==
    ASSUME Inv, PaidInv, [Next]_vars
    PROVE  PaidInv'
  <1>1. ASSUME NEW m \in Message, Step(m) PROVE PaidInv'
    <2>1. \A q \in Message : OnPaper(q)'
      <3>1. OnPaper(m)'
        BY <1>1, StepOnPaper DEF PaidInv
      <3>2. ASSUME NEW q \in Message, q # m PROVE OnPaper(q)'
        <4>1. proc'[q] = proc[q] /\ out'[q] = out[q] /\ kind' = kind
          BY <1>1, <3>2, OthersStay, StepOutLeaves DEF Succeeds
        <4>2. QED
          BY <4>1 DEF PaidInv, OnPaper, Via
      <3>3. QED
        BY <3>1, <3>2
    <2>2. CASE Succeeds(m)
      BY <2>1, <2>2, SuccessPaid DEF PaidInv
    <2>3. CASE ~Succeeds(m)
      <3>1. /\ count' = count /\ kind' = kind
            /\ proc[m].pc # "done" /\ proc'[m].pc # "done"
            /\ \A q \in Message : q # m => proc'[q] = proc[q] /\ out'[q] = out[q]
        BY <1>1, <2>3, StepOutLeaves
      <3>2. Paid' = Paid
        BY <3>1 DEF Paid
      <3>3. \A s \in Session : Sent(s)' = Sent(s)
        BY <3>1 DEF Sent, Via
      <3>4. QED
        BY <2>1, <3>1, <3>2, <3>3, LedgerStays
    <2>4. QED
      BY <2>2, <2>3
  <1>2. CASE SessionMoves \/ StatusIsLearnt \/ KeysExpire \/ UNCHANGED vars
    <2>1. UNCHANGED <<count, kind, proc, out>>
      BY <1>2 DEF SessionMoves, StatusIsLearnt, KeysExpire, vars
    <2>2. Paid' = Paid /\ (\A s \in Session : Sent(s)' = Sent(s))
      BY <2>1 DEF Paid, Sent, Via
    <2>3. \A m \in Message : OnPaper(m)'
      BY <2>1 DEF PaidInv, OnPaper, Via
    <2>4. QED
      BY <2>1, <2>2, <2>3, LedgerStays
  <1>3. QED
    BY <1>1, <1>2 DEF Next

\* Every paid message has an answer of its own.
LEMMA PaidAccepted ==
    ASSUME Inv
    PROVE  Cardinality(Paid) <= Sum(Accepted, Message) /\ Sum(Accepted, Message) \in Int
  <1> DEFINE own == [m \in Message |-> m]
  <1>1. \A m \in Message : Accepted[m] \in Nat
    BY DEF Accepted, Inv, TypeOK, Out
  <1>2. Paid \in SUBSET Message /\ IsFiniteSet(Paid)
    BY MessageSets DEF Paid
  <1>3. ASSUME NEW m \in Message PROVE Cardinality({a \in Paid : own[a] = m}) <= Accepted[m]
    <2>1. CASE m \in Paid
      <3>1. {a \in Paid : own[a] = m} = {m}
        BY <1>2, <2>1
      <3>2. Accepted[m] >= 1
        BY <2>1 DEF Paid, Accepted
      <3>3. Cardinality({m}) = 1
        BY FS_Singleton
      <3>4. QED
        BY <3>1, <3>2, <3>3
    <2>2. CASE m \notin Paid
      <3>1. {a \in Paid : own[a] = m} = {}
        BY <1>2, <2>2
      <3>2. Cardinality({a \in Paid : own[a] = m}) = 0
        BY <3>1, FS_EmptySet
      <3>3. Accepted[m] \in Nat
        BY <1>1
      <3> HIDE DEF own
      <3>4. QED
        BY <3>2, <3>3
    <2>3. QED
      BY <2>1, <2>2
  <1>4. Cardinality({a \in Paid : own[a] \in Message}) <= Sum(Accepted, Message)
    <2> HIDE DEF own
    <2>1. QED
      BY <1>1, <1>2, <1>3, FiniteAssumption, SumHolds
  <1>5. {a \in Paid : own[a] \in Message} = Paid
    BY <1>2
  <1>6. Sum(Accepted, Message) \in Int
    BY <1>1, FiniteAssumption, SumInt
  <1>7. QED
    BY <1>4, <1>5, <1>6

LEMMA InitPaid == Init => PaidInv
  <1> SUFFICES ASSUME Init PROVE PaidInv
    OBVIOUS
  <1>1. \A m \in Message : proc[m].pc = "resolve"
    BY DEF Init, Start
  <1>2. /\ \A m \in Message : OnPaper(m)
        /\ Paid = {} /\ \A s \in Session : Sent(s) = {}
    BY <1>1 DEF OnPaper, Paid, Sent
  <1>3. /\ \A s \in Session : count[s] = 0
        /\ \A s \in Session : count[s] \in Int
    BY DEF Init
  <1>4. Sum(count, Session) = 0
    BY <1>3, FiniteAssumption, SumZero
  <1>5. QED
    BY <1>2, <1>3, <1>4, FS_EmptySet DEF PaidInv

-----------------------------------------------------------------------------
\* The type invariant.
THEOREM TypeCorrect == Spec => []TypeOK
  <1>1. Inv => TypeOK
    BY DEF Inv
  <1>2. QED
    BY <1>1, Invariance, PTL

\* A message goes out once, over one provider, unless somebody was told that it
\* did not, through fallback, retries and the queue (whatsapp_message.py:56-72,
\* fallback.py, worker.py:195-199).
THEOREM MessagesSentOnce == Spec => []SentOnce
  <1>1. Inv => SentOnce
    BY DEF Inv, MessageInv, Ledger, SentOnce
  <1>2. QED
    BY <1>1, Invariance, PTL

\* No slot of a day is spent on a message that OpenWA did not take, whatever falls
\* back, is refused, rolls back or is tried again; and no document that went out is
\* left out of the count of its session (session_cap.py:13-16, whatsapp_message.py).
THEOREM CountsPaid == Spec => []CountsArePaid
  <1>1. Inv /\ PaidInv => CountsArePaid
    <2> SUFFICES ASSUME Inv, PaidInv PROVE CountsArePaid
      OBVIOUS
    <2>1. Cardinality(Paid) <= Sum(Accepted, Message) /\ Sum(Accepted, Message) \in Int
      BY PaidAccepted
    <2>2. Cardinality(Paid) \in Nat
      BY MessageSets DEF Paid
    <2>3. Sum(count, Session) \in Int
      BY SumInt, FiniteAssumption DEF Inv, TypeOK
    <2>4. Sum(count, Session) <= Sum(Accepted, Message)
      BY <2>1, <2>2, <2>3 DEF PaidInv
    <2>5. QED
      BY <2>4 DEF PaidInv, CountsArePaid, Sum
  <1>2. QED
    BY <1>1, InitPaid, StepPaid, Invariance, PTL DEF Spec

\* A message of a campaign that was not queued is carried by the campaign's
\* numbers only, whatever the caches say (resolver.py:50-61, 221-226).
THEOREM CampaignsKeepTheirNumbers == Spec => []PoolHonoured
  <1>1. Inv => PoolHonoured
    <2> SUFFICES ASSUME Inv, NEW m \in Message, ~proc[m].worker, kind[m].req.pool # {}
                 PROVE  out[m].from \subseteq kind[m].req.pool
      BY DEF PoolHonoured, InPool
    <2>1. QED
      BY DEF Inv, MessageInv, OnItsRoad
  <1>2. QED
    BY <1>1, Invariance, PTL

\* What MetaIsLastResort says of a step.
MetaAnswers == \A m \in Message :
    LET req == kind[m].req IN
    (/\ proc[m].pc = "resolve" /\ proc'[m].to = "meta"
     /\ OverOpenWA(req) /\ Hits(req) = {}) => Permitted(req) \cap {s \in believed : HasRoom(s)} = {}

\* An OpenWA resolution turns to Meta only past sessions that are unhealthy or
\* full (resolver.py:209-211).
THEOREM MetaComesLast == Spec => MetaIsLastResort
  <1>1. Inv /\ Undecided /\ [Next]_vars => MetaAnswers
    <2> SUFFICES ASSUME Inv, Undecided, [Next]_vars, NEW m \in Message,
                        proc[m].pc = "resolve", proc'[m].to = "meta",
                        OverOpenWA(kind[m].req), Hits(kind[m].req) = {}
                 PROVE  Permitted(kind[m].req) \cap {s \in believed : HasRoom(s)} = {}
      BY DEF MetaAnswers
    <2> DEFINE req == kind[m].req
    <2>1. req \in Requests /\ proc[m] \in Proc /\ proc \in [Message -> Proc]
      BY KindTypes DEF Inv, TypeOK
    <2>2. Resolve(m)
      <3>1. proc'[m] # proc[m]
        BY DEF Undecided
      <3>2. Step(m)
        BY <3>1, OnlyItsStep
      <3>3. QED
        BY <3>2 DEF Step, ResolveAgain, ShouldQueue, Reserve, CapReached, GatewayAccepts,
           GatewayRefuses, NoAnswer, NoAdapter, MetaSends, MetaFails, AdapterInserts,
           AdapterInsertFails, Succeeds, Fails, RollsBack, Drain, DrainChecks
    <2>3. PICK a \in Answers(req), flag \in BOOLEAN :
             proc' = [proc EXCEPT ![m] = [AfterResolve(m)[a] EXCEPT !.alert = @ \/ flag]]
      BY <2>2 DEF Resolve, Resolves, Unavailable
    <2>4. a \in Answer
      BY <2>1, CandidateTypes DEF Answers, Answer, Meta, Inv
    <2>5. a.to = "meta"
      <3>1. proc'[m].to = AfterResolve(m)[a].to
        BY <2>1, <2>3, <2>4 DEF AfterResolve, Proc
      <3>2. AfterResolve(m)[a].to = a.to
        BY <2>1, <2>4 DEF AfterResolve, Proc
      <3>3. QED
        BY <3>1, <3>2
    <2>6. Candidates(req) = {}
      BY <2>5 DEF Answers
    <2>7. QED
      BY <2>1, <2>6, NoCandidate DEF Usable, Inv
  <1>2. QED
    BY <1>1, Invariance, UndecidedInv, PTL DEF Spec, MetaIsLastResort, MetaAnswers

=============================================================================
