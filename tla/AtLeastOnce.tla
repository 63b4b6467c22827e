---------------------------- MODULE AtLeastOnce ----------------------------
(***************************************************************************)
(* What the outbound queue promises, without its workers, locks, leases    *)
(* and clocks.  A message that was handed in waits, is taken by one sender *)
(* at a time, and is sent at most once while it is taken.  It goes back to *)
(* wait or is settled, and what is settled stays settled.  If it goes back *)
(* or is given up although it was sent, that sending is counted as lost:   *)
(* only a lost sending can be repeated.                                    *)
(***************************************************************************)
EXTENDS Naturals

CONSTANT Row

VARIABLES
    state,  \* [Row -> States]
    out,    \* [Row -> BOOLEAN]: sent since it was taken, and nobody recorded it
    sent,   \* [Row -> Nat]: how often the message was sent
    lost    \* [Row -> Nat]: how many of these sendings were forgotten

vars == <<state, out, sent, lost>>

States == {"Absent", "Waiting", "Taken", "Settled"}

Init ==
    /\ state = [r \in Row |-> "Absent"]
    /\ out = [r \in Row |-> FALSE]
    /\ sent = [r \in Row |-> 0]
    /\ lost = [r \in Row |-> 0]

Move(r, from, to) == state[r] = from /\ state' = [state EXCEPT ![r] = to]

HandIn(r) == Move(r, "Absent", "Waiting") /\ UNCHANGED <<out, sent, lost>>
Take(r)   == Move(r, "Waiting", "Taken") /\ UNCHANGED <<out, sent, lost>>

\* The provider sends it; the answer may say so (`out`) or be "not sent".
Deliver(r) ==
    /\ state[r] = "Taken"
    /\ ~out[r]
    /\ out' = [out EXCEPT ![r] = TRUE]
    /\ sent' = [sent EXCEPT ![r] = @ + 1]
    /\ UNCHANGED <<state, lost>>

\* It is put back, or settled, after a sending that is forgotten if there was one.
PutBack(r, to) ==
    /\ Move(r, "Taken", to)
    /\ out' = [out EXCEPT ![r] = FALSE]
    /\ lost' = IF out[r] THEN [lost EXCEPT ![r] = @ + 1] ELSE lost
    /\ UNCHANGED sent

\* The sending is recorded.
Record(r) ==
    /\ out[r]
    /\ Move(r, "Taken", "Settled")
    /\ out' = [out EXCEPT ![r] = FALSE]
    /\ UNCHANGED <<sent, lost>>

\* It expires before it is taken.
GiveUp(r) == Move(r, "Waiting", "Settled") /\ UNCHANGED <<out, sent, lost>>

Next ==
    \E r \in Row :
        \/ HandIn(r) \/ Take(r) \/ Deliver(r) \/ Record(r) \/ GiveUp(r)
        \/ PutBack(r, "Waiting") \/ PutBack(r, "Settled")

Spec == Init /\ [][Next]_vars

\* Nothing waits or is held for ever.
Live == \A r \in Row : state[r] \in {"Waiting", "Taken"} ~> state[r] = "Settled"
LiveSpec == Spec /\ Live

=============================================================================
