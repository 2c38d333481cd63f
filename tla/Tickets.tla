------------------------------ MODULE Tickets ------------------------------
(***************************************************************************)
(* What a single-use credential promises, apart from tables, statements    *)
(* and users: a ticket is drawn once; while it is open one holder may take *)
(* it, and nobody after that; only a holder that took it is let in, at     *)
(* most once; and a ticket withdrawn before it was taken lets nobody in.   *)
(* When a ticket expires is left to the implementation: expiry withdraws   *)
(* it.  MagicLinks implements this specification.                          *)
(***************************************************************************)
CONSTANTS Ticket, Holder

VARIABLES
    state,      \* none -> open -> taken -> used, or void from open or taken
    holders     \* who has taken each ticket and is not done with it

vars == <<state, holders>>

Standing == {"none", "open", "taken", "used", "void"}

Init ==
    /\ state = [t \in Ticket |-> "none"]
    /\ holders = [t \in Ticket |-> {}]

Draw(t) ==
    /\ state[t] = "none"
    /\ state' = [state EXCEPT ![t] = "open"]
    /\ UNCHANGED holders

Take(t, h) ==
    /\ state[t] = "open"
    /\ state' = [state EXCEPT ![t] = "taken"]
    /\ holders' = [holders EXCEPT ![t] = {h}]

Admit(t, h) ==
    /\ state[t] = "taken" /\ holders[t] = {h}
    /\ state' = [state EXCEPT ![t] = "used"]
    /\ holders' = [holders EXCEPT ![t] = {}]

\* The holder gives up: the ticket is burned.
GiveUp(t, h) ==
    /\ state[t] = "taken" /\ holders[t] = {h}
    /\ state' = [state EXCEPT ![t] = "void"]
    /\ holders' = [holders EXCEPT ![t] = {}]

\* Any number at once.
Withdraw ==
    /\ \A t \in Ticket : state'[t] = state[t] \/ (state[t] = "open" /\ state'[t] = "void")
    /\ state' \in [Ticket -> Standing]
    /\ UNCHANGED holders

Next ==
    \/ Withdraw
    \/ \E t \in Ticket :
          \/ Draw(t)
          \/ \E h \in Holder : Take(t, h)
          \/ \E h \in holders[t] : Admit(t, h) \/ GiveUp(t, h)

Spec == Init /\ [][Next]_vars

=============================================================================
