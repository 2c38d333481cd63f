-------------------------- MODULE SessionLifecycle --------------------------
(***************************************************************************)
(* What the session store promises, apart from tokens, digests and flows:  *)
(* a session opens once, in a family of its own, and then only loses       *)
(* standing; a family in which reuse was detected has no live session and  *)
(* never gets one.  Sessions implements this specification.                *)
(***************************************************************************)
CONSTANTS Session, Family

VARIABLES
    status,     \* none -> live -> revoked -> gone, never backwards
    family,     \* the family of each session that was opened
    dead        \* families in which reuse was detected

vars == <<status, family, dead>>

CONSTANT NoFamily

Init ==
    /\ status = [s \in Session |-> "none"]
    /\ family = [s \in Session |-> NoFamily]
    /\ dead = {}

Open(s, f) ==
    /\ status[s] = "none"
    /\ \A other \in Session : family[other] # f
    /\ f \notin dead
    /\ status' = [status EXCEPT ![s] = "live"]
    /\ family' = [family EXCEPT ![s] = f]
    /\ UNCHANGED dead

\* Revocation leaves sessions that are already gone alone.
Downgrade(S) == [s \in Session |-> IF s \in S /\ status[s] = "live" THEN "revoked" ELSE status[s]]

Revoke(S) ==
    /\ status' = Downgrade(S)
    /\ UNCHANGED <<family, dead>>

Condemn(f) ==
    /\ status' = Downgrade({s \in Session : family[s] = f})
    /\ dead' = dead \cup {f}
    /\ UNCHANGED family

Close(S) ==
    /\ \A s \in S : status[s] \in {"live", "revoked"}
    /\ status' = [s \in Session |-> IF s \in S THEN "gone" ELSE status[s]]
    /\ UNCHANGED <<family, dead>>

Next ==
    \/ \E s \in Session, f \in Family : Open(s, f)
    \/ \E S \in SUBSET Session : Revoke(S) \/ Close(S)
    \/ \E f \in Family : Condemn(f)

Spec == Init /\ [][Next]_vars

=============================================================================
