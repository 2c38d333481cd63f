----------------------------- MODULE TwoFactor -----------------------------
(***************************************************************************)
(* The two-factor records of @holeauth/plugin-2fa: set-up, activation,     *)
(* verification with a recovery code, regeneration and removal             *)
(* (packages/plugin-2fa/src/index.ts) over @holeauth/2fa-drizzle.          *)
(*                                                                         *)
(* Every operation reads the user's record, decides, and writes in another *)
(* await.  The flow keeps the copy it read (`seen').  TOTP codes are valid *)
(* for a secret or not; a user can produce one for each secret the server  *)
(* drew, so the checks of TOTP codes bar nothing here, and a verification  *)
(* by TOTP, which writes nothing, is left out with the rate limiter, whose *)
(* refusals change nothing.  The session completeSignIn opens at the end   *)
(* of a verification is BeginSignIn of module Sessions.                    *)
(***************************************************************************)
EXTENDS FiniteSets, Naturals

CONSTANTS
    User,
    Secret,         \* TOTP secrets
    Code,           \* recovery codes
    BatchSize,      \* recoveryCodeCount
    Request,        \* slots for flows in progress
    NoRecord,       \* no row for the user
    Nil             \* an unset value

Record == [secret : Secret, enabled : BOOLEAN, codes : SUBSET Code]

ASSUME BatchAssumption == BatchSize \in Nat \ {0}

ASSUME SentinelAssumption == NoRecord \notin Record /\ Nil \notin User \cup Code

VARIABLES
    users,      \* rows of the users table
    record,     \* the two-factor table
    pending,    \* users who passed the password and hold a pending token
    requests,   \* flows in progress
    \* History, read by properties only.
    drawn,      \* secrets drawn by set-ups
    batches,    \* batches of recovery codes stored for a user
    latest,     \* the last batch stored for a user
    proven,     \* secrets a user has produced a TOTP code for
    used,       \* recovery codes accepted
    reused,     \* recovery codes accepted more than once
    raced       \* users for whom a flow acted on a copy that was out of date

history == <<drawn, batches, latest, proven, used, reused, raced>>
vars == <<users, record, pending, requests, history>>

PC == {"idle", "enroll", "enable", "redeem", "remove", "renew"}

Local == [pc : PC, user : User \cup {Nil}, seen : Record \cup {NoRecord}, code : Code \cup {Nil}]

Idle == [pc |-> "idle", user |-> Nil, seen |-> NoRecord, code |-> Nil]

TypeOK ==
    /\ users \subseteq User
    /\ record \in [User -> Record \cup {NoRecord}]
    /\ pending \subseteq User
    /\ requests \in [Request -> Local]
    /\ drawn \subseteq Secret
    /\ batches \in [User -> SUBSET SUBSET Code]
    /\ latest \in [User -> SUBSET Code]
    /\ proven \in [User -> SUBSET Secret]
    /\ reused \subseteq used /\ used \subseteq Code
    /\ raced \subseteq User

Init ==
    /\ users = User
    /\ record = [u \in User |-> NoRecord]
    /\ pending = {}
    /\ requests = [r \in Request |-> Idle]
    /\ drawn = {}
    /\ batches = [u \in User |-> {}]
    /\ latest = [u \in User |-> {}]
    /\ proven = [u \in User |-> {}]
    /\ used = {}
    /\ reused = {}
    /\ raced = {}

-----------------------------------------------------------------------------

Enrolled(u) == record[u] # NoRecord
Enabled(u) == Enrolled(u) /\ record[u].enabled

Begin(r, u, pc, c) ==
    /\ requests[r] = Idle
    /\ requests' = [requests EXCEPT ![r] = [pc |-> pc, user |-> u, seen |-> record[u], code |-> c]]

Finish(r) == requests' = [requests EXCEPT ![r] = Idle]

\* History: the flow now acts on what it read earlier.
Act(r) ==
    LET u == requests[r].user IN
    raced' = IF record[u] = requests[r].seen THEN raced ELSE raced \cup {u}

\* generateRecoveryCodes: codes nobody has seen.
FreshBatch(B) ==
    /\ Cardinality(B) = BatchSize
    /\ \A u \in User : \A old \in batches[u] : B \cap old = {}

-----------------------------------------------------------------------------
(* Set-up and activation.                                                  *)

\* setup: refused when two-factor is enabled ...
Setup(r, u) ==
    /\ u \in users /\ ~Enabled(u)
    /\ Begin(r, u, "enroll", Nil)
    /\ UNCHANGED <<users, record, pending, history>>

\* Mutant: the record is born enabled.
NewRecordEnabled(s) == [secret |-> s, enabled |-> TRUE, codes |-> {}]

NewRecord(s) == [secret |-> s, enabled |-> FALSE, codes |-> {}]

\* ... and the upsert of a record that is not, with a new secret.  The foreign
\* key refuses it when the user has gone.
Enroll(r) ==
    /\ requests[r].pc = "enroll"
    /\ LET u == requests[r].user IN
       \/ /\ u \in users
          /\ \E s \in Secret \ drawn :
                /\ record' = [record EXCEPT ![u] = NewRecord(s)]
                /\ drawn' = drawn \cup {s}
          /\ Act(r)
       \/ u \notin users /\ UNCHANGED <<record, drawn, raced>>
    /\ Finish(r)
    /\ UNCHANGED <<users, pending, batches, latest, proven, used, reused>>

\* activate: a TOTP code of the secret read.
Activate(r, u) ==
    /\ Enrolled(u) /\ ~Enabled(u)
    /\ Begin(r, u, "enable", Nil)
    /\ proven' = [proven EXCEPT ![u] = @ \cup {record[u].secret}]
    /\ UNCHANGED <<users, record, pending, drawn, batches, latest, used, reused, raced>>

\* The patch names `enabled' and `recoveryCodes', not the secret.
Activated(rec, B) == [rec EXCEPT !.enabled = TRUE, !.codes = B]

\* The update touches a row that is there; an update of none is not an error.
StoreBatch(r, B, patched) ==
    LET u == requests[r].user IN
    /\ FreshBatch(B)
    /\ record' = IF Enrolled(u) THEN [record EXCEPT ![u] = patched] ELSE record
    /\ batches' = [batches EXCEPT ![u] = @ \cup {B}]
    /\ latest' = [latest EXCEPT ![u] = B]
    /\ Act(r)
    /\ Finish(r)
    /\ UNCHANGED <<users, pending, drawn, proven, used, reused>>

Enable(r) ==
    /\ requests[r].pc = "enable"
    /\ \E B \in SUBSET Code : StoreBatch(r, B, Activated(record[requests[r].user], B))

-----------------------------------------------------------------------------
(* Signing in.                                                             *)

\* The challenge hook, after the password was right: the pending token is a
\* JWT, good until it expires whatever becomes of the record.
Challenge(u) ==
    /\ u \in users /\ Enabled(u)
    /\ pending' = pending \cup {u}
    /\ UNCHANGED <<users, record, requests, history>>

PendingExpires(u) ==
    /\ pending' = pending \ {u}
    /\ UNCHANGED <<users, record, requests, history>>

\* verify with a recovery code: the code is looked for in the copy read.
Verify(r, u, c) ==
    /\ u \in pending
    /\ Enabled(u) /\ c \in record[u].codes
    /\ Begin(r, u, "redeem", c)
    /\ UNCHANGED <<users, record, pending, history>>

\* Mutant: the code is found and not removed.
WithoutNothing(codes, c) == codes

\* Mutant: the code is blanked in its place.
WithoutBlank(codes, c) == (codes \ {c}) \cup {Nil}

\* consumeRecoveryCode.
Without(codes, c) == codes \ {c}

\* What is left of the copy is written back, and the sign-in completed.
Redeem(r) ==
    /\ requests[r].pc = "redeem"
    /\ LET q == requests[r] IN
       /\ record' = IF Enrolled(q.user)
                    THEN [record EXCEPT ![q.user].codes = Without(q.seen.codes, q.code)]
                    ELSE record
       /\ used' = used \cup {q.code}
       /\ reused' = IF q.code \in used THEN reused \cup {q.code} ELSE reused
    /\ Act(r)
    /\ Finish(r)
    /\ UNCHANGED <<users, pending, drawn, batches, latest, proven>>

-----------------------------------------------------------------------------
(* Replacing the codes, and removal.                                       *)

\* regenerateRecoveryCodes, with a TOTP code of the secret read.
Regenerate(r, u) ==
    /\ Enabled(u)
    /\ Begin(r, u, "renew", Nil)
    /\ proven' = [proven EXCEPT ![u] = @ \cup {record[u].secret}]
    /\ UNCHANGED <<users, record, pending, drawn, batches, latest, used, reused, raced>>

Renewed(rec, B) == [rec EXCEPT !.codes = B]

Renew(r) ==
    /\ requests[r].pc = "renew"
    /\ \E B \in SUBSET Code : StoreBatch(r, B, Renewed(record[requests[r].user], B))

\* disable, with a TOTP code of the secret read; it need not be enabled.
Disable(r, u) ==
    /\ Enrolled(u)
    /\ Begin(r, u, "remove", Nil)
    /\ proven' = [proven EXCEPT ![u] = @ \cup {record[u].secret}]
    /\ UNCHANGED <<users, record, pending, drawn, batches, latest, used, reused, raced>>

Remove(r) ==
    /\ requests[r].pc = "remove"
    /\ record' = [record EXCEPT ![requests[r].user] = NoRecord]
    /\ Finish(r)
    /\ UNCHANGED <<users, pending, history>>

\* The userDelete hook, and the cascade when the user row goes.
DeleteUser(u) ==
    /\ u \in users
    /\ users' \in {users, users \ {u}}
    /\ record' = [record EXCEPT ![u] = NoRecord]
    /\ UNCHANGED <<pending, requests, history>>

\* A flow ends at its await; nothing has been written.
Abort(r) ==
    /\ requests[r].pc # "idle"
    /\ Finish(r)
    /\ UNCHANGED <<users, record, pending, history>>

-----------------------------------------------------------------------------

Next ==
    \/ \E r \in Request :
          \/ \E u \in User :
                \/ Setup(r, u) \/ Activate(r, u) \/ Regenerate(r, u) \/ Disable(r, u)
                \/ \E c \in Code : Verify(r, u, c)
          \/ Enroll(r) \/ Enable(r) \/ Redeem(r) \/ Renew(r) \/ Remove(r)
          \/ Abort(r)
    \/ \E u \in User : Challenge(u) \/ PendingExpires(u) \/ DeleteUser(u)

Spec == Init /\ [][Next]_vars

-----------------------------------------------------------------------------
(* Properties.                                                             *)

\* Unless a flow acted for the user on a copy that was out of date, codes that
\* were accepted and codes of earlier batches are gone for good: lost updates
\* are the only way they come back (index.ts:345-354).
SpentCodesGone ==
    \A u \in User \ raced :
        /\ Enabled(u) => record[u].codes \subseteq latest[u] \ used
        /\ reused \cap latest[u] = {}

\* Unless a flow acted on a copy that was out of date, two-factor is only
\* enabled with a secret the user has produced a code for; otherwise a set-up
\* may slip its secret under an activation (index.ts:303-308, 335-339).
EnabledSecretProven ==
    \A u \in User \ raced : Enabled(u) => record[u].secret \in proven[u]

\* recovery.ts:87: "Each code can be used exactly once."
RecoveryCodesUsedOnce == reused = {}

=============================================================================
