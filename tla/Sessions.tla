------------------------------ MODULE Sessions ------------------------------
(***************************************************************************)
(* The session store of @holeauth/core and the flows that touch it:        *)
(* issueSession, rotateRefresh, revokeSession / revokeByRefresh,           *)
(* revokeAllForUser and deleteUser (packages/core/src/session, flows) over *)
(* the session table of @holeauth/adapter-drizzle.                         *)
(*                                                                         *)
(* Every flow is an async function; another flow may run at each of its    *)
(* awaits.  A flow in progress is a record of `requests' whose `pc' names  *)
(* the await it is about to make, and each adapter call is one action.     *)
(*                                                                         *)
(* Tokens are opaque.  A member t of Token stands for one signed pair of   *)
(* access and refresh JWT (they share the nonce, and the same claims       *)
(* sid/sub/fam).  A row stores SHA-256 of the refresh JWT; the model       *)
(* stores the token whose digest that is, since two digests are compared   *)
(* only for equality.  A JWT whose exp has passed is refused by verify()   *)
(* before anything is read: the model has those presentations not happen.  *)
(***************************************************************************)
CONSTANTS
    User,       \* user ids
    Session,    \* session ids (crypto.randomUUID)
    Family,     \* refresh-token family ids (crypto.randomUUID)
    Token,      \* token pairs, told apart by their nonce
    Request,    \* slots for flows in progress
    NoRow,      \* no row in the session table
    NoClaims,   \* the token has not been signed
    Nil         \* an unset local variable of a flow

Claims == [sid: Session, sub: User, fam: Family]

Row == [user: User, family: Family, hash: Token, revoked: BOOLEAN, lapsed: BOOLEAN]

ASSUME SentinelAssumption ==
    /\ NoRow \notin Row
    /\ NoClaims \notin Claims
    /\ Nil \notin User \cup Session \cup Family \cup Token

VARIABLES
    users,      \* rows of the users table
    sessions,   \* the session table
    claims,     \* what each signed token says
    delivered,  \* tokens some client holds
    requests,   \* flows in progress
    \* History, read by properties only.
    parent,     \* the token whose presentation minted this one
    presented,  \* tokens that have been presented for refresh
    replayed,   \* tokens that have been presented at least twice
    detected    \* families revoked because reuse was detected

history == <<parent, presented, replayed, detected>>
vars == <<users, sessions, claims, delivered, requests, history>>

PC == {"idle", "issue", "respond", "rotate", "reuse", "expire", "drop"}

Local == [pc: PC, user: User \cup {Nil}, sid: Session \cup {Nil},
          family: Family \cup {Nil}, tok: Token \cup {Nil}, new: Token \cup {Nil}]

Idle == [pc |-> "idle", user |-> Nil, sid |-> Nil, family |-> Nil, tok |-> Nil, new |-> Nil]

TypeOK ==
    /\ users \subseteq User
    /\ sessions \in [Session -> Row \cup {NoRow}]
    /\ claims \in [Token -> Claims \cup {NoClaims}]
    /\ delivered \subseteq Token
    /\ requests \in [Request -> Local]
    /\ parent \in [Token -> Token \cup {Nil}]
    /\ presented \subseteq Token
    /\ replayed \subseteq Token
    /\ detected \subseteq Family

Init ==
    /\ users = User
    /\ sessions = [s \in Session |-> NoRow]
    /\ claims = [t \in Token |-> NoClaims]
    /\ delivered = {}
    /\ requests = [r \in Request |-> Idle]
    /\ parent = [t \in Token |-> Nil]
    /\ presented = {}
    /\ replayed = {}
    /\ detected = {}

-----------------------------------------------------------------------------
(* Reading the store.                                                      *)

Signed(t) == claims[t] # NoClaims
Exists(s) == sessions[s] # NoRow
Live(s) == Exists(s) /\ ~sessions[s].revoked

\* A random id that nothing has used yet.
FreshSession(s) == \A t \in Token : Signed(t) => claims[t].sid # s
FreshFamily(f) == \A t \in Token : Signed(t) => claims[t].fam # f

\* getByRefreshHash: the rows whose digest is that of t.
ByHash(t) == {s \in Session : Exists(s) /\ sessions[s].hash = t}

-----------------------------------------------------------------------------
(* What the adapter's statements do to the table.                          *)

\* Mutant: the table generates a family id of its own.
NewRowOwnFamily(u, f, t) ==
    [user |-> u, family |-> CHOOSE g \in Family : g # f, hash |-> t,
     revoked |-> FALSE, lapsed |-> FALSE]

\* createSession inserts the row issueSession builds.
NewRow(u, f, t) == [user |-> u, family |-> f, hash |-> t, revoked |-> FALSE, lapsed |-> FALSE]

\* Mutant: an adapter that writes the whole row back clears revokedAt.
RotatedRowRevives(row, t) == [row EXCEPT !.hash = t, !.lapsed = FALSE, !.revoked = FALSE]

\* Mutant: the digest is written before it has been computed.
RotatedRowBlank(row, t) == [row EXCEPT !.hash = Nil, !.lapsed = FALSE]

\* rotateRefresh sets the digest and the expiry, and nothing else.
RotatedRow(row, t) == [row EXCEPT !.hash = t, !.lapsed = FALSE]

\* revokeFamily and revokeUser set revokedAt on the rows S where it is null.
RevokeRows(S) ==
    [s \in Session |-> IF s \in S /\ Exists(s)
                       THEN [sessions[s] EXCEPT !.revoked = TRUE] ELSE sessions[s]]

\* deleteSession, and the cascade of the foreign key on user_id.
DeleteRows(S) == [s \in Session |-> IF s \in S THEN NoRow ELSE sessions[s]]

RowsOfUser(u) == {s \in Session : Exists(s) /\ sessions[s].user = u}

\* Mutant: only rows whose current digest has itself been presented.
RowsOfFamilyPresented(f) ==
    {s \in Session : Exists(s) /\ sessions[s].family = f /\ sessions[s].hash \in presented}

RowsOfFamily(f) == {s \in Session : Exists(s) /\ sessions[s].family = f}

-----------------------------------------------------------------------------
(* Signing in: getUserById (or ByEmail), then issueSession.                *)

\* The flow reads the user row and decides to open a session.
BeginSignIn(r, u) ==
    /\ requests[r] = Idle
    /\ u \in users
    /\ requests' = [requests EXCEPT ![r] = [Idle EXCEPT !.pc = "issue", !.user = u]]
    /\ UNCHANGED <<users, sessions, claims, delivered, history>>

\* createSession: the row goes in with the signed pair's digest.  The foreign
\* key refuses it, and the flow throws, when the user has been deleted since.
IssueSession(r) ==
    /\ requests[r].pc = "issue"
    /\ LET u == requests[r].user IN
       \/ /\ u \in users
          /\ \E s \in Session, f \in Family, t \in Token :
                /\ FreshSession(s) /\ FreshFamily(f) /\ ~Signed(t)
                /\ claims' = [claims EXCEPT ![t] = [sid |-> s, sub |-> u, fam |-> f]]
                /\ sessions' = [sessions EXCEPT ![s] = NewRow(u, f, t)]
                /\ requests' = [requests EXCEPT ![r] = [Idle EXCEPT !.pc = "respond", !.new = t]]
       \/ /\ u \notin users
          /\ requests' = [requests EXCEPT ![r] = Idle]
          /\ UNCHANGED <<sessions, claims>>
    /\ UNCHANGED <<users, delivered, history>>

\* The audit record is written, the hooks run, and the response carries the
\* new pair to the client.
Respond(r) ==
    /\ requests[r].pc = "respond"
    /\ delivered' = delivered \cup {requests[r].new}
    /\ requests' = [requests EXCEPT ![r] = Idle]
    /\ UNCHANGED <<users, sessions, claims, history>>

\* A flow ends at one of its awaits: the adapter or the audit log throws, the
\* process stops, or the response is lost.  What it has written stays.
Abort(r) ==
    /\ requests[r].pc # "idle"
    /\ requests' = [requests EXCEPT ![r] = Idle]
    /\ UNCHANGED <<users, sessions, claims, delivered, history>>

-----------------------------------------------------------------------------
(* Refreshing: rotateRefresh.                                              *)

\* Mutant: revokedAt of the row is not looked at.
VerdictIgnoresRevoked(t) ==
    IF ByHash(t) = {} THEN "reuse"
    ELSE IF \E s \in ByHash(t) : sessions[s].lapsed THEN "expire" ELSE "rotate"

\* Mutant: a lapsed row counts as reuse.
VerdictAlarms(t) ==
    IF \E s \in ByHash(t) : ~sessions[s].revoked /\ ~sessions[s].lapsed THEN "rotate" ELSE "reuse"

\* What the flow will do next about the row it found.
Verdict(t) ==
    IF \E s \in ByHash(t) : ~sessions[s].revoked
    THEN IF \E s \in ByHash(t) : sessions[s].lapsed THEN "expire" ELSE "rotate"
    ELSE "reuse"

\* getByRefreshHash.  What is found is kept across the awaits that follow.
Lookup(r, t) ==
    /\ requests[r] = Idle
    /\ t \in delivered
    /\ LET v == Verdict(t) IN
       \/ /\ v = "rotate"
          /\ \E s \in ByHash(t) :
                requests' = [requests EXCEPT ![r] =
                    [pc |-> v, user |-> sessions[s].user, sid |-> s,
                     family |-> sessions[s].family, tok |-> t, new |-> Nil]]
       \/ /\ v \in {"reuse", "expire"}
          /\ requests' = [requests EXCEPT ![r] =
                    [Idle EXCEPT !.pc = v, !.family = claims[t].fam, !.tok = t]]
    /\ presented' = presented \cup {t}
    /\ replayed' = IF t \in presented THEN replayed \cup {t} ELSE replayed
    /\ UNCHANGED <<users, sessions, claims, delivered, parent, detected>>

\* revokeFamily, after which the flow throws RefreshReuse or SessionExpired.
RevokeFamily(r) ==
    /\ requests[r].pc \in {"reuse", "expire"}
    /\ sessions' = RevokeRows(RowsOfFamily(requests[r].family))
    /\ detected' = IF requests[r].pc = "reuse"
                   THEN detected \cup {requests[r].family} ELSE detected
    /\ requests' = [requests EXCEPT ![r] = Idle]
    /\ UNCHANGED <<users, claims, delivered, parent, presented, replayed>>

\* Sign the next pair from the row found, then UPDATE by session id.  When
\* the row is gone the adapter throws and the pair is dropped.
Rotate(r) ==
    /\ requests[r].pc = "rotate"
    /\ LET q == requests[r] IN
       \/ /\ Exists(q.sid)
          /\ \E n \in Token :
                /\ ~Signed(n)
                /\ claims' = [claims EXCEPT ![n] =
                                 [sid |-> q.sid, sub |-> q.user, fam |-> q.family]]
                /\ sessions' = [sessions EXCEPT ![q.sid] = RotatedRow(sessions[q.sid], n)]
                /\ parent' = [parent EXCEPT ![n] = q.tok]
                /\ requests' = [requests EXCEPT ![r] = [Idle EXCEPT !.pc = "respond", !.new = n]]
       \/ /\ ~Exists(q.sid)
          /\ requests' = [requests EXCEPT ![r] = Idle]
          /\ UNCHANGED <<sessions, claims, parent>>
    /\ UNCHANGED <<users, delivered, presented, replayed, detected>>

-----------------------------------------------------------------------------
(* Ending sessions.                                                        *)

\* signOut with either token of a pair: the JWT alone names the session, so a
\* token that has been rotated away still deletes the row.
SignOut(t) ==
    /\ t \in delivered
    /\ sessions' = DeleteRows({claims[t].sid})
    /\ UNCHANGED <<users, claims, delivered, requests, history>>

\* revokeAllForUser, as changePassword and consumePasswordReset call it.
RevokeAllForUser(u) ==
    /\ sessions' = RevokeRows(RowsOfUser(u))
    /\ UNCHANGED <<users, claims, delivered, requests, history>>

\* deleteUser: revokeAllForUser first ...
BeginDeleteUser(r, u) ==
    /\ requests[r] = Idle
    /\ sessions' = RevokeRows(RowsOfUser(u))
    /\ requests' = [requests EXCEPT ![r] = [Idle EXCEPT !.pc = "drop", !.user = u]]
    /\ UNCHANGED <<users, claims, delivered, history>>

\* ... then the user row, and by the foreign key its sessions.  The
\* transaction around the two does not reach the adapters' connection.
DropUser(r) ==
    /\ requests[r].pc = "drop"
    /\ users' = users \ {requests[r].user}
    /\ sessions' = DeleteRows(RowsOfUser(requests[r].user))
    /\ requests' = [requests EXCEPT ![r] = Idle]
    /\ UNCHANGED <<claims, delivered, history>>

\* expiresAt of a row passes.
Lapse(s) ==
    /\ Exists(s) /\ ~sessions[s].lapsed
    /\ sessions' = [sessions EXCEPT ![s].lapsed = TRUE]
    /\ UNCHANGED <<users, claims, delivered, requests, history>>

-----------------------------------------------------------------------------

Step(r) ==
    \/ IssueSession(r)
    \/ Respond(r)
    \/ RevokeFamily(r)
    \/ Rotate(r)
    \/ DropUser(r)

\* Everything but a flow that ends early.
Healthy ==
    \/ \E r \in Request :
          \/ Step(r)
          \/ \E u \in User : BeginSignIn(r, u) \/ BeginDeleteUser(r, u)
          \/ \E t \in Token : Lookup(r, t)
    \/ \E t \in Token : SignOut(t)
    \/ \E u \in User : RevokeAllForUser(u)
    \/ \E s \in Session : Lapse(s)

Next == Healthy \/ \E r \in Request : Abort(r)

Spec == Init /\ [][Next]_vars

\* The event loop resumes every flow whose await has been answered.  Nothing
\* obliges a client to start a flow.
FairSpec == Init /\ [][Healthy]_vars /\ \A r \in Request : WF_vars(Step(r))

-----------------------------------------------------------------------------
(* Properties.                                                             *)

\* The digest of a row belongs to a token whose claims name that very row, its
\* user and its family, whatever rotations interleaved (rotate.ts:64-81,
\* issue.ts:32-56).  So a lookup can only find the session the JWT speaks of.
HashBinding ==
    \A s \in Session : Exists(s) =>
        claims[sessions[s].hash] = [sid |-> s, sub |-> sessions[s].user, fam |-> sessions[s].family]

\* Once reuse was detected in a family none of its sessions is live, although
\* rotations that had found the row before may still write to it
\* (rotate.ts:40-52 against rotate.ts:77-81).
DetectedFamilyDead ==
    \A s \in Session : Live(s) => sessions[s].family \notin detected

\* No flow that looks a token up after its family was condemned gets as far as
\* rotating: only flows already past the lookup can (rotate.ts:38-52).
CondemnedFamilyAdmitsNobody ==
    [][\A r \in Request :
          /\ requests'[r].pc = "rotate"
          /\ requests'[r].family \in detected
          => requests[r] = requests'[r]]_vars

\* A flow about to report reuse of a token whose session is still live never
\* does so out of the blue: some token of that session really was presented
\* twice.  In particular sequential use, lapsed rows and other sessions never
\* raise the alarm (rotate.ts:38-57).
NoFalseAlarm ==
    \A r \in Request :
        requests[r].pc = "reuse" /\ Live(claims[requests[r].tok].sid) =>
            \E t \in replayed : claims[t].sid = claims[requests[r].tok].sid

\* sessions.mdx:82 of the docs: "Refresh tokens are single-use."  No two pairs
\* that reached clients were minted from one presented token.
SingleUse ==
    \A a, b \in delivered : parent[a] # Nil /\ parent[a] = parent[b] => a = b

\* Detection is carried through: once a flow has seen reuse, the family has no
\* live session at some later moment (rotate.ts:40-42).
DetectionCompletes ==
    \A f \in Family :
        (\E r \in Request : requests[r].pc = "reuse" /\ requests[r].family = f)
            ~> (\A s \in Session : Live(s) => sessions[s].family # f)

-----------------------------------------------------------------------------
(* The store implements SessionLifecycle.                                  *)

Status(s) ==
    IF Live(s) THEN "live"
    ELSE IF Exists(s) THEN "revoked"
    ELSE IF FreshSession(s) THEN "none" ELSE "gone"

FamilyOf(s) ==
    IF FreshSession(s) THEN Nil ELSE claims[CHOOSE t \in Token : Signed(t) /\ claims[t].sid = s].fam

Lifecycle == INSTANCE SessionLifecycle WITH
    status <- [s \in Session |-> Status(s)],
    family <- [s \in Session |-> FamilyOf(s)],
    dead <- detected,
    NoFamily <- Nil

\* Sessions never come back from revocation or deletion, whatever flows were
\* in progress (rotate.ts:77-81, adapter pg/index.ts:271-294).
ImplementsLifecycle == Lifecycle!Spec

=============================================================================
