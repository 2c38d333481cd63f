------------------------------- MODULE Grants -------------------------------
(***************************************************************************)
(* The grants of @holeauth/plugin-idp: authorization codes and the         *)
(* rotation of refresh tokens (packages/plugin-idp/src/index.ts) over the  *)
(* tables of @holeauth/idp-drizzle.                                        *)
(*                                                                         *)
(* A handler is cut where an interleaving can tell: a flow in progress is  *)
(* a record of `requests', and what it read stays in the record.  Client   *)
(* authentication is one step with the read that follows it.               *)
(*                                                                         *)
(* Access and ID tokens are signed and not stored; they are left out, and  *)
(* so is what the consent page remembers.  Left out too are answers        *)
(* that change nothing: requests that name an unknown client, an           *)
(* unregistered redirect URI or an unknown, expired or spent code or       *)
(* token, and the rate limiter's refusals.                                 *)
(***************************************************************************)
CONSTANTS
    User, App, Code, Token, Family, Scope,
    Public,         \* the apps whose type is 'public'
    OfflineAccess,  \* the scope that asks for a refresh token
    Request,        \* slots for flows in progress
    Unused,         \* an id no row has had yet
    Gone,           \* the row was deleted
    Nil             \* an unset value

AppRow == [requirePkce : BOOLEAN]

CodeRow == [app : App, user : User, scope : SUBSET Scope, challenge : BOOLEAN, consumed : BOOLEAN]

TokenRow == [app : App, user : User, family : Family, scope : SUBSET Scope, revoked : BOOLEAN]

ASSUME ScopeAssumption == Public \subseteq App /\ OfflineAccess \in Scope

ASSUME SentinelAssumption ==
    /\ Unused # Gone
    /\ {Unused, Gone} \cap (AppRow \cup CodeRow \cup TokenRow) = {}
    /\ Nil \notin User \cup App \cup Code \cup Token \cup Family

VARIABLES
    users,      \* rows of the users table
    apps,       \* the app table
    codes,      \* authorization codes
    tokens,     \* refresh tokens
    requests,   \* flows in progress
    \* History, read by properties only.
    proved,     \* codes exchanged by a holder of the PKCE verifier
    origin,     \* the code a family was opened for
    parent,     \* the token a token replaced
    raced,      \* tokens a successor was stored for while another refresh had found them good
    condemned,  \* families revoked because of a reused or stray token
    late        \* tokens stored in a family already condemned

tables == <<users, apps, codes, tokens>>
history == <<proved, origin, parent, raced, condemned, late>>
vars == <<tables, requests, history>>

PC == {"idle", "mint", "condemn", "mark", "create"}

Local == [pc : PC, app : App \cup {Nil}, user : User \cup {Nil}, scope : SUBSET Scope,
          code : Code \cup {Nil}, tok : Token \cup {Nil},
          family : Family \cup {Nil}]

Idle == [pc |-> "idle", app |-> Nil, user |-> Nil, scope |-> {},
         code |-> Nil, tok |-> Nil, family |-> Nil]

TypeOK ==
    /\ users \subseteq User
    /\ apps \in [App -> AppRow \cup {Gone}]
    /\ codes \in [Code -> CodeRow \cup {Unused, Gone}]
    /\ tokens \in [Token -> TokenRow \cup {Unused, Gone}]
    /\ requests \in [Request -> Local]
    /\ proved \subseteq Code
    /\ origin \in [Family -> Code \cup {Nil}]
    /\ parent \in [Token -> Token \cup {Nil}]
    /\ raced \subseteq Token
    /\ condemned \subseteq Family
    /\ late \subseteq Token

Init ==
    /\ users = User
    /\ apps = [a \in App |-> [requirePkce |-> TRUE]]
    /\ codes = [c \in Code |-> Unused]
    /\ tokens = [t \in Token |-> Unused]
    /\ requests = [r \in Request |-> Idle]
    /\ proved = {}
    /\ origin = [f \in Family |-> Nil]
    /\ parent = [t \in Token |-> Nil]
    /\ raced = {}
    /\ condemned = {}
    /\ late = {}

-----------------------------------------------------------------------------

Stored(t) == tokens[t] \notin {Unused, Gone}
Live(t) == Stored(t) /\ ~tokens[t].revoked
StoredCode(c) == codes[c] \notin {Unused, Gone}

\* authenticateClient.  An app that is disabled for a while is one that makes
\* no request for a while, so `disabledAt' needs no state of its own.
Open(a) == apps[a] # Gone

NeedsPkce(a) == a \in Public \/ apps[a].requirePkce

\* The foreign keys of codes and tokens.
Referable(u, a) == u \in users /\ apps[a] # Gone

\* revokeFamily, revokeAllForUser, revokeAllForApp: where revoked_at is null.
RevokeRows(S) ==
    [t \in Token |-> IF t \in S /\ Stored(t) THEN [tokens[t] EXCEPT !.revoked = TRUE] ELSE tokens[t]]

Finish(r) == requests' = [requests EXCEPT ![r] = Idle]

-----------------------------------------------------------------------------
(* GET /oauth2/authorize and POST /oauth2/authorize/consent.               *)

\* issueCodeAndRedirect, for a user who approves now or approved before.  The
\* redirect of an approval remembered asks for a challenge where PKCE is
\* needed; the consent form takes scopes and challenge as they are posted.
\* The insert is one step with the reads before it: nobody can know the code
\* yet, and the foreign keys refuse it when the user or the app has gone.
IssueCode(u, a, S, ch) ==
    /\ Open(a) /\ u \in users
    /\ \E c \in Code :
          /\ codes[c] = Unused
          /\ codes' = [codes EXCEPT ![c] = [app |-> a, user |-> u, scope |-> S,
                                            challenge |-> ch, consumed |-> FALSE]]
    /\ UNCHANGED <<users, apps, tokens, requests, history>>

-----------------------------------------------------------------------------
(* POST /oauth2/token with grant_type=authorization_code.                  *)

\* Mutant: a consumed code can be claimed again.
ClaimableAgain(c) == StoredCode(c)

\* codes.consume claims a code in one statement.
Claimable(c) == StoredCode(c) /\ ~codes[c].consumed

\* Mutant: a code without challenge is taken to need no proof.
AcceptsNoChallenge(a, c, uri, verifier) ==
    codes[c].app = a /\ uri /\ (codes[c].challenge => verifier)

\* Checks made after the claim: the client, the redirect URI (uri: it is the
\* code's) and PKCE (verifier: the right one was presented).
Accepts(a, c, uri, verifier) ==
    /\ codes[c].app = a
    /\ uri
    /\ IF codes[c].challenge THEN verifier ELSE ~NeedsPkce(a)

\* The code is claimed, and burned when one of the checks fails.
Exchange(r, a, c, uri, verifier) ==
    /\ requests[r] = Idle
    /\ Open(a)
    /\ Claimable(c)
    /\ codes' = [codes EXCEPT ![c].consumed = TRUE]
    /\ IF Accepts(a, c, uri, verifier)
       THEN /\ requests' = [requests EXCEPT ![r] =
                  [Idle EXCEPT !.pc = "mint", !.app = a, !.user = codes[c].user,
                               !.scope = codes[c].scope, !.code = c]]
            /\ proved' = IF codes[c].challenge THEN proved \cup {c} ELSE proved
       ELSE UNCHANGED <<requests, proved>>
    /\ UNCHANGED <<users, apps, tokens, origin, parent, raced, condemned, late>>

\* issueTokensFor: with offline_access a refresh token in a new family.
Mint(r) ==
    /\ requests[r].pc = "mint"
    /\ LET q == requests[r] IN
       \/ /\ OfflineAccess \in q.scope /\ Referable(q.user, q.app)
          /\ \E t \in Token, f \in Family :
                /\ tokens[t] = Unused /\ origin[f] = Nil
                /\ tokens' = [tokens EXCEPT ![t] = [app |-> q.app, user |-> q.user, family |-> f,
                                                    scope |-> q.scope, revoked |-> FALSE]]
                /\ origin' = [origin EXCEPT ![f] = q.code]
       \/ /\ ~(OfflineAccess \in q.scope /\ Referable(q.user, q.app))
          /\ UNCHANGED <<tokens, origin>>
    /\ Finish(r)
    /\ UNCHANGED <<users, apps, codes, proved, parent, raced, condemned, late>>

-----------------------------------------------------------------------------
(* POST /oauth2/token with grant_type=refresh_token.                       *)

\* Mutant: a revoked token is not told from a live one.
VerdictIgnoresRevoked(a, t) == IF tokens[t].app # a THEN "condemn" ELSE "mark"

\* Mutant: any client may present any token.
VerdictAnyClient(a, t) == IF tokens[t].revoked THEN "condemn" ELSE "mark"

\* What the handler does about the row it found.
Verdict(a, t) == IF tokens[t].app # a \/ tokens[t].revoked THEN "condemn" ELSE "mark"

\* Mutant: disjoint scopes fall back to those requested.
NarrowFallsBack(requested, original) ==
    IF requested \cap original # {} THEN requested \cap original ELSE requested

\* Mutant: disjoint scopes leave an undefined scope behind.
NarrowUndefined(requested, original) ==
    IF requested \cap original # {} THEN requested \cap original ELSE {Nil}

\* A refresh cannot widen the scope: what is requested is cut down to the
\* original, which stands when nothing is left.
Narrow(requested, original) ==
    IF requested \cap original # {} THEN requested \cap original ELSE original

\* getByHash, and the checks on the row found.
Refresh(r, a, t, S) ==
    /\ requests[r] = Idle
    /\ Open(a) /\ Stored(t)
    /\ requests' = [requests EXCEPT ![r] =
          IF Verdict(a, t) = "condemn"
          THEN [Idle EXCEPT !.pc = "condemn", !.family = tokens[t].family]
          ELSE [Idle EXCEPT !.pc = "mark", !.app = a, !.user = tokens[t].user, !.tok = t,
                            !.family = tokens[t].family, !.scope = Narrow(S, tokens[t].scope)]]
    /\ UNCHANGED <<tables, history>>

RowsOfFamily(f) == {t \in Token : Stored(t) /\ tokens[t].family = f}

\* revokeFamily, and the answer invalid_grant.
CondemnFamily(r) ==
    /\ requests[r].pc = "condemn"
    /\ tokens' = RevokeRows(RowsOfFamily(requests[r].family))
    /\ condemned' = condemned \cup {requests[r].family}
    /\ Finish(r)
    /\ UNCHANGED <<users, apps, codes, proved, origin, parent, raced, late>>

\* markRevoked, whose effect is not looked at.
MarkRevoked(r) ==
    /\ requests[r].pc = "mark"
    /\ tokens' = RevokeRows({requests[r].tok})
    /\ requests' = [requests EXCEPT ![r].pc = "create"]
    /\ UNCHANGED <<users, apps, codes, history>>

\* Refreshes that found t good and have yet to store its successor.
Rotating(t) == {s \in Request : requests[s].pc \in {"mark", "create"} /\ requests[s].tok = t}

\* The successor goes into the family with the narrowed scope.
CreateNext(r) ==
    /\ requests[r].pc = "create"
    /\ LET q == requests[r] IN
       \/ /\ Referable(q.user, q.app)
          /\ \E t \in Token :
                /\ tokens[t] = Unused
                /\ tokens' = [tokens EXCEPT ![t] = [app |-> q.app, user |-> q.user,
                                 family |-> q.family, scope |-> q.scope, revoked |-> FALSE]]
                /\ parent' = [parent EXCEPT ![t] = q.tok]
                /\ raced' = IF Rotating(q.tok) # {r} THEN raced \cup {q.tok} ELSE raced
                /\ late' = IF q.family \in condemned THEN late \cup {t} ELSE late
       \/ ~Referable(q.user, q.app) /\ UNCHANGED <<tokens, parent, raced, late>>
    /\ Finish(r)
    /\ UNCHANGED <<users, apps, codes, proved, origin, condemned>>

-----------------------------------------------------------------------------
(* Revocation, and the administration of apps and users.                   *)

\* POST /oauth2/revoke, which does not insist on client authentication.
Revoke(t) ==
    /\ Stored(t)
    /\ tokens' = RevokeRows({t})
    /\ UNCHANGED <<users, apps, codes, requests, history>>

\* tokens.revokeAllForApp, also the first half of apps.delete.
RevokeAllForApp(a) ==
    /\ tokens' = RevokeRows({t \in Token : Stored(t) /\ tokens[t].app = a})
    /\ UNCHANGED <<users, apps, codes, requests, history>>

\* The userDelete hook.  When the adapter fails the deletion goes on.
RevokeAllForUser(u) ==
    /\ tokens' = RevokeRows({t \in Token : Stored(t) /\ tokens[t].user = u})
    /\ UNCHANGED <<users, apps, codes, requests, history>>

\* The foreign keys cascade to everything that names a deleted user or app.
Cascade(us, as) ==
    LET kept(row) == row.user \in us /\ as[row.app] # Gone IN
    /\ codes' = [c \in Code |-> IF StoredCode(c) /\ ~kept(codes[c]) THEN Gone ELSE codes[c]]
    /\ tokens' = [t \in Token |-> IF Stored(t) /\ ~kept(tokens[t]) THEN Gone ELSE tokens[t]]
    /\ users' = us
    /\ apps' = as

DropUser(u) ==
    /\ u \in users
    /\ Cascade(users \ {u}, apps)
    /\ UNCHANGED <<requests, history>>

\* The second half of apps.delete.
DeleteApp(a) ==
    /\ apps[a] # Gone
    /\ Cascade(users, [apps EXCEPT ![a] = Gone])
    /\ UNCHANGED <<requests, history>>

\* apps.update, as far as it touches the grants: the flag of a public app is
\* never looked at.
UpdateApp(a, row) ==
    /\ apps[a] # Gone /\ a \notin Public
    /\ apps' = [apps EXCEPT ![a] = row]
    /\ UNCHANGED <<users, codes, tokens, requests, history>>

\* A flow ends at one of its awaits; what it has written stays.
Abort(r) ==
    /\ requests[r].pc # "idle"
    /\ Finish(r)
    /\ UNCHANGED <<tables, history>>

-----------------------------------------------------------------------------

Next ==
    \/ \E u \in User, a \in App, S \in SUBSET Scope, ch \in BOOLEAN :
          IssueCode(u, a, S, ch)
    \/ \E r \in Request :
          \/ \E a \in App, c \in Code, uri, verifier \in BOOLEAN : Exchange(r, a, c, uri, verifier)
          \/ Mint(r)
          \/ \E a \in App, t \in Token, S \in SUBSET Scope : Refresh(r, a, t, S)
          \/ CondemnFamily(r)
          \/ MarkRevoked(r)
          \/ CreateNext(r)
          \/ Abort(r)
    \/ \E t \in Token : Revoke(t)
    \/ \E a \in App : RevokeAllForApp(a) \/ DeleteApp(a)
    \/ \E a \in App, row \in AppRow : UpdateApp(a, row)
    \/ \E u \in User : RevokeAllForUser(u) \/ DropUser(u)

Spec == Init /\ [][Next]_vars

-----------------------------------------------------------------------------
(* Properties.                                                             *)

\* A code opens one family at most, however many exchanges race for it, fail
\* half-way or are retried (index.ts:789, idp-drizzle pg/index.ts:454-470).
CodeOpensOneFamily ==
    \A f, g \in Family : origin[f] # Nil /\ origin[f] = origin[g] => f = g

\* Whatever rotations, narrowings and clients a family has seen, each of its
\* tokens is for the user and the app its code was issued to, with no scope
\* the code did not carry (index.ts:838-905).
GrantBounded ==
    \A t \in Token : Stored(t) =>
        LET c == origin[tokens[t].family] IN
        /\ c # Nil /\ StoredCode(c)
        /\ tokens[t].user = codes[c].user
        /\ tokens[t].app = codes[c].app
        /\ tokens[t].scope \subseteq codes[c].scope

\* A public client holds refresh tokens only in families whose code was
\* exchanged with the PKCE verifier.  The consent form lets codes without a
\* challenge come into being (index.ts:748-757); the exchange is what stops
\* them (index.ts:802-816).
PublicClientsProve ==
    \A t \in Token : Stored(t) /\ tokens[t].app \in Public => origin[tokens[t].family] \in proved

\* Two live tokens of one family come only of two refreshes of one token that
\* overlapped: one stored its successor while the other, past the checks, had
\* yet to.  A token presented again once its refresh has ended forks nothing
\* (index.ts:838-905).
ForksOnlyByRace ==
    \A s, t \in Token :
        Live(s) /\ Live(t) /\ s # t /\ tokens[s].family = tokens[t].family =>
            \E a, b \in Token : a # b /\ parent[a] = parent[b] /\ parent[a] \in raced
                                /\ Stored(a) /\ tokens[a].family = tokens[s].family

\* In a condemned family no token that was there at the time gets past the
\* checks again: only a successor that a rotation stored afterwards can be
\* refreshed (index.ts:840-848).
CondemnedTokensStayOut ==
    [][\A r \in Request :
          requests[r].pc = "idle" /\ requests'[r].pc = "mark" /\ requests'[r].family \in condemned
              => requests'[r].tok \in late]_vars

\* authorization-code.mdx:189: "If the same refresh token is used twice, the
\* entire token family is revoked (reuse detection)."
CondemnedFamilyDead ==
    \A t \in Token : Live(t) => tokens[t].family \notin condemned

=============================================================================
