----------------------------- MODULE MagicLinks -----------------------------
(***************************************************************************)
(* @holeauth/plugin-magic-link: requesting a link or a one-time code,      *)
(* signing in with it, and the challenge hook that asks for one after a    *)
(* password (packages/plugin-magic-link/src/plugin.ts), over               *)
(* @holeauth/magic-link-drizzle.                                           *)
(*                                                                         *)
(* Each await is a step.  The rate limiters are module RateLimiter; a      *)
(* refusal of theirs ends a request before it has done anything, as Fail   *)
(* does.  Rows of a user go by cascade when the user does.  The deployment *)
(* sends links or codes, not both; the address for links takes either.     *)
(***************************************************************************)
EXTENDS FiniteSets, Naturals, Sequences

CONSTANTS
    User,           \* ids createUser may draw
    Email,
    Token,          \* secrets of links and codes
    Request,        \* slots for flows in progress
    Deployments,    \* the configurations to start from
    NoUser,         \* no row in the users table
    NoToken,        \* no row in the tokens table
    Nil             \* an unset value

\* role: a way of signing in by itself, or what the challenge hook asks for.
\* useFor: the addresses served, those with a user, those without, or both.
\* profile: users may change their address.
Deployment ==
    [mode : {"magic-link", "otp"}, role : {"primary", "secondFactor"},
     useFor : {"login", "register", "both"}, profile : BOOLEAN]

ASSUME DeploymentAssumption == Deployments \subseteq Deployment

UserRow == [email : Email, verified : BOOLEAN]

\* A new token is younger than resendCooldownSeconds, an old one past its TTL.
TokenRow ==
    [email : Email, user : User, used : BOOLEAN, age : {"new", "settled", "expired"}]

ASSUME SentinelAssumption ==
    /\ Nil \notin User \cup Email \cup Token
    /\ NoUser \notin UserRow /\ NoToken \notin TokenRow

\* owner: the user the token was requested for.
Session == [user : User, token : Token \cup {Nil}, owner : User \cup {Nil}]

VARIABLES
    config,         \* the deployment, chosen at the start
    users,
    tokens,
    drawn,          \* tokens created so far, in the order of createdAt
    mailed,         \* tokens of the table that the mail server accepted
    opened,         \* the session opened last, and by which token (module Sessions)
    requests,       \* flows in progress
    \* History, read by properties only.
    created,        \* ids drawn so far
    moved,          \* users whose address was changed
    proven,         \* addresses a token sent to them came back from
    overlapped,     \* addresses two requests were past the idempotency check for
    redeemed        \* tokens a sign-in was completed with

history == <<created, moved, proven, overlapped, redeemed>>
vars == <<config, users, tokens, drawn, mailed, opened, requests, history>>

PC ==
    {"idle", "provision", "active", "latest", "withdraw", "store", "send",
     "claim", "resolve", "byEmail", "recreate", "verify", "complete", "issue"}

\* signIn: the request was made by the challenge hook of a password sign-in.
Local ==
    [pc : PC, user : User \cup {Nil}, email : Email \cup {Nil}, token : Token \cup {Nil},
     signIn : BOOLEAN, owner : User \cup {Nil}]

Idle == [pc |-> "idle", user |-> Nil, email |-> Nil, token |-> Nil, signIn |-> FALSE,
         owner |-> Nil]

Exists(u) == users[u] # NoUser

TypeOK ==
    /\ config \in Deployments
    /\ users \in [User -> UserRow \cup {NoUser}]
    /\ tokens \in [Token -> TokenRow \cup {NoToken}]
    /\ \A t \in Token : tokens[t] # NoToken => Exists(tokens[t].user)
    /\ \A i, j \in DOMAIN drawn : drawn[i] = drawn[j] => i = j
    /\ \A i \in DOMAIN drawn : drawn[i] \in Token
    /\ mailed \subseteq {t \in Token : tokens[t] # NoToken}
    /\ opened \in Session \cup {Nil}
    /\ opened # Nil => Exists(opened.user)
    /\ requests \in [Request -> Local]
    /\ created \subseteq User /\ moved \subseteq User
    /\ proven \subseteq Email /\ overlapped \subseteq Email
    /\ redeemed \subseteq Token

\* Nobody, or one user registered with a password: the address is unproven.
Init ==
    /\ config \in Deployments
    /\ \E registered \in {{}} \cup {{u} : u \in User}, e \in Email :
          /\ created = registered
          /\ users = [u \in User |-> IF u \in registered THEN [email |-> e, verified |-> FALSE]
                                     ELSE NoUser]
    /\ tokens = [t \in Token |-> NoToken]
    /\ drawn = <<>>
    /\ opened = Nil
    /\ mailed = {} /\ moved = {} /\ proven = {} /\ overlapped = {}
    /\ requests = [r \in Request |-> Idle]
    /\ redeemed = {}

-----------------------------------------------------------------------------

Goto(r, q) == requests' = [requests EXCEPT ![r] = q]

Finish(r) == Goto(r, Idle)

\* A step that reads, and writes nothing.
Reads == UNCHANGED <<config, users, tokens, drawn, mailed, opened, history>>

\* What api.request throws is swallowed by runSignInChallenge, which goes on as
\* if the hook had asked for nothing; elsewhere it is the caller's error.
Thrown(q) ==
    IF q.signIn THEN [Idle EXCEPT !.pc = "issue", !.user = q.user, !.signIn = TRUE] ELSE Idle

HasEmail(u, e) == Exists(u) /\ users[u].email = e

AddressFree(e) == ~\E u \in User : HasEmail(u, e)

\* Mutant: asking for a link verifies the address.
NewUserVerified(e) == [email |-> e, verified |-> TRUE]

NewUser(e) == [email |-> e, verified |-> FALSE]

\* createUser; the index on the address refuses a second row.
CreateUser(u, e) ==
    /\ AddressFree(e)
    /\ u \in User \ created
    /\ users' = [users EXCEPT ![u] = NewUser(e)]
    /\ created' = created \cup {u}

Usable(t) == tokens[t] # NoToken /\ ~tokens[t].used /\ tokens[t].age # "expired"

\* Mutant: tokens that were used are looked for.
ActiveTokensUsed(e) == {t \in Token : tokens[t] # NoToken /\ tokens[t].email = e /\ tokens[t].used}

\* The rows findActiveToken chooses from; it takes the latest.
ActiveTokens(e) == {t \in Token : Usable(t) /\ tokens[t].email = e}

TokensOf(e) == {t \in Token : tokens[t] # NoToken /\ tokens[t].email = e}

IsLatest(t, T) ==
    /\ t \in T
    /\ \A i, j \in DOMAIN drawn : drawn[i] = t /\ drawn[j] \in T => j <= i

-----------------------------------------------------------------------------
(* Requesting a link or a code.                                            *)

\* resolveUserForRequest: the look-up by address, and what the scope allows.
BeginRequest(r, e, signIn) ==
    /\ requests[r] = Idle
    /\ \/ \E u \in User :
             /\ HasEmail(u, e) /\ config.useFor # "register"
             /\ Goto(r, [Idle EXCEPT !.pc = "active", !.user = u, !.email = e, !.signIn = signIn])
       \/ /\ AddressFree(e) /\ config.useFor # "login"
          /\ Goto(r, [Idle EXCEPT !.pc = "provision", !.email = e])
    /\ Reads

RequestLink(r, e) == BeginRequest(r, e, FALSE)

\* The user row is there before the address has proved anything.
Provision(r) ==
    /\ requests[r].pc = "provision"
    /\ LET q == requests[r] IN
       \/ ~AddressFree(q.email) /\ Finish(r) /\ Reads
       \/ /\ \E u \in User :
                /\ CreateUser(u, q.email)
                /\ Goto(r, [q EXCEPT !.pc = "active", !.user = u])
          /\ UNCHANGED <<config, tokens, drawn, mailed, opened, moved, proven, overlapped, redeemed>>

\* Requests for the address that are past the idempotency check.
PastCheck(e) ==
    {r \in Request : requests[r].email = e /\ requests[r].pc \in {"latest", "withdraw", "store"}}

\* findActiveToken: nothing is sent while a token is good.  The challenge hook
\* asks for its pending token all the same.
CheckActive(r) ==
    /\ requests[r].pc = "active"
    /\ LET q == requests[r] IN
       \/ ActiveTokens(q.email) # {} /\ Finish(r) /\ Reads
       \/ /\ ActiveTokens(q.email) = {}
          /\ Goto(r, [q EXCEPT !.pc = "latest"])
          /\ overlapped' = IF PastCheck(q.email) = {} THEN overlapped
                           ELSE overlapped \cup {q.email}
          /\ UNCHANGED <<config, users, tokens, drawn, mailed, opened, created, moved,
                         proven, redeemed>>

\* findLatestByIdentifier: RESEND_TOO_SOON while the last token is young.
CheckCooldown(r) ==
    /\ requests[r].pc = "latest"
    /\ LET q == requests[r]
           young == \E t \in TokensOf(q.email) :
                        IsLatest(t, TokensOf(q.email)) /\ tokens[t].age = "new"
       IN Goto(r, IF young THEN Thrown(q) ELSE [q EXCEPT !.pc = "withdraw"])
    /\ Reads

\* deleteByIdentifier: "a fresh request supersedes the old code/link".
Withdrawn(e) == [t \in Token |-> IF t \in TokensOf(e) THEN NoToken ELSE tokens[t]]

\* Of a token that has gone nothing can be made.
StillMailed == {t \in mailed : tokens'[t] # NoToken}

Withdraw(r) ==
    /\ requests[r].pc = "withdraw"
    /\ tokens' = Withdrawn(requests[r].email)
    /\ mailed' = StillMailed
    /\ Goto(r, [requests[r] EXCEPT !.pc = "store"])
    /\ UNCHANGED <<config, users, drawn, opened, history>>

NewToken(q) ==
    [email |-> q.email, user |-> q.user, used |-> FALSE, age |-> "new"]

\* createToken; the foreign key refuses it when the user has gone.
Store(r) ==
    /\ requests[r].pc = "store"
    /\ LET q == requests[r] IN
       \/ ~Exists(q.user) /\ Goto(r, Thrown(q)) /\ Reads
       \/ /\ Exists(q.user)
          /\ \E t \in Token :
                /\ \A i \in DOMAIN drawn : drawn[i] # t
                /\ tokens' = [tokens EXCEPT ![t] = NewToken(q)]
                /\ drawn' = Append(drawn, t)
                /\ Goto(r, [q EXCEPT !.pc = "send", !.token = t])
          /\ UNCHANGED <<config, users, mailed, opened, created, moved, proven,
                         overlapped, redeemed>>

\* sendEmail, after which a sign-in is halted with a pending token.
Send(r) ==
    /\ requests[r].pc = "send"
    /\ mailed' = mailed \cup {t \in {requests[r].token} : tokens[t] # NoToken}
    /\ Finish(r)
    /\ UNCHANGED <<config, users, tokens, drawn, opened, history>>

-----------------------------------------------------------------------------
(* Signing in with a link or a code.                                       *)

\* A token is used: whoever presents it read the mail.
Claim(r, t, q) ==
    /\ tokens' = [tokens EXCEPT ![t].used = TRUE]
    /\ proven' = proven \cup {tokens[t].email}
    /\ Goto(r, q)
    /\ UNCHANGED <<config, users, drawn, mailed, opened, created, moved, overlapped, redeemed>>

\* consume: atomicConsumeByHash checks hash, use and expiry in one statement.  It is
\* served in every mode and does not look at the type: a code presented here is
\* claimed like a link, without the e-mail and the verify limiter of verifyOtp.
Consume(r, t) ==
    /\ requests[r] = Idle
    /\ t \in mailed /\ Usable(t)
    /\ Claim(r, t, [Idle EXCEPT !.pc = "resolve", !.user = tokens[t].user,
                                !.email = tokens[t].email, !.token = t,
                                !.owner = tokens[t].user])

\* verifyOtp: the code is compared with the latest that is active ...
VerifyOtp(r, t) ==
    /\ config.mode = "otp" /\ requests[r] = Idle
    /\ t \in mailed /\ tokens[t] # NoToken
    /\ IsLatest(t, ActiveTokens(tokens[t].email))
    /\ Goto(r, [Idle EXCEPT !.pc = "claim", !.user = tokens[t].user,
                            !.email = tokens[t].email, !.token = t,
                            !.owner = tokens[t].user])
    /\ Reads

\* Mutant: the update names the row and not usedAt.
UnusedAlways(t) == tokens[t] # NoToken

\* atomicConsumeById; it does not look at the expiry.
Unused(t) == tokens[t] # NoToken /\ ~tokens[t].used

\* ... and the row is claimed by id.
ClaimOtp(r) ==
    /\ requests[r].pc = "claim"
    /\ LET q == requests[r] IN
       \/ ~Unused(q.token) /\ Finish(r) /\ Reads
       \/ Unused(q.token) /\ Claim(r, q.token, [q EXCEPT !.pc = "resolve"])

\* Mutant: the user is looked for by the address alone.
FoundNever(u) == FALSE

Found(u) == Exists(u)

\* resolveUserFromRecord: the user of the row ...
Resolve(r) ==
    /\ requests[r].pc = "resolve"
    /\ LET q == requests[r] IN
       Goto(r, [q EXCEPT !.pc = IF Found(q.user) THEN "verify" ELSE "byEmail"])
    /\ Reads

\* ... or one with the address ...
ResolveByEmail(r) ==
    /\ requests[r].pc = "byEmail"
    /\ LET q == requests[r] IN
       \/ \E u \in User : HasEmail(u, q.email) /\ Goto(r, [q EXCEPT !.pc = "verify", !.user = u])
       \/ AddressFree(q.email) /\ Goto(r, IF config.useFor = "login" THEN Idle ELSE [q EXCEPT !.pc = "recreate"])
    /\ Reads

\* ... or a new one.
Recreate(r) ==
    /\ requests[r].pc = "recreate"
    /\ LET q == requests[r] IN
       \/ ~AddressFree(q.email) /\ Finish(r) /\ Reads
       \/ /\ \E u \in User :
                /\ CreateUser(u, q.email)
                /\ Goto(r, [q EXCEPT !.pc = "verify", !.user = u])
          /\ UNCHANGED <<config, tokens, drawn, mailed, opened, moved, proven, overlapped, redeemed>>

\* applyEmailVerificationRules: the address the user has now is marked.
MarkVerified(r) ==
    /\ requests[r].pc = "verify"
    /\ LET q == requests[r] IN
       \/ ~Exists(q.user) /\ Finish(r) /\ Reads
       \/ /\ Exists(q.user)
          /\ users' = [users EXCEPT ![q.user].verified = TRUE]
          /\ Goto(r, [q EXCEPT !.pc = "complete"])
          /\ UNCHANGED <<config, tokens, drawn, mailed, opened, history>>

\* completeSignIn of the registry: getUserById, then issueSession.
Complete(r) ==
    /\ requests[r].pc = "complete"
    /\ LET q == requests[r] IN
       \/ ~Exists(q.user) /\ Finish(r) /\ Reads
       \/ /\ Exists(q.user)
          /\ opened' = [user |-> q.user, token |-> q.token, owner |-> q.owner]
          /\ redeemed' = redeemed \cup {q.token}
          /\ Finish(r)
          /\ UNCHANGED <<config, users, tokens, drawn, mailed, created, moved, proven,
                         overlapped>>

-----------------------------------------------------------------------------
(* A password sign-in, once the password was right.                        *)

\* The challenge hook, or none in the primary role.  In the scope "register" the
\* hook's request sends nothing and the sign-in is halted: no step.
SignIn(r, u) ==
    /\ Exists(u)
    /\ \/ config.role = "secondFactor" /\ BeginRequest(r, users[u].email, TRUE)
       \/ /\ config.role = "primary" /\ requests[r] = Idle
          /\ Goto(r, Thrown([Idle EXCEPT !.user = u, !.signIn = TRUE]))
          /\ Reads

\* No challenge: issueSession.
Issue(r) ==
    /\ requests[r].pc = "issue"
    /\ LET q == requests[r] IN
       \/ ~Exists(q.user) /\ Finish(r) /\ Reads
       \/ /\ Exists(q.user)
          /\ opened' = [user |-> q.user, token |-> Nil, owner |-> Nil]
          /\ Finish(r)
          /\ UNCHANGED <<config, users, tokens, drawn, mailed, history>>

-----------------------------------------------------------------------------
(* Failures, time, and the other flows over these tables.                  *)

\* A limiter refuses, an adapter or sendEmail throws.
Fail(r) ==
    /\ requests[r].pc \in {"provision", "active", "latest", "withdraw", "store", "send"}
    /\ Goto(r, Thrown(requests[r]))
    /\ Reads

\* The flow ends at its await.
Abort(r) == requests[r].pc # "idle" /\ Finish(r) /\ Reads

\* Time passes for a token: the cool-down is over, then the TTL.
Age(t) ==
    /\ tokens[t] # NoToken /\ tokens[t].age # "expired"
    /\ tokens' = [tokens EXCEPT ![t].age = IF @ = "new" THEN "settled" ELSE "expired"]
    /\ UNCHANGED <<config, users, drawn, mailed, opened, requests, history>>

\* deleteExpired, run by the application when it likes.
DeleteExpired ==
    /\ tokens' = [t \in Token |->
                    IF tokens[t] # NoToken /\ tokens[t].age = "expired" THEN NoToken ELSE tokens[t]]
    /\ mailed' = StillMailed
    /\ UNCHANGED <<config, users, drawn, opened, requests, history>>

\* updateUser of the core; the mark of the old address stays.
UpdateUser(u, e) ==
    /\ config.profile
    /\ Exists(u) /\ AddressFree(e)
    /\ users' = [users EXCEPT ![u].email = e]
    /\ moved' = moved \cup {u}
    /\ UNCHANGED <<config, tokens, drawn, mailed, opened, requests, created, proven,
                   overlapped, redeemed>>

\* Mutant: no cascade, as with an adapter that has no foreign keys.
TokensWithoutAll(u) == tokens

TokensWithout(u) ==
    [t \in Token |-> IF tokens[t] # NoToken /\ tokens[t].user = u THEN NoToken ELSE tokens[t]]

\* deleteUser of the core: the hook, and unless it ends there, the row.
DeleteUser(u) ==
    /\ Exists(u)
    /\ tokens' = TokensWithout(u)
    /\ mailed' = StillMailed
    /\ \/ UNCHANGED <<users, opened, moved>>
       \/ /\ users' = [users EXCEPT ![u] = NoUser]
          /\ opened' = IF opened # Nil /\ opened.user = u THEN Nil ELSE opened
          /\ moved' = moved \ {u}
    /\ UNCHANGED <<config, drawn, requests, created, proven, overlapped, redeemed>>

-----------------------------------------------------------------------------

Next ==
    \/ \E r \in Request :
          \/ \E e \in Email : RequestLink(r, e)
          \/ \E u \in User : SignIn(r, u)
          \/ \E t \in Token : Consume(r, t) \/ VerifyOtp(r, t)
          \/ Provision(r) \/ CheckActive(r) \/ CheckCooldown(r) \/ Withdraw(r)
          \/ Store(r) \/ Send(r) \/ ClaimOtp(r)
          \/ Resolve(r) \/ ResolveByEmail(r) \/ Recreate(r) \/ MarkVerified(r)
          \/ Complete(r) \/ Issue(r) \/ Fail(r) \/ Abort(r)
    \/ \E t \in Token : Age(t)
    \/ DeleteExpired
    \/ \E u \in User : DeleteUser(u) \/ \E e \in Email : UpdateUser(u, e)

Spec == Init /\ [][Next]_vars

-----------------------------------------------------------------------------
(* Properties.                                                             *)

\* A link or code that is still good is never withdrawn by a later request: "if a
\* valid (unexpired, unconsumed) token already exists ... skip creating a new
\* one" (plugin.ts:614-622).  Two requests that were both past that look are the
\* exception: the second deletes what the first has mailed (plugin.ts:648).
GoodLinksStay ==
    [][ \A t \in Token :
           Usable(t) /\ tokens'[t] = NoToken /\ tokens[t].email \notin overlapped =>
               \E u \in User : DeleteUser(u) ]_vars

\* A link opens a session for the user it was requested for, whatever the
\* addresses have become; it falls back on the address, and may create a user,
\* only when that user was deleted while the link was in use (plugin.ts:763-788).
LinkSignsInItsUser ==
    opened # Nil /\ opened.token # Nil => opened.user = opened.owner \/ ~Exists(opened.owner)

\* An address is marked verified only once a token sent to it came back
\* (plugin.ts:802-807).  A user whose address was changed is the exception: the
\* mark is put on the address the user has when the link of the old one is used.
VerifiedWasProven ==
    \A u \in User : Exists(u) /\ users[u].verified => users[u].email \in proven \/ u \in moved

\* plugin.ts:398: "Issue + send a fresh code, then halt the sign-in with a
\* pending token."
ChallengeHalts == config.role = "secondFactor" /\ opened # Nil => opened.token # Nil

-----------------------------------------------------------------------------
(* Links and codes implement Tickets.                                      *)

Drawn(t) == \E i \in DOMAIN drawn : drawn[i] = t

\* Requests that have claimed t and not yet completed their sign-in.
HoldersOf(t) ==
    {r \in Request : requests[r].token = t
        /\ requests[r].pc \in {"resolve", "byEmail", "recreate", "verify", "complete"}}

\* Whoever compared a code in time may still claim its row when it has expired.
State(t) ==
    IF t \in redeemed THEN "used"
    ELSE IF HoldersOf(t) # {} THEN "taken"
    ELSE IF tokens[t] # NoToken /\ ~tokens[t].used THEN "open"
    ELSE IF Drawn(t) THEN "void" ELSE "none"

Ticketing == INSTANCE Tickets WITH
    Ticket <- Token,
    Holder <- Request,
    state <- [t \in Token |-> State(t)],
    holders <- [t \in Token |-> HoldersOf(t)]

\* A token completes one sign-in, however many requests present it: "Atomic
\* consume - prevents double-session via concurrent requests" (plugin.ts:685).
\* However requests, claims, withdrawals, deletions of users and of expired rows
\* interleave, a token is taken by one request, only while its row was there and
\* unused, and what was burned or withdrawn comes to nothing; a code may race from
\* verifyOtp and from the address for links (plugin.ts:491-504, 681-697,
\* 732-741, 763-788, magic-link-drizzle/src/pg/index.ts:128-178).
ImplementsTickets == Ticketing!Spec

=============================================================================
