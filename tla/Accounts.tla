------------------------------ MODULE Accounts ------------------------------
(***************************************************************************)
(* The flows of @holeauth/core over the users table: registration, sign-in *)
(* with a password, change and reset of a password, invitations, sign-on   *)
(* with a provider, a change of address and deletion (packages/core/src/   *)
(* flows, packages/core/src/sso/callback.ts) over @holeauth/adapter-drizzle.*)
(*                                                                         *)
(* Each await on an adapter is a step.  A flow whose process dies, or      *)
(* whose next statement or awaited audit record fails, is ended by Abort.  *)
(* runInTransaction hands its callback the outer connection                *)
(* (packages/adapter-drizzle/src/pg/index.ts:417-421), so the statements   *)
(* inside it are not rolled back together.                                 *)
(*                                                                         *)
(* The session store is module Sessions; here a session is what the flow   *)
(* that opened it had established, and it ends by EndSession.  Plugin      *)
(* hooks that end a flow (`before' hooks, a sign-in challenge) are Abort.  *)
(* The users table has the unique index on the address that the documented *)
(* schemas give it, and the account adapter is configured.                 *)
(***************************************************************************)
EXTENDS FiniteSets, Naturals

CONSTANTS
    User,           \* ids createUser may draw
    Email,
    Password,
    Token,          \* verification tokens, of resets and of invitations
    Account,        \* accounts at the provider
    Request,        \* slots for flows in progress
    Offers,         \* what deployments offer, a set of subsets of Ways
    NoUser,         \* no row in the users table
    NoToken,        \* no row in the verification tokens table
    Nil             \* an unset value

\* Self-service registration, resets, invitations, sign-on with a provider,
\* changes of address.
Ways == {"register", "reset", "invite", "provider", "profile"}

ASSUME OffersAssumption == Offers \subseteq SUBSET Ways

UserRow == [email : Email, password : Password \cup {Nil}]

TokenRow == [kind : {"reset", "invite"}, email : Email]

ASSUME SentinelAssumption ==
    /\ Nil \notin User \cup Email \cup Password \cup Token \cup Account
    /\ NoUser \notin UserRow /\ NoToken \notin TokenRow

\* A live session: its user, the password and the provider account it rests on.
Session == [user : User, password : Password \cup {Nil}, account : Account \cup {Nil}]

VARIABLES
    \* Configuration, chosen at the start.
    offers,         \* what the deployment offers
    atomicConsume,  \* tokens are consumed by DELETE ... RETURNING (not on MySQL)
    autoLink,       \* allowDangerousEmailAccountLinking
    users,
    sessions,
    tokens,
    accounts,       \* the user a provider account is linked to, or Nil
    requests,       \* flows in progress
    \* History, read by properties only.
    created,        \* ids drawn so far
    drawn,          \* tokens drawn so far
    issued,         \* for each token drawn, the user it was drawn for, if any
    spent,          \* tokens accepted
    respent,        \* tokens accepted more than once
    opened,         \* users a token opened
    resets,         \* <<token, user>>: the password was set with the token
    moved,          \* users whose address was changed
    lapsed,         \* users an old password may still be signed in for: a
                    \* sign-in overlapped a change, or a change kept the sessions
    origin,         \* the provider account a user was created for
    vouched,        \* accounts whose provider called the address verified
    stranded        \* users created for a provider account and never linked

config == <<offers, atomicConsume, autoLink>>
tables == <<users, sessions, tokens, accounts>>
tokenHistory == <<drawn, issued, spent, respent, opened, resets>>
userHistory == <<created, moved, lapsed, origin, vouched, stranded>>
vars == <<config, tables, requests, tokenHistory, userHistory>>

PC ==
    {"idle", "register", "issue", "store", "revoke", "mailReset", "mailInvite",
     "claimReset", "claimInvite", "resolve", "check", "invited", "follow", "byEmail", "provision",
     "link", "drop"}

Local ==
    [pc : PC, user : User \cup {Nil}, email : Email \cup {Nil},
     password : Password \cup {Nil}, token : Token \cup {Nil},
     account : Account \cup {Nil}, flag : BOOLEAN]

Idle ==
    [pc |-> "idle", user |-> Nil, email |-> Nil, password |-> Nil,
     token |-> Nil, account |-> Nil, flag |-> FALSE]

Exists(u) == users[u] # NoUser

TypeOK ==
    /\ offers \in Offers /\ atomicConsume \in BOOLEAN /\ autoLink \in BOOLEAN
    /\ users \in [User -> UserRow \cup {NoUser}]
    /\ sessions \subseteq Session
    /\ \A s \in sessions : Exists(s.user)
    /\ tokens \in [Token -> TokenRow \cup {NoToken}]
    /\ accounts \in [Account -> {u \in User : Exists(u)} \cup {Nil}]
    /\ requests \in [Request -> Local]
    /\ created \subseteq User
    /\ issued \in [Token -> User \cup {Nil}]
    /\ respent \subseteq spent /\ spent \subseteq drawn /\ drawn \subseteq Token
    /\ opened \in [Token -> SUBSET created]
    /\ resets \subseteq Token \X User
    /\ moved \cup lapsed \cup stranded \subseteq User
    /\ origin \in [User -> Account \cup {Nil}]
    /\ vouched \subseteq Account

Init ==
    /\ offers \in Offers
    /\ atomicConsume \in BOOLEAN /\ autoLink \in BOOLEAN
    /\ offers \cap {"reset", "invite"} = {} => atomicConsume
    /\ "provider" \notin offers => ~autoLink
    /\ users = [u \in User |-> NoUser]
    /\ sessions = {}
    /\ tokens = [t \in Token |-> NoToken]
    /\ accounts = [a \in Account |-> Nil]
    /\ requests = [r \in Request |-> Idle]
    /\ created = {} /\ moved = {} /\ lapsed = {}
    /\ vouched = {} /\ stranded = {} /\ drawn = {} /\ spent = {} /\ respent = {} /\ resets = {}
    /\ issued = [t \in Token |-> Nil]
    /\ opened = [t \in Token |-> {}]
    /\ origin = [u \in User |-> Nil]

-----------------------------------------------------------------------------

Goto(r, q) == requests' = [requests EXCEPT ![r] = q]

Begin(r, q) == requests[r] = Idle /\ Goto(r, q)

Finish(r) == Goto(r, Idle)

\* getUserByEmail: LIMIT 1, so any of the rows.
HasEmail(u, e) == Exists(u) /\ users[u].email = e

\* Mutant: neither the look-up nor the index finds the address.
AddressFreeAlways(e) == e \in Email

AddressFree(e) == ~\E u \in User : HasEmail(u, e)

\* A flow ends, at a refusal or with nothing left to write.
End(r) ==
    /\ Finish(r)
    /\ UNCHANGED <<config, tables, tokenHistory, userHistory>>

\* createUser: a new id; the index on the address refuses a second row.
CreateUser(u, row) ==
    /\ AddressFree(row.email)
    /\ u \in User \ created
    /\ users' = [users EXCEPT ![u] = row]
    /\ created' = created \cup {u}

-----------------------------------------------------------------------------
(* Registration and sign-in with a password.                               *)

Register(r, e, p) ==
    /\ "register" \in offers
    /\ AddressFree(e)
    /\ Begin(r, [Idle EXCEPT !.pc = "register", !.email = e, !.password = p])
    /\ UNCHANGED <<config, tables, tokenHistory, userHistory>>

CreateRegistered(r) ==
    /\ requests[r].pc = "register"
    /\ LET q == requests[r] IN
       \/ ~AddressFree(q.email) /\ End(r)
       \/ /\ \E u \in User : CreateUser(u, [email |-> q.email, password |-> q.password])
          /\ Finish(r)
          /\ UNCHANGED <<config, sessions, tokens, accounts, tokenHistory, moved,
                         lapsed, origin, vouched, stranded>>

\* The row is read and the password compared with it.
SignIn(r, u) ==
    /\ Exists(u) /\ users[u].password # Nil
    /\ Begin(r, [Idle EXCEPT !.pc = "issue", !.user = u, !.password = users[u].password])
    /\ UNCHANGED <<config, tables, tokenHistory, userHistory>>

\* issueSession; the foreign key refuses it when the user has gone.
Issue(r) ==
    /\ requests[r].pc = "issue"
    /\ LET q == requests[r] IN
       \/ ~Exists(q.user) /\ End(r)
       \/ /\ Exists(q.user)
          /\ sessions' = sessions \cup
                {[user |-> q.user, password |-> q.password, account |-> q.account]}
          /\ lapsed' = IF q.password \in {Nil, users[q.user].password}
                       THEN lapsed ELSE lapsed \cup {q.user}
          /\ Finish(r)
          /\ UNCHANGED <<config, users, tokens, accounts, tokenHistory, created, moved,
                         origin, vouched, stranded>>

\* Sign-out, expiry, or a family revoked: module Sessions.
EndSession(s) ==
    /\ sessions' = sessions \ {s}
    /\ UNCHANGED <<config, users, tokens, accounts, requests, tokenHistory, userHistory>>

-----------------------------------------------------------------------------
(* A new password, by change or by reset.                                  *)

\* changePassword with the current password; `keep' is revokeOtherSessions: false.
ChangePassword(r, u, p, keep) ==
    /\ Exists(u) /\ users[u].password # Nil
    /\ Begin(r, [Idle EXCEPT !.pc = "store", !.user = u, !.password = p, !.flag = keep])
    /\ UNCHANGED <<config, tables, tokenHistory, userHistory>>

\* Mutant: the sessions are never revoked.
AfterStoreDone(q) == Idle

AfterStore(q) == IF q.flag THEN Idle ELSE [q EXCEPT !.pc = "revoke"]

\* updateUser throws when there is no row.
StorePassword(r) ==
    /\ requests[r].pc = "store"
    /\ LET q == requests[r] IN
       \/ ~Exists(q.user) /\ End(r)
       \/ /\ Exists(q.user)
          /\ users' = [users EXCEPT ![q.user].password = q.password]
          /\ resets' = IF q.token = Nil THEN resets ELSE resets \cup {<<q.token, q.user>>}
          /\ lapsed' = IF q.flag THEN lapsed \cup {q.user} ELSE lapsed
          /\ Goto(r, AfterStore(q))
          /\ UNCHANGED <<config, sessions, tokens, accounts, drawn, issued, spent, respent,
                         opened, created, moved, origin, vouched, stranded>>

SessionsOf(u) == {s \in sessions : s.user = u}

\* revokeAllForUser.
RevokeAll(r) ==
    /\ requests[r].pc = "revoke"
    /\ sessions' = sessions \ SessionsOf(requests[r].user)
    /\ Finish(r)
    /\ UNCHANGED <<config, users, tokens, accounts, tokenHistory, userHistory>>

\* requestPasswordReset: silent when nobody has the address.
RequestReset(r, e) ==
    /\ "reset" \in offers
    /\ \E u \in User :
          /\ HasEmail(u, e)
          /\ Begin(r, [Idle EXCEPT !.pc = "mailReset", !.user = u, !.email = e])
    /\ UNCHANGED <<config, tables, tokenHistory, userHistory>>

\* verificationToken.create: a token nobody has seen.
DrawToken(t, kind, e) ==
    /\ t \notin drawn
    /\ drawn' = drawn \cup {t}
    /\ tokens' = [tokens EXCEPT ![t] = [kind |-> kind, email |-> e]]

\* The tokens of earlier requests stay.
MailReset(r) ==
    /\ requests[r].pc = "mailReset"
    /\ \E t \in Token :
          /\ DrawToken(t, "reset", requests[r].email)
          /\ issued' = [issued EXCEPT ![t] = requests[r].user]
    /\ Finish(r)
    /\ UNCHANGED <<config, users, sessions, accounts, spent, respent, opened, resets, userHistory>>

\* Mutant: the row is read and left for later requests.
TokenAfterStays(t) == tokens

TokenAfter(t) == [tokens EXCEPT ![t] = NoToken]

\* consume accepted the token; q says how the flow goes on.
Accept(r, t, q) ==
    /\ tokens' = TokenAfter(t)
    /\ spent' = spent \cup {t}
    /\ respent' = IF t \in spent THEN respent \cup {t} ELSE respent
    /\ Goto(r, q)
    /\ UNCHANGED <<config, users, sessions, accounts, drawn, issued, opened, resets, userHistory>>

\* How the flow of a token goes on once the token is accepted.
Onward(q) == [q EXCEPT !.pc = IF q.pc = "claimReset" THEN "resolve" ELSE "check"]

\* verificationToken.consume: one statement, or on MySQL a select ...
Consume(r, q) ==
    /\ requests[r] = Idle
    /\ \/ atomicConsume /\ Accept(r, q.token, Onward(q))
       \/ /\ ~atomicConsume
          /\ Goto(r, q)
          /\ UNCHANGED <<config, tables, tokenHistory, userHistory>>

\* ... and a delete that does not look at what it deleted.
Claim(r) ==
    /\ requests[r].pc \in {"claimReset", "claimInvite"}
    /\ Accept(r, requests[r].token, Onward(requests[r]))

\* consumePasswordReset, by whoever reads the mailbox.
ConsumeReset(r, t, p) ==
    /\ tokens[t] # NoToken /\ tokens[t].kind = "reset"
    /\ Consume(r, [Idle EXCEPT !.pc = "claimReset", !.token = t,
                               !.email = tokens[t].email, !.password = p])

\* The user is looked up again, by address.
ResolveReset(r) ==
    /\ requests[r].pc = "resolve"
    /\ LET q == requests[r] IN
       \/ AddressFree(q.email) /\ End(r)
       \/ /\ \E u \in User : HasEmail(u, q.email) /\ Goto(r, [q EXCEPT !.pc = "store", !.user = u])
          /\ UNCHANGED <<config, tables, tokenHistory, userHistory>>

\* The row's TTL: consume answers as if there were no row.
Expire(t) ==
    /\ tokens[t] # NoToken
    /\ tokens' = [tokens EXCEPT ![t] = NoToken]
    /\ UNCHANGED <<config, users, sessions, accounts, requests, tokenHistory, userHistory>>

-----------------------------------------------------------------------------
(* Invitations.                                                            *)

CreateInvite(r, e) ==
    /\ "invite" \in offers
    /\ AddressFree(e)
    /\ Begin(r, [Idle EXCEPT !.pc = "mailInvite", !.email = e])
    /\ UNCHANGED <<config, tables, tokenHistory, userHistory>>

MailInvite(r) ==
    /\ requests[r].pc = "mailInvite"
    /\ \E t \in Token : DrawToken(t, "invite", requests[r].email)
    /\ Finish(r)
    /\ UNCHANGED <<config, users, sessions, accounts, issued, spent, respent, opened, resets, userHistory>>

\* revokeInvite, where the adapter has deleteByIdentifier (not on MySQL).
RevokeInvite(t) ==
    /\ atomicConsume
    /\ tokens[t] # NoToken /\ tokens[t].kind = "invite"
    /\ tokens' = [tokens EXCEPT ![t] = NoToken]
    /\ UNCHANGED <<config, users, sessions, accounts, requests, tokenHistory, userHistory>>

\* consumeInvite; flag is autoSignIn.
ConsumeInvite(r, t, p, autoSignIn) ==
    /\ tokens[t] # NoToken /\ tokens[t].kind = "invite"
    /\ Consume(r, [Idle EXCEPT !.pc = "claimInvite", !.token = t, !.email = tokens[t].email,
                               !.password = p, !.flag = autoSignIn])

\* The address may have been taken since; the invitation is used up all the same.
CheckInvited(r) ==
    /\ requests[r].pc = "check"
    /\ LET q == requests[r] IN
       \/ ~AddressFree(q.email) /\ End(r)
       \/ /\ AddressFree(q.email)
          /\ Goto(r, [q EXCEPT !.pc = "invited"])
          /\ UNCHANGED <<config, tables, tokenHistory, userHistory>>

CreateInvited(r) ==
    /\ requests[r].pc = "invited"
    /\ LET q == requests[r] IN
       \/ ~AddressFree(q.email) /\ End(r)
       \/ /\ \E u \in User :
                /\ CreateUser(u, [email |-> q.email, password |-> q.password])
                /\ opened' = [opened EXCEPT ![q.token] = @ \cup {u}]
                /\ Goto(r, IF q.flag THEN [q EXCEPT !.pc = "issue", !.user = u] ELSE Idle)
          /\ UNCHANGED <<config, sessions, tokens, accounts, drawn, issued, spent, respent,
                         resets, moved, lapsed, origin, vouched, stranded>>

-----------------------------------------------------------------------------
(* Sign-on with a provider: the callback, after the exchange of the code.  *)

\* The provider says which account, which address, and whether it was verified.
\* getAccountByProvider: a link is followed, otherwise the address is looked up.
Callback(r, a, e, verified) ==
    /\ "provider" \in offers
    /\ Begin(r, [Idle EXCEPT !.pc = IF accounts[a] = Nil THEN "byEmail" ELSE "follow",
                             !.user = accounts[a], !.account = a, !.email = e,
                             !.flag = verified])
    /\ vouched' = IF verified THEN vouched \cup {a} ELSE vouched
    /\ UNCHANGED <<config, tables, tokenHistory, created, moved, lapsed,
                   origin, stranded>>

\* getUserById of the link; when the user has gone meanwhile, on to the address.
FollowLink(r) ==
    /\ requests[r].pc = "follow"
    /\ LET q == requests[r] IN
       Goto(r, IF Exists(q.user) THEN [q EXCEPT !.pc = "issue"]
               ELSE [q EXCEPT !.pc = "byEmail", !.user = Nil])
    /\ UNCHANGED <<config, tables, tokenHistory, userHistory>>

\* Mutant: a verified address links whatever the configuration says.
MayLinkVerified(q) == q.flag

MayLink(q) == autoLink /\ q.flag

\* A user who has the address is linked, or the callback is refused.
FindByEmail(r) ==
    /\ requests[r].pc = "byEmail"
    /\ LET q == requests[r] IN
       \/ ~AddressFree(q.email) /\ ~MayLink(q) /\ End(r)
       \/ /\ \/ AddressFree(q.email) /\ Goto(r, [q EXCEPT !.pc = "provision"])
             \/ /\ MayLink(q)
                /\ \E u \in User : HasEmail(u, q.email) /\ Goto(r, [q EXCEPT !.pc = "link", !.user = u])
          /\ UNCHANGED <<config, tables, tokenHistory, userHistory>>

\* A user with no password.
Provision(r) ==
    /\ requests[r].pc = "provision"
    /\ LET q == requests[r] IN
       \/ ~AddressFree(q.email) /\ End(r)
       \/ /\ \E u \in User :
                /\ CreateUser(u, [email |-> q.email, password |-> Nil])
                /\ origin' = [origin EXCEPT ![u] = q.account]
                /\ Goto(r, [q EXCEPT !.pc = "link", !.user = u])
          /\ UNCHANGED <<config, sessions, tokens, accounts, tokenHistory, moved, lapsed,
                         vouched, stranded>>

\* Mutant: an upsert, which moves the link.
LinkRefusedNever(q) == ~Exists(q.user)

\* linkAccount: the index on the provider's account, and the foreign key.
LinkRefused(q) == accounts[q.account] # Nil \/ ~Exists(q.user)

Link(r) ==
    /\ requests[r].pc = "link"
    /\ LET q == requests[r] IN
       \/ /\ LinkRefused(q)
          /\ Finish(r)
          /\ stranded' = stranded \cup {q.user}
          /\ UNCHANGED <<config, tables, tokenHistory, created, moved, lapsed, origin,
                         vouched>>
       \/ /\ ~LinkRefused(q)
          /\ accounts' = [accounts EXCEPT ![q.account] = q.user]
          /\ Goto(r, [q EXCEPT !.pc = "issue"])
          /\ UNCHANGED <<config, users, sessions, tokens, tokenHistory, userHistory>>

-----------------------------------------------------------------------------
(* A change of address, and deletion.                                      *)

\* updateUser; a password may not be patched.
UpdateUser(u, e) ==
    /\ "profile" \in offers
    /\ Exists(u) /\ AddressFree(e)
    /\ users' = [users EXCEPT ![u].email = e]
    /\ moved' = moved \cup {u}
    /\ UNCHANGED <<config, sessions, tokens, accounts, requests, tokenHistory, created,
                   lapsed, origin, vouched, stranded>>

\* deleteUser: the plugins clean up, the sessions are revoked ...
DeleteUser(r, u) ==
    /\ Exists(u)
    /\ requests[r] = Idle
    /\ sessions' = sessions \ SessionsOf(u)
    /\ Goto(r, [Idle EXCEPT !.pc = "drop", !.user = u])
    /\ UNCHANGED <<config, users, tokens, accounts, tokenHistory, userHistory>>

\* Mutant: the links stay.
UnlinkedNone(u) == accounts

Unlinked(u) == [a \in Account |-> IF accounts[a] = u THEN Nil ELSE accounts[a]]

\* ... and the row is deleted; sessions and links go by cascade.
DropUser(r) ==
    /\ requests[r].pc = "drop"
    /\ LET u == requests[r].user IN
       /\ users' = [users EXCEPT ![u] = NoUser]
       /\ sessions' = sessions \ SessionsOf(u)
       /\ accounts' = Unlinked(u)
       /\ moved' = moved \ {u} /\ lapsed' = lapsed \ {u} /\ stranded' = stranded \ {u}
    /\ Finish(r)
    /\ UNCHANGED <<config, tokens, tokenHistory, created, origin, vouched>>

\* A flow ends at its await: what it wrote stays written.
Abort(r) ==
    /\ requests[r].pc # "idle"
    /\ LET q == requests[r] IN
       /\ lapsed' = IF q.pc = "revoke" THEN lapsed \cup {q.user} ELSE lapsed
       /\ stranded' = IF q.pc = "link" THEN stranded \cup {q.user} ELSE stranded
    /\ Finish(r)
    /\ UNCHANGED <<config, tables, tokenHistory, created, moved, origin, vouched>>

-----------------------------------------------------------------------------

Next ==
    \/ \E r \in Request :
          \/ \E e \in Email :
                \/ RequestReset(r, e) \/ CreateInvite(r, e)
                \/ \E p \in Password : Register(r, e, p)
                \/ \E a \in Account, verified \in BOOLEAN : Callback(r, a, e, verified)
          \/ \E u \in User :
                \/ SignIn(r, u) \/ DeleteUser(r, u)
                \/ \E p \in Password, keep \in BOOLEAN : ChangePassword(r, u, p, keep)
          \/ \E t \in Token, p \in Password :
                \/ ConsumeReset(r, t, p)
                \/ \E autoSignIn \in BOOLEAN : ConsumeInvite(r, t, p, autoSignIn)
          \/ CreateRegistered(r) \/ Issue(r) \/ StorePassword(r) \/ RevokeAll(r)
          \/ MailReset(r) \/ MailInvite(r) \/ Claim(r) \/ ResolveReset(r)
          \/ CheckInvited(r) \/ CreateInvited(r)
          \/ FollowLink(r) \/ FindByEmail(r) \/ Provision(r) \/ Link(r)
          \/ DropUser(r) \/ Abort(r)
    \/ \E u \in User, e \in Email : UpdateUser(u, e)
    \/ \E t \in Token : Expire(t) \/ RevokeInvite(t)
    \/ \E s \in sessions : EndSession(s)

Spec == Init /\ [][Next]_vars

-----------------------------------------------------------------------------
(* Properties.                                                             *)

\* Once a change or a reset of a password has run to its end, no session lives
\* on for another password (password-change.ts:30-35, password-reset.ts:79-82):
\* the exceptions are a sign-in that compared the old one before it was
\* replaced, and a change that kept the sessions or died before revoking them.
OldPasswordOnlyByRace ==
    \A s \in sessions :
        \/ s.password \in {Nil, users[s.user].password}
        \/ s.user \in lapsed
        \/ \E r \in Request : requests[r].pc = "revoke" /\ requests[r].user = s.user

\* Where tokens are consumed by one statement no token is accepted twice
\* (pg/index.ts:354-364), whichever flows race for it.
TokensSpentOnce == atomicConsume => respent = {}

\* An invitation opens one account (invite.ts:155-156).  On MySQL two flows may
\* both be let through, and then the address index still stops the second one,
\* unless the first account was deleted or given another address meanwhile.
InvitationOpensOneAccount ==
    \A t \in Token : \A u, v \in opened[t] :
        u # v => ~atomicConsume /\ \E w \in {u, v} : ~Exists(w) \/ w \in moved

\* A reset token sets the password of the user it was drawn for, unless that
\* user has given the address up: the row names the address and the user is
\* looked up again (password-reset.ts:72-76).
ResetStaysWithUser ==
    \A x \in resets :
        LET u == issued[x[1]] IN x[2] = u \/ u \in moved \/ ~Exists(u)

\* A session opened for a provider's account belongs to a user created for that
\* account; with allowDangerousEmailAccountLinking, also to one linked by an
\* address the provider called verified (callback.ts:131-161).
ProviderSignInsVouched ==
    \A s \in sessions : s.account # Nil =>
        origin[s.user] = s.account \/ (autoLink /\ s.account \in vouched)

\* Every user has a way in, a password or a linked account, unless a callback
\* ended between creating the user and linking it (callback.ts:165-172).
EveryUserHasAWayIn ==
    \A u \in User : Exists(u) =>
        \/ users[u].password # Nil
        \/ \E a \in Account : accounts[a] = u
        \/ u \in stranded
        \/ \E r \in Request : requests[r].pc = "link" /\ requests[r].user = u

=============================================================================
