# Verification of holeauth

TLA+ modules that model the stateful core of holeauth, TLC configurations that
check them on small instances, and proofs, checked by TLAPS, that hold for every
instance. Paths below are relative to `packages/` unless they start with `apps/`.

1. [The system](#1-the-system)
2. [Modules](#2-modules)
3. [Runs, bounds and what they show](#3-runs-bounds-and-what-they-show)
4. [Proofs](#4-proofs)
5. [Where the documentation and the code differ](#5-where-the-documentation-and-the-code-differ)
6. [What is not modelled, and the plan](#6-what-is-not-modelled-and-the-plan)

To repeat a run: `tlc -config X.cfg M.tla` with the module and the configuration of
the table in section 3. To repeat the proofs: `tlapm M.tla` for each module of section 4,
which names eight.

## 1. The system

holeauth is an authentication library for TypeScript servers. A core package keeps
users, accounts, sessions and verification tokens through *adapters* (Drizzle over
Postgres, MySQL or SQLite); *plugins* add tables, routes and hooks; *bindings* for
Next.js, Express and Hono turn HTTP requests into calls.

Nothing in the library holds a lock. Every operation is an async function that
awaits one adapter statement after the other. Another request, in this process or
in another one, may run at each await, and a process may stop at any of them.
`runInTransaction` (`core/src/flows/tx.ts`) opens a transaction around a callback,
but the adapters' statements go through their own connection
(`core/src/adapters/index.ts:118-129`), so it groups nothing. The unit of atomicity
is therefore the adapter call: one SQL statement, which the database serialises.

### Components

| Component | State | Operations | Hard behaviour | Correct when |
|---|---|---|---|---|
| **Sessions** `core/src/session`, `flows/refresh.ts`, `signout.ts`, `user-mutation.ts` | session rows (user, family, digest of the current refresh token, revoked, expiry) | issue, rotate, sign out, revoke, revoke all for a user, delete user | lookup and update of a rotation are two statements; reuse detection races with rotations; a flow dies half-way | a digest belongs to a token of that very row; a family in which reuse was found is dead; no alarm without a replay |
| **Password flows** `core/src/flows/{register,signin,password-change,password-reset}.ts` | user rows, verification tokens | register, sign in, change, request and consume a reset | a password checked before a change opens a session after it; consume-then-update burns the token | no session opened with an old password outlives the change; a reset token works once |
| **Invitations** `core/src/flows/invite.ts` | invitation rows | create, consume, revoke | the row is spent before the user exists | one user per invitation |
| **Social sign-on** `core/src/sso` | accounts, state cookies | authorize, callback, link | two callbacks both find no account | one user per provider account |
| **Plugin registry** `core/src/plugins`, `define.ts` | plugin order, hook tables | build, run hooks, challenge chain | a hook that throws is logged and skipped | order respects dependencies; hooks run once each |
| **Events** `core/src/events` | subscribers | emit | the audit write is awaited and may throw after a state change | a failed write leaves a state the next request can handle |
| **Primitives** `core/src/{jwt,password,otp,cookies}` | none | sign, verify, hash, serialise | — | library functions, taken as given |
| **Bindings** `nextjs-app-router`, `nextjs-pages-router`, `express`, `hono` | the browser's cookies | dispatch, middleware refresh | parallel requests rotate one cookie | the jar ends with a pair that works |
| **OAuth/OIDC provider** `plugin-idp`, `idp-drizzle` | apps, codes, refresh tokens, consents, keys, teams | authorize, consent, token (code, refresh), revoke, app and team administration | rotation is three statements; a code is spent before it is checked | a token never exceeds its code; public clients prove possession; a replay ends the family |
| **Two-factor** `plugin-2fa`, `2fa-drizzle` | one record per user (secret, enabled, recovery codes) | setup, activate, verify, regenerate, disable | read–modify–write over awaits | codes of one batch only; a spent code is gone; the secret in force was confirmed |
| **Magic links** `plugin-magic-link` | token records | request, consume, verify OTP, challenge | check-then-create; mail fails after the record was stored; users change and go while links travel | a link works once, for its user; a good link is not withdrawn |
| **Rate limiters** of the plugins | time stamps per key | check, reset | the edge of the window | a window admits no more than the limit |
| **Passkeys** `plugin-passkey` | credentials with counters | register, log in, delete | counter compared and then written blindly | an answer of an authenticator signs in once; a credential goes by its user only |
| **RBAC** `plugin-rbac`, `rbac-yaml` | assignments, grants, cached permission sets | assign, grant, revoke, check | a set computed before a revocation is cached after it | a check follows the last revocation |
| **Client side** `react`, `trpc` | the session the provider shows | wrappers over the routes | answers arrive in any order | a browser that signed out stays so |

### How they interact

* Every sign-in (password, magic link, passkey, social, a verified second factor)
  ends in `completeSignIn`, which reads the user and calls `issueSession`
  (`core/src/plugins/registry.ts:313`). It is `BeginSignIn` and `IssueSession` here.
* A password sign-in asks the plugins' `challenge` hooks first; the two-factor
  plugin answers with a pending token, and the session waits for `verify`.
* Password change and reset, and the deletion of a user, call `revokeAllForUser`.
* Deleting a user runs the plugins' `userDelete` hooks, then revokes the sessions,
  then deletes the row; foreign keys cascade to every plugin's table.
* The provider plugin reads the core's session to know who consents; from then on
  its codes and tokens live apart from the sessions.
* Access tokens are JWTs and validated without the database
  (`core/src/session/validate.ts`): revocation reaches them when they expire. That is
  the documented design. Only `Browser` gives an access token a state, as a cookie.
* Magic links with the role `secondFactor` hang on the `challenge` hook too; the
  rbac plugin gives a group to every new user in the `register` hook.
* A React provider, the guarded routes and the tabs of a browser share one cookie
  jar, which each answer overwrites when it arrives.

## 2. Modules

Five specifications stand alone (`Sessions`, `Grants`, `TwoFactor`, `Accounts`,
`MagicLinks`). Seven smaller ones, over constants they share in `Slots`, are checked
together as `Parts`. All share four conventions.

* **One action per adapter call.** A flow in progress is a record in the variable
  `requests`; its `pc` names the await it is about to make and its other fields
  are what the code keeps in local variables. Reads that no other step can tell from
  the read before them are joined to it; comments say where.
* **Abort.** A flow may end at any await: the adapter or the audit log throws, the
  process stops, the answer is lost. What it has written stays written.
* **Secrets are values.** Tokens, codes and TOTP secrets are opaque. A digest is
  modelled by the value it is the digest of, as digests are only compared.
* **History variables** (after the comment `History` in each `VARIABLES`) record
  what happened for the properties to speak of; no guard reads them except to draw
  an id that is still fresh.

Operators marked `Mutant` state a plausible mistake in the code. No specification
uses them; each property is known to fail when the definition that follows is
replaced by its mutant.

### `Sessions`, over `SessionLifecycle`

| State | Code |
|---|---|
| `users`, `sessions` | tables of `adapter-drizzle/src/pg/index.ts:49-69`; `lapsed` is `expiresAt` in the past |
| `claims` | what a signed pair says: `sid`, `sub`, `fam` (`rotate.ts:64-75`) |
| `delivered` | pairs a client has received |

| Actions | Code |
|---|---|
| `BeginSignIn`, `IssueSession`, `Respond` | `completeSignIn`, `issueSession` |
| `Lookup`, `RevokeFamily`, `Rotate`, `Respond` | `rotateRefresh`: find by digest; on reuse or expiry revoke the family; else sign and update by session id |
| `SignOut` | `signOut`, which trusts the JWT alone and deletes the row |
| `RevokeAllForUser`; `BeginDeleteUser`, `DropUser` | `revokeAllForUser`; `deleteUser` |
| `Lapse`, `Abort` | time; failure |

`Rotate` writes the digest and expiry of the row by id, whatever happened to the row
since `Lookup`. That is the heart of the module: two rotations can both succeed, and a
rotation can write to a session that has been condemned. The properties say what
is still true.

`SessionLifecycle` is the abstract specification: a session opens once, in a family
of its own, and from then on only loses standing (live, revoked, gone); a condemned
family has no live session and gets none. `Sessions` implements it under the
mapping `status`, `family`, `dead` at the end of the module.

### `Grants`

| State | Code |
|---|---|
| `apps`, `codes`, `tokens` | tables of `idp-drizzle/src/pg/index.ts:79-155`; `Gone` marks a deleted row, so that an id is not drawn twice |
| `users` | the core's table, as far as foreign keys see it |

| Actions | Code (`plugin-idp/src/index.ts`) |
|---|---|
| `IssueCode` | both ways to a code: the consent form, and the redirect for a consent remembered. The form takes scope and challenge as posted, so a code may carry any |
| `Exchange`, `Mint` | `grant_type=authorization_code`: claim the code in one statement, then check client, redirect URI and PKCE; then store a refresh token in a new family |
| `Refresh`, `CondemnFamily` / `MarkRevoked`, `CreateNext` | `grant_type=refresh_token`: read; reuse or a foreign client revokes the family; else mark the old row and insert the successor, two statements |
| `Revoke`, `RevokeAllForApp`, `RevokeAllForUser` | the revocation endpoint, the administration API, the user-deletion hook |
| `DropUser`, `DeleteApp`, `UpdateApp` | cascades; the `requirePkce` flag |

Merged or left out: client authentication is one step with the read after it; the
insert of a code is one step with the reads before it (nobody knows the code yet,
and the foreign keys guard it); expired codes and tokens are refused before anything
is written; an app that is disabled is one that makes no request for a while;
the rate limiter only refuses.

### `TwoFactor`

| State | Code |
|---|---|
| `record` | the row of `2fa-drizzle/src/pg/index.ts:17-26` |
| `pending` | users holding a pending token (`core/src/flows/signin.ts:79-113`) |
| `requests[r].seen` | the copy of the record the flow read |

| Actions | Code (`plugin-2fa/src/index.ts`) |
|---|---|
| `Setup`, `Enroll` | `setup`: refuse if enabled; upsert a new secret |
| `Activate`, `Enable` | `activate`: TOTP against the secret read; patch `enabled` and the codes, not the secret |
| `Challenge`, `PendingExpires` | the sign-in hook and the pending JWT |
| `Verify`, `Redeem` | `verify` with a recovery code: found in the copy, and the rest of the copy written back |
| `Regenerate`, `Renew`; `Disable`, `Remove` | the same shape; deletion |
| `DeleteUser`, `Abort` | hook and cascade; failure |

A user can produce a TOTP code for each secret the server drew, so TOTP checks
exclude nothing and only feed the history variable `proven`. A verification by TOTP
writes nothing and is left out, as is the rate limiter.

### `Accounts`

The flows of the core over the users table. A session is reduced to its user and to
what opened it (a password, a provider account or a token); `Sessions` has the rest.

| State | Code |
|---|---|
| `users`, `tokens`, `accounts` | tables of `adapter-drizzle`; a token names an address, not a user, as `identifier` does |
| `sessions` | what each open session was opened with |
| `offers`, `atomicConsume`, `autoLink` | the installation: which flows it offers, whether its database has `DELETE ... RETURNING`, `allowDangerousEmailAccountLinking` |

| Actions | Code |
|---|---|
| `Register`, `CreateRegistered`; `SignIn`, `Issue` | `flows/register.ts`, `flows/signin.ts`: check, then insert; compare the password, then open the session |
| `ChangePassword`, `StorePassword`, `RevokeAll` | `flows/password-change.ts`, with and without `revokeOtherSessions` |
| `RequestReset`, `MailReset`; `ConsumeReset`, `ResolveReset`, `StorePassword`, `RevokeAll` | `flows/password-reset.ts`: the token is spent first, the user looked up by address second |
| `CreateInvite`, `MailInvite`, `RevokeInvite`; `ConsumeInvite`, `CheckInvited`, `CreateInvited` | `flows/invite.ts` |
| `Claim` | the second statement of the MySQL `consume`, which deletes what another flow may have found too |
| `Callback`, `FollowLink`, `FindByEmail`, `Provision`, `Link` | `sso/callback.ts`: linked account, else user by address, else a new user |
| `UpdateUser`, `DeleteUser`, `DropUser`, `EndSession`, `Expire`, `Abort` | `user-mutation.ts`; time; failure |

The unique index on the address is taken from the documented schemas: it is the only
thing that decides between two registrations.

### `MagicLinks`, over `Tickets`

| State | Code |
|---|---|
| `tokens`, `drawn` | rows of `magic-link-drizzle`, and their order by `createdAt` |
| `mailed` | tokens the mail server has taken: what the user can present |
| `config` | mode, role, `useFor`, and whether profiles may change |

| Actions | Code (`plugin-magic-link/src/plugin.ts`) |
|---|---|
| `RequestLink`, `Provision`, `CheckActive`, `CheckCooldown`, `Withdraw`, `Store`, `Send` | `request`, one step per await: user by address, idempotency, cool-down, `deleteByIdentifier`, insert, mail |
| `SignIn` | the challenge hook, which runs the same request; `Fail` and `Thrown` are what throws in it, which `runSignInChallenge` swallows |
| `Consume`; `VerifyOtp`, `ClaimOtp` | `consume`, one statement; `verifyOtp`, look-up and claim |
| `Resolve`, `ResolveByEmail`, `Recreate`, `MarkVerified`, `Complete` | the user by id, by address, or new; the verified mark; `completeSignIn` |
| `Age`, `DeleteExpired`, `DeleteUser`, `UpdateUser`, `Abort` | time (cool-down, then TTL); housekeeping; the core's flows |

`Tickets` is the abstract specification of a single-use credential: drawn once, taken
by one holder while it is open, and then used, or void; withdrawn, it comes to
nothing. `MagicLinks` implements it under the mapping `State`, `HoldersOf` at the end of
the module, in both modes: the link, claimed by one statement, and the code, compared
first and claimed by row later. `/magic-link/consume` is served in either mode and its
statement does not look at the type; so a code may be presented there too, without
e-mail and verify limiter, and race `verifyOtp`. Secrets are distinct, as the unique index
on the hash sees to it.

### The seven parts of `Parts`

Each module has variables of its own and reads no other's. In a product of
components that share nothing, an interleaving adds no behaviour to any of them; so
`Parts` has a variable `focus` that says which one moves, and the others rest in one
initial state. What is checked is every behaviour of every part.

* **`Passkeys`**: the tabs of a browser, the one challenge cookie they share, the
  credentials and the flows that verify. `Options`, `Sign` (the authenticator) and
  `Post` are a ceremony; `CreatePasskey`, or `LoginVerify`, `UpdateCounter` and
  `CompleteLogin`, its end at the server. An answer may be posted again as long as
  the cookie is there. `Delete`, `DropPasskey`: owner check and deletion, by
  credential, are two statements.
* **`Permissions`**: the file, the loader's snapshot, the plugin's index, the two
  tables and the cache. `Ask`, `ListUserGroups`, `MergeGroups`, `ListUserPermissions`,
  `CacheSet` are `computeEffective`; `AssignGroup` ... `Write`, `DropEntry` the
  changes; `DeleteUser`, `PurgeStep` and `RegisterHook` the hooks; `Reload` and
  `Restart` the group definitions.
* **`Teams`**: `teams.create` as two inserts, `addMember`, `removeMember` with the count
  of owners before the deletion, `ensurePersonalTeam`, and the cascade of a user.
* **`SigningKeys`**: `ensureSigningKey` and `rotateSigningKey`, whose retiring and
  inserting are two statements; `SignToken` with the key found.
* **`RateLimiter`**: one bucket; the two ways the plugins treat a stamp exactly one
  window old.
* **`Browser`**: a jar of five cookies and the requests in flight. A request carries
  the cookies of when it was sent, and its answer sets those it names when it
  arrives, in any order, or is lost. The server's half is one step: its awaits are the
  subject of `Sessions`.
* **`Registry`**: `topoSort` step by step with its queue and counts, the wiring, the
  `onInit` calls in the background, and the chains of a sign-in, with plugins that
  throw or halt.

### MC modules

Each MC module extends a specification with its symmetry set, and with the
installations (`MCOffers`, `MCDeployments`, `MCFiles`) that the run starts from. Apps in
`MCGrants` are not symmetric, since they differ in type; nor are the plugins and keys
of `MCParts`, whose order matters.

## 3. Runs, bounds and what they show

| Configuration | Module | Result | Question |
|---|---|---|---|
| `Sessions` | `MCSessions` | holds | are rows bound to their tokens, what does reuse detection guarantee, and does the store implement the lifecycle, with users, sessions, rotations and deletions interleaved? |
| `SessionsFair` | `MCSessions` | holds | does detected reuse always end in a revoked family? |
| `SessionsSingleUse` | `MCSessions` | violated | is a refresh token single-use, as documented? |
| `Grants` | `MCGrants` | holds | what can rotations, revocations and deletions leave in the provider's tables? |
| `GrantsReuse` | `MCGrants` | violated | is the entire family revoked after reuse, as documented? |
| `TwoFactor` | `MCTwoFactor` | holds | what can lost updates do to a two-factor record, and what not? |
| `TwoFactorCodes` | `MCTwoFactor` | violated | is a recovery code accepted once only, as promised to the user? |
| `Accounts` | `MCAccounts` | holds | what do interleaved flows leave of passwords, tokens, invitations and provider accounts? |
| `MagicLinks` | `MCMagicLinks` | holds | whom do links and codes sign in, what do they prove, and are they single-use tickets? |
| `MagicLinksChallenge` | `MCMagicLinks` | violated | does the challenge hook halt the sign-in, as its comment says? |
| `Passkeys` | `MCPasskeys` | holds | what can make a stored signature counter go back? |
| `Parts` | `MCParts` | holds | the seven parts, each on its own instance |

### Properties

* `HashBinding`: the digest in a row belongs to a token whose claims name that row, its
  user and its family.
* `ImplementsLifecycle`: refinement of `SessionLifecycle`. A late rotation that wrote
  the whole row back would revive a revoked session; the `UPDATE` of digest and
  expiry does not.
* `DetectedFamilyDead`, `CondemnedFamilyAdmitsNobody`: after reuse was detected no session
  of the family is live, and no later lookup gets as far as rotating.
* `NoFalseAlarm`: reuse is reported for a live session only if one of its tokens was
  presented twice. Expired rows, lost answers followed by no retry, and other
  sessions never raise it.
* `DetectionCompletes`: a flow that saw reuse ends with the family revoked.
* `CodeOpensOneFamily`: an authorization code opens one family at most, though it is
  spent before it is checked and its exchange may fail or be retried.
* `GrantBounded`: each stored refresh token is for the user and the app of its code,
  with no scope the code did not carry, after any number of rotations.
* `PublicClientsProve`: a public client's families were opened with the PKCE verifier.
  The consent form does let codes without a challenge come into being.
* `ForksOnlyByRace`: two live tokens of a family come only of two refreshes of one
  token, one of which stored its successor while the other was past its checks. The
  history variable `raced` records that overlap: a token presented again when its
  refresh has ended forks nothing.
* `CondemnedTokensStayOut`: in a condemned family only a successor that a rotation
  stored afterwards can pass the checks.
* `SpentCodesGone`: spent and replaced codes come back only through a flow that acted on
  a copy that was out of date.
* `EnabledSecretProven`: with the same exception, two-factor is enabled only with a secret
  the user produced a code for.

* `OldPasswordOnlyByRace`: when a change or reset has ended, a session of another password
  is one whose sign-in had compared the password before it was replaced, or one
  the change kept.
* `TokensSpentOnce`, `InvitationOpensOneAccount`: no verification token is accepted twice
  where `consume` is one statement. Where it is two, as on MySQL, the address index
  still keeps an invitation to one account, unless the first account was deleted or
  moved to another address in between.
* `ResetStaysWithUser`: a reset reaches another user than it was drawn for only if that
  user gave up the address.
* `ProviderSignInsVouched`: sign-on with a provider reaches users created for that
  account, or, with the option whose name says so, linked by a verified address.
* `EveryUserHasAWayIn`: users without password and account are those a callback left
  when it ended between two of its statements.
* `ImplementsTickets`: refinement of `Tickets`. A link or code completes one sign-in,
  however many requests present it, at either address, and none once it was burned
  or withdrawn.
* `LinkSignsInItsUser`, `VerifiedWasProven`: a link signs in the user it was drawn for,
  while that user exists; an address is marked
  verified only if a link sent to it came back, or its user moved to it before using
  a link sent to the old one.
* `GoodLinksStay`: only a request that raced another past the idempotency check
  withdraws a link that is still good.
* `OneSignInPerAnswer`, `CounterBackByRace`: an answer with a counter signs in twice only
  by two logins that had read one row; a stored counter goes back only by these, or by
  one that had read the row before the credential was removed and registered again.
* `GoesByOwner`: a credential goes by its own user's request, whoever registered it again
  meanwhile.
* `AnswersCurrent`: a cached permission set is stale only if a look-up was under way
  when the entry was dropped; the plugin answers by the last file that had one
  default group.
* `TeamKeepsAnOwner`, `OneActiveKey`: a team loses its last owner only by the overlaps and
  the unchecked operations the definition names; two keys are active at once only if a
  call found that it had to make one while another was between its look and its insert.
* `AtMostLimitPerWindow`, `RetryAfterSuffices`: of any window, wherever it begins, and of
  what a refused client is told.
* `JarIsCurrent`, `OnlySignInsSignIn`: when no answers crossed or were lost the jar has the
  refresh token the server expects, and cookies of one pair; after a sign-out, and
  after a finished callback, loading pages signs nobody in.
* `DependenciesFirst`: the sort refuses exactly what the graph-theoretic definition
  refuses, and everything called for a plugin was called for its dependencies first.

Several of these have the form "only by race". The exception is what the code
permits; the property is that nothing else leads there. Each exception is a history
variable set where the overlap happens, so a mutant without an overlap is caught.

### Bounds

The unbounded sets (session ids, tokens, codes, secrets) are the constants of a
configuration. An id is drawn once; when none is left the drawing action is
disabled, which is the only bound on the length of a behaviour.

* `Sessions`: two users, sessions and families, three tokens, two flows: enough for a
  rotation of one session against the deletion or revocation of another; for two
  racing rotations of one token; and for the replay of a rotated token while a rotation
  waits past its lookup, which is detected before that rotation writes.
* `SessionsFair`, `SessionsSingleUse`: one session, three tokens, two flows: the first
  pair, and one for each racing rotation. No symmetry where liveness is checked.
* `Grants`: one user, a confidential and a public app, one code, four tokens, two families,
  two flows: a second family is there for a code to be able to open it, and four
  tokens make a chain of rotations with a fork in it. `GrantsReuse` needs three
  tokens and one family.
* `TwoFactor`: one user (records of two users share nothing), two secrets, so that one set-up
  can race another or an activation, four codes in batches of two, so that a batch
  replaces another and a code remains beside a spent one; two flows, each acting on a
  copy that the other made out of date.

* `Accounts`: two of users, addresses, passwords and flows, one token, one provider account,
  in three installations (registration, resets and profiles; invitations and
  profiles; registration and a provider): two flows meet on every row, and an
  address passes from one user to the other. With all flows in one installation the
  state space is beyond a few minutes; the flows of different installations meet on
  rows of `users` only, which registration, profiles and deletion already exercise.
* `MagicLinks`: two of everything: one link replaced by another, two requests past the
  idempotency check, two redeemers of a link, an address that changes hands.
  `MagicLinksChallenge`: one user with the second factor.
* `Parts`: two requests in every part. `Passkeys`: two users, one credential (rows share
  nothing but the cookie), two challenges in two tabs, counters to 2, two rows, so
  that it is registered a second time; counters that go back are the next run's.
  `Permissions`: a user, two groups, a node, four files, with one default, two, and none.
  `Teams`: two users, two teams, an app.
  `SigningKeys`: three keys and two callers. `RateLimiter`: limit 2, a window of 4 ticks
  at 2 ticks per second, to time 9: two windows and the edge between them.
  `Browser`: one visitor, two sessions, one round trip, a rotation for each
  session. `Registry`: lists of up to three of three plugins, any dependencies,
  duplicates included.

* `Passkeys`: the same with a third challenge and counters to 3: the credential is
  registered at 1, a login signed with 2 and one signed with 3 both read the row, and 2
  is written last. Both races of the property take counters to 3, and both happen here.

Symmetry is over sets whose members are told apart by equality only; a model value
of `Parts` that stands for members of several sets is permuted in all of them. Only
`Parts` and `Passkeys` turn deadlock checking off: ids and the clock run out, and a
registry that refused its plugins rightly stops. In every other instance some step (a sign-out, a
revocation, a token's end) is always possible.

### Fairness

Only `SessionsFair` assumes any: weak fairness of each started flow's next step. The
JavaScript event loop resumes every await whose promise has settled, and an adapter
call either settles or the process has stopped. `FairSpec` leaves out `Abort`,
as a flow that has died does not finish; `DetectionCompletes` is a statement about
flows that are carried on. Nothing obliges a client to start a flow. With `Abort` the
property is false, and the code has no retry: a process that stops between seeing
reuse and revoking the family leaves it live until the next presentation.

## 4. Proofs

Every safety property of the passing runs is proved for every value of the
constants, and both refinements are, step by step: `THEOREM SpecX == Spec => []X` where
the run checks `X`. For each specification the pattern is the same: an inductive
invariant, first checked by TLC on small instances; that the initial states have it;
one lemma per action (or per group of actions that disturb the same things) that it
is kept; and the property from it.

The proofs need only the assumptions named in the modules, which TLC evaluates in the
runs.

* *Sentinels* (`SentinelAssumption`, `TeamAssumption`, `NoRowAssumption`, `NilAssumption`,
  `GuestAssumption`): what stands for `null` is not a member of the set it extends. In
  the code `null` is no string or row.
* *Shape*: `Public` is a set of apps and `OfflineAccess` a scope; the installations are
  records of the given form; a limit, a window, a second and a batch are positive
  (`LimiterAssumption`, `BatchAssumption`); the bounds of `Parts` are numbers.
* *Finiteness*, where a number is counted: a file lists finitely many default groups
  (`FilesAssumption`), a configuration comes from finitely many plugins
  (`PluginAssumption`).

All other sets may be of any size, infinite ones included.

### `SessionsProofs`

`SpecTypeOK`, `SpecHashBinding`, `SpecDetectedFamilyDead`. None of the three is
inductive: a rotation writes what its lookup found some steps before. The invariant
`IInv` adds

* `FlowSound`: a flow about to rotate holds a token whose claims are exactly the row's
  id, user and family as it read them; they cannot change, since an id is drawn once;
* `OneOwner`: tokens of one session agree on user and family, and a family has one session;
* `DetectedInUse`: a condemned family is in use already, so no new session can be
  opened in it; `DeliveredSigned`: what clients present has been signed.

`DetectedFamilyDead` then survives a late `Rotate` because the row it writes to keeps
its `revoked` mark. There is one lemma per action, and `RowsOnlyLose` covers the
actions that only take standing away.

`SpecNoFalseAlarm` needs a second invariant, `AlarmInv`, over the first. A lookup raises
the alarm when the digest in the row is not the token's, and the converse has to be
excluded: that a client who never repeated itself holds anything else. `QuietInOrder`
says why. As long as no token of a live session was presented twice, each rotation
under way found the digest that is there now, and every other token of the
session was presented once already. `TwinsReplayed` turns two rotations of one token into
a replay.

`SpecCondemnedFamilyAdmitsNobody` is an action property and needs `IInv` only.
`SpecImplementsLifecycle` maps the steps: opening and renewing a session, the three ways
of losing standing (`Downgrade` of a set of sessions), and condemning a family, which may
come after all its sessions are gone. That a row's family never changes
(`FamiliesKept`), although it is read off whichever token is found first, follows from
`OneOwner`.

### `GrantsProofs`

`SpecTypeOK`, `SpecCodeOpensOneFamily`, `SpecGrantBounded`, `SpecPublicClientsProve`,
`SpecCondemnedTokensStayOut`, `SpecForksOnlyByRace`: every property of the `Grants` run.

*What is granted.* A flow stores what it read earlier, when code, user and app may be
gone. `Granted(u, a, S, c)` is a flow's right to act: either the row of code `c`
still says so, or it is gone and so is the user or the app, and the foreign keys
refuse whatever the flow would store. `GrantedKept` shows that no step can take
this away, from four facts about how tables evolve (`Evolves`). `FlowsSound` and
`TokensSound` state it of every flow and every token; `MintsFresh` and `OriginsSpent`
say that a code spent by a flow is that flow's alone, which gives
`CodeOpensOneFamily`; `CondemnedSound` says that what is live in a condemned family
came late.

*Chains.* `ForksOnlyByRace` speaks of trees of tokens of any depth, and would seem to
need induction over the tree. `OneLast` avoids it: in a family without siblings at
most one token has no successor. A rotation that makes no sibling takes that place
from its parent and gives it to the new token. A token with a successor is revoked
(`ParentsRevoked`), so at most one is live. Rows of one family share user and app,
so a cascade takes all of them or none (`ChainsKept`). That siblings come of an overlap is
`RaceSound`: a token with a successor is not live, so no refresh finds it good from
then on; whoever did so before and has yet to store overlapped the one that has stored.

### `TwoFactorProofs`

`SpecTypeOK`, `SpecSpentCodesGone`, `SpecEnabledSecretProven`. The properties speak of
records; a flow writes what it made of a copy. `FlowsSound` says what holds of a copy
forever: its secret was proven if it is to be enabled, its codes are a part of one batch
of that user. A record's codes are, too (`CodesOfOneBatch`), since the list is written
whole. Two invariants about codes are then needed: accepted codes were stored before
(`UsedStored`), so that a new batch contains none of them, and no code was given to two
users (`BatchesApart`), so that what one user spends says nothing about another.

### `AccountsProofs`

`SpecTypeOK`, `SpecOldPasswordOnlyByRace`, `SpecTokensSpentOnce`,
`SpecInvitationOpensOneAccount`, `SpecResetStaysWithUser`, `SpecProviderSignInsVouched`,
`SpecEveryUserHasAWayIn`.

A flow goes on with a user id, an address or a token that others may have changed.
Ids and tokens are not drawn again; so `FlowSound` can say of each copy what it still
means when its original is gone. The address a token was mailed to is in no
variable once its row is deleted. `TokensAddressed` asserts that there *is* an assignment
of addresses to tokens (`\E addr`) which rows and flows agree with, and each step picks
the old one and extends it. Together with `OneUser` (the unique index) it gives the two
properties that name an address: `InvitationOpensOneAccount` where `consume` is two
statements, and `ResetStaysWithUser`. `ConsumedOnce` is the same argument where it is
one: spent tokens have no row and one flow.

### `MagicLinksProofs`

`SpecTypeOK`, `SpecLinkSignsInItsUser`, `SpecVerifiedWasProven`, `SpecGoodLinksStay`,
`SpecImplementsTickets`.

`SoleHolder` (a claimed token has one flow), `HeldNotRedeemed` and `RedeemedSpent` are what
makes a ticket of a link: between claim and session the ticket is *taken* by that
flow. `PastAlone` and `PastNoneGood` say that a request past the idempotency check is
alone for its address and nothing good is stored, unless the overlap is on record; that
is `GoodLinksStay`, an action property.

The refinement goes by kind of step: a new link (`DrawTickets`), a claim (`TakeTickets`), the
session (`AdmitTickets`), a flow that moves on or gives up what it held (`FlowTickets`),
and all that leave the tickets alone or withdraw open ones (`WithdrawTickets`,
`QuietTickets`).

### `ProviderProofs`

*Teams.* `removeMember` counts owners, then deletes. The invariant `OwnersStay` counts only
owners whom no removal under way is about to delete (`Owners(t) \ Leaving(t)`); the
history variable `contested` is set when a removal counted on another. A team between
its two inserts has no owner yet; `NewTeamsUnknown` says that no other call has its id.

*Signing keys.* Unless two calls were past their look at once, those that make keys take
turns (`TakeTurns`): who retires knows the only active key, who creates knows that
there is none.

### `PluginProofs`

*Permissions.* `Current(u)`: the cached set of a user, and what every look-up under way has
gathered so far, are what the tables and groups say now. It holds unless the user is
excused: a change is between its write and the dropping of the entry, or dropped it
while a look-up was under way.

*Passkeys.* Until two logins have read one row, at most one login of a credential is between
its check and its update (`OneUpdate`), and its count is above every one accepted
(`UpdatesAdvance`, `CounterKeepsUp`); so an answer that was accepted fails the next check.
Rows are told apart by id, for a credential may be registered again while a login holds
the old row (`StaleUpdatesFirst`). `PasskeySpecCounterBackByRace` and `SpecGoesByOwner` are
action properties. The former has two exceptions: besides two logins that had read one
row, a login that had read a row before the credential was deleted and registered
again writes its count into the new row, because the update is by credential.

*Rate limiters.* The bucket is the end of the list of all stamps accepted
(`LimiterTypeOK`), and what was cut off it lies outside every window that is still open
(`CutOffOutdated`). So a window in the past, which the property quantifies over, has
no more stamps than one bucket had.

*Registry.* `SortSound`: `inDeg` is the number of dependencies not sorted yet, and the
queue and the sorted list are together those with none. A plugin is then sorted after
its dependencies; and when the queue is empty, each plugin that is left depends on
one that is left, a cycle. Conversely, if all are sorted, a cycle would have a member
sorted first. The lists of calls are beginnings of the sorted one (`Follows`).

### `PartsProofs`

*Browser.* A pair of tokens is in the jar, in the cookies of a request or on the way in an
answer, and an answer may come late. `FreshSignIns`: the pair of a sign-in is nowhere
but in its answer, so no rotation can have outdated it and it is current when it
arrives. `OneWriter`: unless answers crossed, one request at a time may write; so
the pair a rotation answers with is current too (`TokensCurrent`), and between writers
the jar is (`PairsCurrent`). `SignedOutAll`: after a sign-out with nothing else in flight,
whatever is sent is `Powerless`, without cookies and without a pair to bring. A
callback's address signs in once because the cookie of its round trip is gone by the time
it could be loaded again (`TripsApart`).

*The whole.* A step of `Parts` is a step of each part or leaves it alone (`PartsMove`), so each
part's specification follows from `PartsSpec`, and with it what was proved of the part.

### Checked by TLC only

`DetectionCompletes` is a liveness property, which TLAPS does not reach here. The four
properties of section 5 are false. That `Cyclic` and the other definitions say what they
are meant to, and that the exceptions of the properties are no wider than they need be,
is what the runs and the mutants show.

## 5. Where the documentation and the code differ

Four runs end in a counterexample, each to a sentence of the documentation or a
comment.

* `SessionsSingleUse`. `apps/docs/content/docs/concepts/sessions.mdx:82`: refresh tokens are
  single-use. `rotateRefresh` updates the row by id without comparing the digest
  it found, so two overlapping refreshes of one token are both answered with a pair.
* `GrantsReuse`. `apps/docs/content/docs/sso/provider/authorization-code.mdx:189`: the entire
  family is revoked after reuse. A rotation between its two writes stores a live
  successor in the revoked family.
* `TwoFactorCodes`. `plugin-2fa/src/recovery.ts:87`: each code can be used exactly once.
  Two verifications that read the record before either writes both accept the code.

* `MagicLinksChallenge`. `plugin-magic-link/src/plugin.ts:398`: the challenge hook halts the
  sign-in with a pending token. A request it makes that is refused (limiter, cool-down)
  or fails (mail) throws, `runSignInChallenge` logs it, and the session is issued.

In each case the passing runs and the proofs say how far the damage goes:
`DetectedFamilyDead`; `CondemnedTokensStayOut` and `ForksOnlyByRace`; `SpentCodesGone`.

Differences met while reading, without a run, because the model shows what the code
does or the matter is outside the models:

* `core/src/flows/user-mutation.ts:30`: a failing cleanup hook leaves the user row intact.
  `runUserDeleteAfter` swallows the failure and the row goes. The event emitted after
  that names a user whose row is gone, which a foreign key in the audit table refuses.
* `apps/docs/content/docs/packages/plugin-rbac/index.mdx:354`: "the last matching pattern
  determines the result". `can()` lets a negation anywhere win. The client's matcher
  in `react` is another function again.
* `rbac-yaml` warns of several default groups and goes on; `plugin-rbac`, reloading the
  same file, throws, so that the two show different groups (`IndexFollowsSnapshot`).
* `apps/docs/content/docs/packages/plugin-idp/index.mdx:484` and
  `sso/provider/jwks-rotation.mdx:28`: a retired key remains in the key set.
  `buildJwks` lists active keys only.
* `react`: `usePasswordReset` and `useAuditLog` call routes that no binding serves; a
  refresh without session stores `{ session: null }`, which is truthy, so the provider
  shows a guest where it showed nothing (`view` of `Browser`).
* `ensurePersonalTeam` reads and then creates: two first apps make two personal teams.
* `registerVerify` binds a credential to whoever is signed in when the answer arrives,
  and one cookie holds the challenge of all tabs (`Passkeys`).
* Two single sign-on round trips in two tabs overwrite each other's state cookie; the
  first to come back is refused.
* Caches and limiters are per process: with several processes an invalidation or a
  count reaches one of them.
* One `onInit` that throws keeps those after it from running, while the instance serves
  requests (`Registry`).

## 6. What is not modelled, and the plan

* **Cryptography and formats**: JWT, TOTP arithmetic, WebAuthn, password hashing, CSRF
  digests, cookies as strings, routing, HTML, validation of input. They keep no
  state, or are taken as given.
* **The applications** (`apps/`), documentation and set-up scripts, which hold over a
  third of the repository's lines and none of the library's logic.
* **Events**: observers change no state; an audit write that fails is `Abort`.
* **Dialects and bindings**: the adapters exist for Postgres, MySQL and SQLite, the
  dispatcher for four frameworks, line by line the same but for `RETURNING`
  (`atomicConsume` of `Accounts`). One of each is modelled.
* **OAuth provider**: consent memory, ID tokens, userinfo, discovery.
* **Metadata and groups of invitations**, profile fields other than the address.
* **The pattern matcher** of the rbac plugin: nodes are opaque in `Permissions`.
* **Crashes of the database**: a statement happens or does not.

These are why the models stand for a tenth of the repository's lines: most of
the others are copies, presentation, or functions of strings.

Next, in this order:

1. The matcher of permission patterns as a function against a reference definition: that
   of `can`, that of the client and that of the documentation differ.
2. Consent memory in `Grants`: which scopes a remembered consent answers for, and what a
   revocation of tokens leaves of it.
3. Proofs for these; and, for the properties that admit a race, that each race named can
   happen (a run that reaches it).
