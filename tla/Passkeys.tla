------------------------------ MODULE Passkeys ------------------------------
(***************************************************************************)
(* @holeauth/plugin-passkey: registering credentials and signing in with   *)
(* them (packages/plugin-passkey/src/index.ts), over passkey-drizzle.      *)
(*                                                                         *)
(* One browser with tabs.  The challenge of every ceremony travels in one  *)
(* cookie, and the server keeps nothing of it.  An authenticator signs a   *)
(* challenge with its signature counter; one that does not count always    *)
(* sends 0.  Answers may be posted late, again, or after their browser has *)
(* signed in as someone else.                                              *)
(***************************************************************************)
EXTENDS FiniteSets, Naturals, Slots

CONSTANTS
    User,           \* who registers and signs in with passkeys
    Credential,     \* authenticators
    Challenge,
    Tab,
    MaxCount,       \* bound: signatures of an authenticator
    MaxRows,        \* bound: rows created
    NoRow

ASSUME BoundAssumption == MaxCount \in Nat /\ MaxRows \in Nat

Count == 0..MaxCount
PasskeyRow == [id : 1..MaxRows, user : User, counter : Count]

ASSUME NoRowAssumption == NoRow \notin PasskeyRow

\* What an authenticator makes of a challenge, when a credential is created or used.
Response ==
    [kind : {"register", "login"}, credential : Credential, challenge : Challenge, count : Count]

VARIABLES
    counting,       \* authenticators that count, chosen at the start
    accounts,       \* users that exist
    passkeys,       \* the table, by its unique credential_id
    rowSerial,         \* rows created
    signatures,     \* the counters in the authenticators
    session,        \* who the browser is signed in as
    cookie,         \* <prefix>.passkey.challenge
    issued,         \* challenges drawn
    tabs,           \* the options a tab was shown, or the answer to them
    verifying,      \* flows in progress
    \* History.
    overlapped,     \* credentials two logins of which had read the same row
    used,           \* answers a sign-in was completed with, and the row read
    usedTwice

passkeyVars ==
    <<counting, accounts, passkeys, rowSerial, signatures, session, cookie, issued, tabs, verifying,
      overlapped, used, usedTwice>>

Ceremony == [kind : {"register", "login"}, challenge : Challenge]

Flow ==
    [pc : {"idle", "register", "login", "update", "complete", "remove", "cleanup", "dropUser"},
     user : User \cup {Nil}, answer : Response \cup {Nil}, row : 0..MaxRows]

Rest == [pc |-> "idle", user |-> Nil, answer |-> Nil, row |-> 0]

Registered(c) == passkeys[c] # NoRow

PasskeyTypeOK ==
    /\ counting \subseteq Credential /\ accounts \subseteq User
    /\ passkeys \in [Credential -> PasskeyRow \cup {NoRow}]
    /\ \A c \in Credential : Registered(c) => passkeys[c].user \in accounts
    /\ rowSerial \in 0..MaxRows
    /\ signatures \in [Credential -> Count]
    /\ session \in accounts \cup {Nil}
    /\ cookie \in issued \cup {Nil} /\ issued \subseteq Challenge
    /\ tabs \in [Tab -> Ceremony \cup Response \cup {Nil}]
    /\ verifying \in [Request -> Flow]
    /\ overlapped \subseteq Credential
    /\ usedTwice \subseteq used /\ used \subseteq Response \X (1..MaxRows)

PasskeyInit ==
    /\ counting \in SUBSET Credential
    /\ accounts = User
    /\ passkeys = [c \in Credential |-> NoRow]
    /\ rowSerial = 0
    /\ signatures = [c \in Credential |-> 0]
    /\ session = Nil /\ cookie = Nil /\ issued = {}
    /\ tabs = [t \in Tab |-> Nil]
    /\ verifying = [r \in Request |-> Rest]
    /\ overlapped = {} /\ used = {} /\ usedTwice = {}

-----------------------------------------------------------------------------

Step(r, f) == verifying' = [verifying EXCEPT ![r] = f]

KeepHistory == UNCHANGED <<overlapped, used, usedTwice>>

\* The browser signs in with a password, or out.
SwitchSession ==
    /\ session' \in (accounts \cup {Nil}) \ {session}
    /\ UNCHANGED <<counting, accounts, passkeys, rowSerial, signatures, cookie, issued, tabs, verifying>>
    /\ KeepHistory

\* /passkey/register/options and /passkey/login/options: the cookie of an older
\* ceremony is overwritten.
Options(t, kind) ==
    /\ kind = "register" => session # Nil
    /\ \E ch \in Challenge \ issued :
          /\ cookie' = ch
          /\ issued' = issued \cup {ch}
          /\ tabs' = [tabs EXCEPT ![t] = [kind |-> kind, challenge |-> ch]]
    /\ UNCHANGED <<counting, accounts, passkeys, rowSerial, signatures, session, verifying>>
    /\ KeepHistory

\* The user touches the authenticator.
Sign(t, c) ==
    /\ tabs[t] \in Ceremony
    /\ c \in counting => signatures[c] < MaxCount
    /\ LET n == IF c \in counting THEN signatures[c] + 1 ELSE 0 IN
       /\ signatures' = [signatures EXCEPT ![c] = n]
       /\ tabs' = [tabs EXCEPT ![t] = [kind |-> tabs[t].kind, credential |-> c,
                                       challenge |-> tabs[t].challenge, count |-> n]]
    /\ UNCHANGED <<counting, accounts, passkeys, rowSerial, session, cookie, issued, verifying>>
    /\ KeepHistory

\* The cookie is the expected challenge; it is not looked up anywhere.
Matches(challenge) == challenge = cookie

\* A verification is sent with the cookies of that moment, and may be handled
\* much later.
Post(r, t) ==
    /\ verifying[r] = Rest
    /\ tabs[t] \in Response /\ Matches(tabs[t].challenge)
    /\ tabs[t].kind = "register" => session # Nil
    /\ Step(r, [Rest EXCEPT !.pc = tabs[t].kind, !.answer = tabs[t],
                            !.user = IF tabs[t].kind = "register" THEN session ELSE Nil])
    /\ UNCHANGED <<counting, accounts, passkeys, rowSerial, signatures, session, cookie, issued, tabs>>
    /\ KeepHistory

-----------------------------------------------------------------------------
(* Registration.                                                           *)

\* registerVerify, for the user who was signed in when it was sent, whoever asked
\* for the options.  adapter.create throws for the
\* unique index, the foreign key or any other reason.  The answer clears the
\* cookie, unless it is lost.
CreatePasskey(r) ==
    LET f == verifying[r]
        c == f.answer.credential
    IN
    /\ f.pc = "register"
    /\ \/ /\ ~Registered(c) /\ f.user \in accounts /\ rowSerial < MaxRows
          /\ rowSerial' = rowSerial + 1
          /\ passkeys' = [passkeys EXCEPT ![c] = [id |-> rowSerial + 1, user |-> f.user,
                                                  counter |-> f.answer.count]]
          /\ cookie' \in {Nil, cookie}
       \/ UNCHANGED <<rowSerial, passkeys, cookie>>
    /\ Step(r, Rest)
    /\ UNCHANGED <<counting, accounts, signatures, session, issued, tabs>>
    /\ KeepHistory

-----------------------------------------------------------------------------
(* Signing in.                                                             *)

\* Mutant: the counter is not compared.
AdvancesAlways(count, stored) == TRUE

\* Mutant: a counter that did not move is let through.
AdvancesLoosely(count, stored) == stored > 0 => count >= stored

\* verifyAuthenticationResponse, and the check after it.
Advances(count, stored) == count > 0 \/ stored > 0 => count > stored

\* getByCredentialId and the verification, which reads nothing else.
LoginVerify(r) ==
    /\ verifying[r].pc = "login"
    /\ LET a == verifying[r].answer
           c == a.credential
       IN
       \/ /\ IF Registered(c) THEN ~Advances(a.count, passkeys[c].counter) ELSE TRUE
          /\ Step(r, Rest)
          /\ UNCHANGED overlapped
       \/ /\ Registered(c) /\ Advances(a.count, passkeys[c].counter)
          /\ Step(r, [pc |-> "update", user |-> passkeys[c].user, answer |-> a, row |-> passkeys[c].id])
          /\ overlapped' =
                IF \E s \in Request : verifying[s].pc = "update" /\ verifying[s].answer.credential = c
                THEN overlapped \cup {c} ELSE overlapped
    /\ UNCHANGED <<counting, accounts, passkeys, rowSerial, signatures, session, cookie, issued, tabs,
                   used, usedTwice>>

\* updateCounter sets what was sent, whatever is there by now.
CounterStored(c, n) ==
    IF Registered(c) THEN [passkeys EXCEPT ![c].counter = n] ELSE passkeys

UpdateCounter(r) ==
    LET f == verifying[r] IN
    /\ f.pc = "update"
    /\ passkeys' = CounterStored(f.answer.credential, f.answer.count)
    /\ Step(r, [f EXCEPT !.pc = "complete"])
    /\ UNCHANGED <<counting, accounts, rowSerial, signatures, session, cookie, issued, tabs>>
    /\ KeepHistory

\* completeSignIn; the answer clears the challenge, unless it is lost.
CompleteLogin(r) ==
    LET f == verifying[r] IN
    /\ f.pc = "complete"
    /\ IF f.user \in accounts
       THEN /\ used' = used \cup {<<f.answer, f.row>>}
            /\ usedTwice' = IF <<f.answer, f.row>> \in used
                            THEN usedTwice \cup {<<f.answer, f.row>>} ELSE usedTwice
            /\ \/ session' = f.user /\ cookie' = Nil
               \/ UNCHANGED <<session, cookie>>
       ELSE UNCHANGED <<used, usedTwice, session, cookie>>
    /\ Step(r, Rest)
    /\ UNCHANGED <<counting, accounts, passkeys, rowSerial, signatures, issued, tabs, overlapped>>

-----------------------------------------------------------------------------
(* Removal.                                                                *)

\* /passkey/delete: the row is read, and its owner compared ...
Delete(r, c) ==
    /\ verifying[r] = Rest
    /\ Registered(c) /\ passkeys[c].user = session
    /\ Step(r, [Rest EXCEPT !.pc = "remove", !.user = session, !.row = passkeys[c].id,
                            !.answer = Nil])
    /\ UNCHANGED <<counting, accounts, passkeys, rowSerial, signatures, session, cookie, issued, tabs>>
    /\ KeepHistory

\* Mutant: any row of the credential goes.
WithoutRowAny(n) == [c \in Credential |-> NoRow]

\* ... and deleted by its id.
WithoutRow(n) ==
    [c \in Credential |-> IF Registered(c) /\ passkeys[c].id = n THEN NoRow ELSE passkeys[c]]

DropPasskey(r) ==
    /\ verifying[r].pc = "remove"
    /\ passkeys' = WithoutRow(verifying[r].row)
    /\ Step(r, Rest)
    /\ UNCHANGED <<counting, accounts, rowSerial, signatures, session, cookie, issued, tabs>>
    /\ KeepHistory

\* deleteUser of the core: the userDelete hook deletes the rows it listed, one
\* by one, then the row of the user goes and the foreign key takes the rest.
\* What is left of the user's access token finds no row to act on.
BeginDeleteUser(r, u) ==
    /\ verifying[r] = Rest /\ u \in accounts
    /\ Step(r, [Rest EXCEPT !.pc = "cleanup", !.user = u])
    /\ UNCHANGED <<counting, accounts, passkeys, rowSerial, signatures, session, cookie, issued, tabs>>
    /\ KeepHistory

Cleanup(r) ==
    LET f == verifying[r] IN
    /\ f.pc = "cleanup"
    /\ \E gone \in SUBSET {c \in Credential : Registered(c) /\ passkeys[c].user = f.user} :
          passkeys' = [c \in Credential |-> IF c \in gone THEN NoRow ELSE passkeys[c]]
    /\ Step(r, [f EXCEPT !.pc = "dropUser"])
    /\ UNCHANGED <<counting, accounts, rowSerial, signatures, session, cookie, issued, tabs>>
    /\ KeepHistory

WithoutUser(u) ==
    [c \in Credential |-> IF Registered(c) /\ passkeys[c].user = u THEN NoRow ELSE passkeys[c]]

DropUser(r) ==
    LET f == verifying[r] IN
    /\ f.pc = "dropUser"
    /\ accounts' = accounts \ {f.user}
    /\ passkeys' = WithoutUser(f.user)
    /\ session' = IF session = f.user THEN Nil ELSE session
    /\ Step(r, Rest)
    /\ UNCHANGED <<counting, rowSerial, signatures, cookie, issued, tabs>>
    /\ KeepHistory

PasskeyNext ==
    \/ SwitchSession
    \/ \E t \in Tab :
          \/ Options(t, "register") \/ Options(t, "login")
          \/ \E c \in Credential : Sign(t, c)
          \/ \E r \in Request : Post(r, t)
    \/ \E r \in Request :
          \/ CreatePasskey(r) \/ LoginVerify(r) \/ UpdateCounter(r) \/ CompleteLogin(r)
          \/ DropPasskey(r) \/ Cleanup(r) \/ DropUser(r)
          \/ \E c \in Credential : Delete(r, c)
          \/ \E u \in User : BeginDeleteUser(r, u)

PasskeySpec == PasskeyInit /\ [][PasskeyNext]_passkeyVars

-----------------------------------------------------------------------------
(* Properties.                                                             *)

\* An answer of an authenticator that counts signs in once, however often it is
\* posted: "updated on every successful assertion to prevent replay attacks"
\* (apps/docs/content/docs/packages/plugin-passkey/drizzle.mdx:299).  The row is
\* read and written without a condition, so two logins that had both read it
\* are the exception (plugin-passkey/src/index.ts:391-415); a credential that is
\* removed and registered again starts anew.
OneSignInPerAnswer ==
    \A use \in usedTwice : use[1].count = 0 \/ use[1].credential \in overlapped

\* The row c has now is not set back, or by one of the two races.
CounterWithinRace(c) ==
    Registered(c) /\ passkeys'[c] # NoRow /\ passkeys'[c].id = passkeys[c].id =>
        \/ passkeys'[c].counter >= passkeys[c].counter
        \/ c \in overlapped
        \/ \E r \in Request : /\ verifying[r].pc = "update" /\ verifying[r].answer.credential = c
                              /\ verifying[r].row # passkeys[c].id /\ verifying'[r] # verifying[r]

\* The counter of a row goes back only when two logins had read it, or when it is
\* written by a login that had read an earlier row of the credential: updateCounter
\* names the credential, not the row, and asks for nothing (index.ts:391-415).
CounterBackByRace == [][ \A c \in Credential : CounterWithinRace(c) ]_passkeyVars

\* The row of c stays, or goes in a request of its user.
GoneByOwner(c) ==
    Registered(c) /\ passkeys'[c] = NoRow =>
        \E r \in Request : verifying[r].user = passkeys[c].user /\ verifying'[r] # verifying[r]

\* A credential goes with its user or by a request of its user, also when it was
\* removed and registered again, by someone else, between the check of the owner
\* and the deletion (index.ts:428-434).
GoesByOwner == [][ \A c \in Credential : GoneByOwner(c) ]_passkeyVars

=============================================================================
