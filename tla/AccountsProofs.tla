--------------------------- MODULE AccountsProofs ---------------------------
(***************************************************************************)
(* For every set of users, addresses, passwords, tokens, accounts, flows   *)
(* and deployments: every safety invariant of Accounts.                    *)
(*                                                                         *)
(* A flow goes on with what it read, while users are deleted, change their *)
(* address or their password, and tokens are used or expire under it.  The *)
(* proof says what stays true of the copies.  Ids and tokens are not drawn *)
(* again (UsersCreated, and TokensAddressed, which has a token keep the    *)
(* address it was mailed to although its row goes), so that a user who     *)
(* holds an address unchanged is the only one it can lead to (OneUser).    *)
(***************************************************************************)
EXTENDS Accounts, TLAPS

\* A flow that claims, or has claimed, a verification token.
Claiming == {"claimReset", "claimInvite"}
Inviting == {"check", "invited"}
Tokened == Claiming \cup Inviting \cup {"resolve"}

\* A user still has the address that was read, or it was changed.
Keeps(u, e) == Exists(u) => users[u].email = e \/ u \in moved

\* A reset with the token may set the password of u.
ResetSound(t, u) ==
    /\ t \in drawn /\ issued[t] \in created
    /\ u = issued[t] \/ issued[t] \in moved \/ ~Exists(issued[t])

\* A session of u may rest on the account.
Vouched(a, u) == origin[u] = a \/ (autoLink /\ a \in vouched)

\* What a flow may rely on, whatever ran since it read it.
FlowSound(r) == LET q == requests[r] IN
    /\ q.pc \in {"register", "mailReset", "mailInvite", "follow", "byEmail", "provision"} \cup Tokened
          => q.email \in Email
    /\ q.pc \in {"register", "store"} \cup Tokened => q.password \in Password
    /\ q.pc \in {"issue", "store", "revoke", "mailReset", "follow", "link", "drop"}
          => q.user \in created
    /\ q.pc \in {"follow", "byEmail", "provision", "link"} => q.account \in Account
    /\ q.pc \in Tokened => q.token \in drawn /\ q.account = Nil
    /\ q.pc \in {"claimReset", "resolve"} => issued[q.token] # Nil
    /\ q.pc = "mailReset" => Keeps(q.user, q.email)
    /\ q.pc = "store" /\ q.token # Nil => ResetSound(q.token, q.user)
    /\ q.pc \in {"issue", "follow", "link"} /\ q.account # Nil => Vouched(q.account, q.user)
    /\ q.pc \in {"follow", "byEmail"} /\ q.flag => q.account \in vouched

FlowsSound == \A r \in Request : FlowSound(r)

UsersCreated == \A u \in User : Exists(u) => u \in created

OneUser ==
    \A u, v \in User : Exists(u) /\ Exists(v) /\ users[u].email = users[v].email => u = v

\* addr: where each token was mailed to.
Addressed(addr) ==
    /\ \A t \in Token :
          /\ tokens[t] # NoToken =>
                t \in drawn /\ tokens[t].email = addr[t] /\ (tokens[t].kind = "reset" => issued[t] # Nil)
          /\ t \notin drawn => issued[t] = Nil /\ opened[t] = {}
          /\ issued[t] # Nil => issued[t] \in created /\ Keeps(issued[t], addr[t])
          /\ \A u \in opened[t] : Keeps(u, addr[t])
    /\ \A r \in Request : requests[r].pc \in Tokened => requests[r].email = addr[requests[r].token]

TokensAddressed == \E addr \in [Token -> Email \cup {Nil}] : Addressed(addr)

\* Where a token is consumed by one statement, one flow goes on with it.
ConsumedOnce == atomicConsume =>
    /\ respent = {}
    /\ \A t \in Token :
          /\ tokens[t] # NoToken => t \notin spent
          /\ opened[t] # {} => t \in spent
          /\ \A u, v \in opened[t] : u = v
    /\ \A r \in Request :
          /\ requests[r].pc \notin Claiming
          /\ requests[r].pc \in Tokened => requests[r].token \in spent
          /\ requests[r].pc \in Inviting => opened[requests[r].token] = {}
    /\ \A p, q \in Request :
          /\ requests[p].pc \in Inviting /\ requests[q].pc \in Inviting
          /\ requests[p].token = requests[q].token
          => p = q

LinksVouched == \A a \in Account : accounts[a] # Nil => Vouched(a, accounts[a])

ResetsSound == \A x \in resets : ResetSound(x[1], x[2])

IInv ==
    /\ TypeOK
    /\ UsersCreated /\ OneUser
    /\ FlowsSound
    /\ TokensAddressed
    /\ ConsumedOnce
    /\ LinksVouched /\ ProviderSignInsVouched
    /\ ResetsSound
    /\ OldPasswordOnlyByRace
    /\ EveryUserHasAWayIn

-----------------------------------------------------------------------------

USE SentinelAssumption, OffersAssumption

LEMMA IdleTyped == Idle \in Local /\ Idle.pc = "idle"
  BY DEF Idle, Local, PC

LEMMA InitIInv == Init => IInv
<1>. SUFFICES ASSUME Init PROVE IInv
  OBVIOUS
<1>1. \A u \in User : ~Exists(u)
  BY DEF Init, Exists
<1>2. \A r \in Request : requests[r].pc = "idle"
  BY IdleTyped DEF Init
<1>3. TypeOK
  BY <1>1, IdleTyped DEF Init, TypeOK
<1>4. UsersCreated /\ OneUser /\ EveryUserHasAWayIn
  BY <1>1 DEF UsersCreated, OneUser, EveryUserHasAWayIn
<1>5. FlowsSound
  BY <1>2 DEF FlowsSound, FlowSound, Tokened, Claiming, Inviting
<1>6. TokensAddressed
  <2>1. [t \in Token |-> Nil] \in [Token -> Email \cup {Nil}]
    OBVIOUS
  <2>2. Addressed([t \in Token |-> Nil])
    BY <1>2 DEF Init, Addressed, Tokened, Claiming, Inviting
  <2>. QED
    BY <2>1, <2>2 DEF TokensAddressed
<1>7. ConsumedOnce /\ LinksVouched /\ ResetsSound
  BY <1>2 DEF Init, ConsumedOnce, Claiming, Tokened, Inviting, LinksVouched, ResetsSound
<1>8. ProviderSignInsVouched /\ OldPasswordOnlyByRace
  BY DEF Init, ProviderSignInsVouched, OldPasswordOnlyByRace
<1>. QED
  BY <1>3, <1>4, <1>5, <1>6, <1>7, <1>8 DEF IInv

-----------------------------------------------------------------------------
(* What never comes back.                                                  *)

\* What every step grants the flows of others: ids and tokens are not drawn
\* again, an address only changes under moved, and a token only goes.
Steady ==
    /\ created \subseteq created' /\ vouched \subseteq vouched'
    /\ drawn \subseteq drawn' /\ spent \subseteq spent'
    /\ autoLink' = autoLink /\ atomicConsume' = atomicConsume
    /\ \A u \in created :
          /\ origin'[u] = origin[u]
          /\ users'[u] # NoUser =>
                /\ users[u] # NoUser
                /\ u \in moved' \/ (u \notin moved /\ users'[u].email = users[u].email)
    /\ \A t \in drawn :
          /\ issued'[t] = issued[t]
          /\ tokens'[t] # NoToken => tokens'[t] = tokens[t]

LEMMA KeepsKept ==
  ASSUME Steady, NEW u \in created, NEW e, Keeps(u, e)
  PROVE  Keeps(u, e)'
  BY DEF Steady, Keeps, Exists

LEMMA ResetKept ==
  ASSUME Steady, NEW t, NEW u, ResetSound(t, u)
  PROVE  ResetSound(t, u)'
<1>1. t \in drawn' /\ issued'[t] = issued[t] /\ issued[t] \in created'
  BY DEF Steady, ResetSound
<1>2. u = issued[t] \/ issued[t] \in moved' \/ users'[issued[t]] = NoUser
  BY DEF Steady, ResetSound, Exists
<1>. QED
  BY <1>1, <1>2 DEF ResetSound, Exists

LEMMA VouchedKept ==
  ASSUME Steady, NEW u \in created, NEW a, Vouched(a, u)
  PROVE  Vouched(a, u)'
  BY DEF Steady, Vouched

LEMMA FlowKept ==
  ASSUME IInv, Steady, NEW r \in Request, requests'[r] = requests[r]
  PROVE  FlowSound(r)'
<1>1. PICK q : q = requests[r] /\ q = requests'[r]
  OBVIOUS
<1>2. /\ q.pc \in {"register", "mailReset", "mailInvite", "follow", "byEmail", "provision"} \cup Tokened
            => q.email \in Email
      /\ q.pc \in {"register", "store"} \cup Tokened => q.password \in Password
      /\ q.pc \in {"issue", "store", "revoke", "mailReset", "follow", "link", "drop"}
            => q.user \in created
      /\ q.pc \in {"follow", "byEmail", "provision", "link"} => q.account \in Account
      /\ q.pc \in Tokened => q.token \in drawn /\ q.account = Nil
      /\ q.pc \in {"claimReset", "resolve"} => issued[q.token] # Nil
      /\ q.pc = "mailReset" => Keeps(q.user, q.email)
      /\ q.pc = "store" /\ q.token # Nil => ResetSound(q.token, q.user)
      /\ q.pc \in {"issue", "follow", "link"} /\ q.account # Nil => Vouched(q.account, q.user)
      /\ q.pc \in {"follow", "byEmail"} /\ q.flag => q.account \in vouched
  BY <1>1 DEF IInv, FlowsSound, FlowSound
<1>3. /\ q.pc \in {"issue", "store", "revoke", "mailReset", "follow", "link", "drop"}
            => q.user \in created'
      /\ q.pc \in Tokened => q.token \in drawn' /\ q.account = Nil
      /\ q.pc \in {"claimReset", "resolve"} => issued'[q.token] # Nil
      /\ q.pc \in {"follow", "byEmail"} /\ q.flag => q.account \in vouched'
  BY <1>2 DEF Steady, Tokened, Claiming
<1>4. q.pc = "mailReset" => Keeps(q.user, q.email)'
  BY <1>2, KeepsKept
<1>5. q.pc = "store" /\ q.token # Nil => ResetSound(q.token, q.user)'
  BY <1>2, ResetKept
<1>6. q.pc \in {"issue", "follow", "link"} /\ q.account # Nil => Vouched(q.account, q.user)'
  BY <1>2, VouchedKept
<1>. QED
  BY <1>1, <1>2, <1>3, <1>4, <1>5, <1>6 DEF FlowSound, Keeps, ResetSound, Vouched, Exists

\* A flow comes by no token but one it had, or on MySQL one that is there.
TokenKept(x) ==
    requests'[x].pc \in Tokened =>
        \/ /\ requests[x].pc \in Tokened
           /\ requests'[x].token = requests[x].token /\ requests'[x].email = requests[x].email
           /\ requests'[x].pc \in Claiming => requests[x].pc \in Claiming
           /\ requests'[x].pc \in Inviting => requests[x].pc \in Inviting
        \/ /\ ~atomicConsume
           /\ requests'[x].token \in Token /\ tokens[requests'[x].token] # NoToken
           /\ requests'[x].email = tokens[requests'[x].token].email

LEMMA AddressedKept ==
  ASSUME IInv, Steady, UNCHANGED <<drawn, issued>>,
         \A t \in Token : tokens'[t] \in {tokens[t], NoToken},
         \A t \in Token : \A u \in opened'[t] :
            \/ u \in opened[t]
            \/ \E x \in Request : /\ requests[x].pc \in Tokened /\ requests[x].token = t
                                  /\ users'[u].email = requests[x].email,
         \A x \in Request : requests'[x].pc \in Tokened =>
            \/ /\ requests[x].pc \in Tokened
               /\ requests'[x].token = requests[x].token /\ requests'[x].email = requests[x].email
            \/ /\ requests'[x].token \in Token /\ tokens[requests'[x].token] # NoToken
               /\ requests'[x].email = tokens[requests'[x].token].email
  PROVE  TokensAddressed'
<1>1. PICK addr \in [Token -> Email \cup {Nil}] : Addressed(addr)
  BY DEF IInv, TokensAddressed
<1>2. ASSUME NEW t \in Token
      PROVE  /\ tokens'[t] # NoToken =>
                   /\ t \in drawn' /\ tokens'[t].email = addr[t]
                   /\ tokens'[t].kind = "reset" => issued'[t] # Nil
             /\ t \notin drawn' => issued'[t] = Nil /\ opened'[t] = {}
             /\ issued'[t] # Nil => issued'[t] \in created' /\ Keeps(issued[t], addr[t])'
             /\ \A u \in opened'[t] : Keeps(u, addr[t])'
  <2>1. opened[t] \subseteq created
    BY DEF IInv, TypeOK
  <2>2. issued[t] # Nil => issued[t] \in created /\ Keeps(issued[t], addr[t])
    BY <1>1 DEF Addressed
  <2>3. issued[t] # Nil => Keeps(issued[t], addr[t])'
    BY <2>2 DEF Steady, Keeps, Exists
  <2>4. \A u \in opened[t] : Keeps(u, addr[t])'
    BY <1>1, <2>1, KeepsKept DEF Addressed
  <2>5. ASSUME NEW x \in Request, requests[x].pc \in Tokened, requests[x].token = t
        PROVE  t \in drawn /\ requests[x].email = addr[t]
    BY <1>1, <2>5 DEF Addressed, IInv, FlowsSound, FlowSound
  <2>6. \A u \in opened'[t] : Keeps(u, addr[t])'
    BY <2>4, <2>5 DEF Keeps, Exists
  <2>7. t \notin drawn' => issued'[t] = Nil /\ opened'[t] = {}
    BY <1>1, <2>5 DEF Addressed
  <2>. QED
    BY <1>1, <2>2, <2>3, <2>6, <2>7 DEF Addressed, Steady
<1>3. ASSUME NEW x \in Request, requests'[x].pc \in Tokened
      PROVE  requests'[x].email = addr[requests'[x].token]
  BY <1>1, <1>3 DEF Addressed
<1>4. Addressed(addr)'
  BY <1>2, <1>3 DEF Addressed, Keeps, Exists
<1>. QED
  BY <1>4 DEF TokensAddressed

LEMMA ConsumedOnceThen ==
  ASSUME respent' = {},
         \A t \in Token : /\ tokens'[t] # NoToken => t \notin spent'
                          /\ opened'[t] # {} => t \in spent'
                          /\ \A u, v \in opened'[t] : u = v,
         \A x \in Request :
            requests'[x].pc \in Tokened =>
               /\ requests'[x].pc \notin Claiming
               /\ requests'[x].token \in spent'
               /\ requests'[x].pc \in Inviting => opened'[requests'[x].token] = {},
         \A x, y \in Request :
            /\ requests'[x].pc \in Inviting /\ requests'[y].pc \in Inviting
            /\ requests'[x].token = requests'[y].token
            => x = y
  PROVE  ConsumedOnce'
<1>1. \A x \in Request :
         /\ requests'[x].pc \notin Claiming
         /\ requests'[x].pc \in Tokened => requests'[x].token \in spent'
         /\ requests'[x].pc \in Inviting => opened'[requests'[x].token] = {}
  BY DEF Tokened
<1>. QED
  BY <1>1 DEF ConsumedOnce

LEMMA ConsumedKept ==
  ASSUME IInv, Steady, UNCHANGED <<opened, spent, respent>>,
         \A t \in Token : tokens'[t] \in {tokens[t], NoToken},
         \A x \in Request : TokenKept(x)
  PROVE  ConsumedOnce'
<1>1. CASE ~atomicConsume
  BY <1>1 DEF ConsumedOnce, Steady
<1>2. CASE atomicConsume
  <2>1. \A x \in Request : requests[x].pc \in Tokened => requests[x].token \in spent
    BY <1>2 DEF IInv, ConsumedOnce
  <2>2. \A x \in Request : requests'[x].pc \in Tokened =>
           /\ requests'[x].token = requests[x].token /\ requests[x].pc \in Tokened
           /\ requests'[x].pc \notin Claiming
           /\ requests'[x].pc \in Inviting => requests[x].pc \in Inviting
    BY <1>2 DEF TokenKept, IInv, ConsumedOnce
  <2>3. \A x \in Request :
           /\ requests'[x].pc \notin Claiming
           /\ requests'[x].pc \in Tokened => requests'[x].token \in spent'
           /\ requests'[x].pc \in Inviting => opened'[requests'[x].token] = {}
    BY <1>2, <2>1, <2>2 DEF IInv, ConsumedOnce, Tokened
  <2>4. \A x, y \in Request :
           /\ requests'[x].pc \in Inviting /\ requests'[y].pc \in Inviting
           /\ requests'[x].token = requests'[y].token
           => x = y
    BY <1>2, <2>2 DEF IInv, ConsumedOnce, Tokened
  <2>5. /\ respent' = {}
        /\ \A t \in Token :
              /\ tokens'[t] # NoToken => t \notin spent'
              /\ opened'[t] # {} => t \in spent'
              /\ \A u, v \in opened'[t] : u = v
    BY <1>2 DEF IInv, ConsumedOnce
  <2>. QED
    BY <2>3, <2>4, <2>5, ConsumedOnceThen
<1>. QED
  BY <1>1, <1>2

LEMMA LinksKept ==
  ASSUME IInv, Steady, \A a \in Account : accounts'[a] \in {accounts[a], Nil}
  PROVE  LinksVouched'
<1>1. \A a \in Account : accounts[a] # Nil => accounts[a] \in created
  BY DEF IInv, TypeOK, UsersCreated
<1>. QED
  BY <1>1 DEF IInv, LinksVouched, Vouched, Steady

LEMMA SignInsKept ==
  ASSUME IInv, Steady, sessions' \subseteq sessions
  PROVE  ProviderSignInsVouched'
<1>1. \A s \in sessions : s.user \in created
  BY DEF IInv, TypeOK, Session, UsersCreated
<1>. QED
  BY <1>1 DEF IInv, ProviderSignInsVouched, Steady

LEMMA ResetsKept ==
  ASSUME IInv, Steady, resets' = resets
  PROVE  ResetsSound'
<1>1. \A x \in resets : ResetSound(x[1], x[2])'
  BY ResetKept DEF IInv, ResetsSound
<1>. QED
  BY <1>1 DEF ResetsSound

\* No session is opened, no password changed, and no revocation lost.
LEMMA PasswordsKept ==
  ASSUME IInv, sessions' \subseteq sessions,
         \A s \in sessions' :
            /\ users'[s.user].password = users[s.user].password
            /\ s.user \in lapsed => s.user \in lapsed',
         \A x \in Request : requests[x].pc = "revoke" =>
            \/ requests'[x] = requests[x]
            \/ \A s \in sessions' : s.user = requests[x].user => s.user \in lapsed'
  PROVE  OldPasswordOnlyByRace'
<1>. SUFFICES ASSUME NEW s \in sessions'
     PROVE  \/ s.password \in {Nil, users'[s.user].password}
            \/ s.user \in lapsed'
            \/ \E r \in Request : requests'[r].pc = "revoke" /\ requests'[r].user = s.user
  BY DEF OldPasswordOnlyByRace
<1>1. CASE \E r \in Request : requests[r].pc = "revoke" /\ requests[r].user = s.user
  BY <1>1
<1>2. CASE s.password \in {Nil, users[s.user].password} \/ s.user \in lapsed
  BY <1>2
<1>. QED
  BY <1>1, <1>2 DEF IInv, OldPasswordOnlyByRace

\* No user is created or loses a password or a link, and no link is given up.
LEMMA WaysKept ==
  ASSUME IInv,
         \A u \in User : Exists(u)' =>
            /\ Exists(u)
            /\ users[u].password # Nil => users'[u].password # Nil
            /\ \A a \in Account : accounts[a] = u => accounts'[a] = u
            /\ u \in stranded => u \in stranded',
         \A x \in Request : requests[x].pc = "link" =>
            requests'[x] = requests[x] \/ requests[x].user \in stranded'
  PROVE  EveryUserHasAWayIn'
<1>. SUFFICES ASSUME NEW u \in User, Exists(u)'
     PROVE  \/ users'[u].password # Nil
            \/ \E a \in Account : accounts'[a] = u
            \/ u \in stranded'
            \/ \E r \in Request : requests'[r].pc = "link" /\ requests'[r].user = u
  BY DEF EveryUserHasAWayIn
<1>1. CASE \E r \in Request : requests[r].pc = "link" /\ requests[r].user = u
  BY <1>1
<1>2. CASE \/ users[u].password # Nil \/ \E a \in Account : accounts[a] = u \/ u \in stranded
  BY <1>2
<1>. QED
  BY <1>1, <1>2 DEF IInv, EveryUserHasAWayIn

\* A step that draws, accepts and opens with no token: what is left to show.
LEMMA Tokenless ==
  ASSUME IInv, Steady, TypeOK', UsersCreated', OneUser',
         UNCHANGED <<drawn, issued, opened, spent, respent>>,
         \A t \in Token : tokens'[t] \in {tokens[t], NoToken},
         \A x \in Request : requests'[x] = requests[x] \/ (FlowSound(x)' /\ TokenKept(x)),
         LinksVouched', ProviderSignInsVouched', ResetsSound',
         OldPasswordOnlyByRace', EveryUserHasAWayIn'
  PROVE  IInv'
<1>1. FlowsSound'
  BY FlowKept DEF FlowsSound
<1>2. \A x \in Request : TokenKept(x)
  BY DEF TokenKept
<1>3. TokensAddressed'
  BY <1>2, AddressedKept DEF TokenKept
<1>. QED
  BY <1>1, <1>2, <1>3, ConsumedKept DEF IInv

\* Nor does it open a session or link an account, or set a password by a reset.
LEMMA Calm ==
  ASSUME IInv, Steady, TypeOK', UsersCreated', OneUser',
         UNCHANGED <<drawn, issued, opened, spent, respent, resets>>,
         \A t \in Token : tokens'[t] \in {tokens[t], NoToken},
         \A a \in Account : accounts'[a] \in {accounts[a], Nil},
         sessions' \subseteq sessions,
         \A x \in Request : requests'[x] = requests[x] \/ (FlowSound(x)' /\ TokenKept(x)),
         OldPasswordOnlyByRace', EveryUserHasAWayIn'
  PROVE  IInv'
  BY LinksKept, SignInsKept, ResetsKept, Tokenless

LEMMA Landed ==
  ASSUME TypeOK, NEW r \in Request, NEW q, Goto(r, q)
  PROVE  /\ requests'[r] = q
         /\ q \in Local => requests' \in [Request -> Local]
         /\ \A x \in Request : x # r => requests'[x] = requests[x]
  BY DEF TypeOK, Goto

\* The flow of slot r, further on.
LEMMA Further ==
  ASSUME TypeOK, NEW r \in Request, NEW x \in PC
  PROVE  \A q : q = [requests[r] EXCEPT !.pc = x] =>
            /\ q \in Local /\ q.pc = x /\ q.user = requests[r].user
            /\ q.email = requests[r].email /\ q.password = requests[r].password
            /\ q.token = requests[r].token /\ q.account = requests[r].account
            /\ q.flag = requests[r].flag
  BY DEF TypeOK, Local

\* A flow moves on, and the step writes nothing but what a provider vouched for.
LEMMA ReadStep ==
  ASSUME IInv, NEW r \in Request, NEW q \in Local, Goto(r, q),
         UNCHANGED <<config, tables, tokenHistory, created, moved, lapsed, origin, stranded>>,
         vouched \subseteq vouched', vouched' \subseteq Account,
         requests[r].pc \notin {"revoke", "link"},
         FlowSound(r)', TokenKept(r)
  PROVE  IInv'
<1>1. /\ requests' \in [Request -> Local]
      /\ \A x \in Request : x # r => requests'[x] = requests[x]
  BY Landed DEF IInv
<1>2. UNCHANGED <<offers, atomicConsume, autoLink, users, sessions, tokens, accounts, drawn, issued,
                  spent, respent, opened, resets, created, moved, lapsed, origin, stranded>>
  BY DEF config, tables, tokenHistory
<1>3. Steady
  BY <1>2 DEF Steady
<1>4. TypeOK' /\ UsersCreated' /\ OneUser'
  BY <1>1, <1>2 DEF IInv, TypeOK, UsersCreated, OneUser, Exists
<1>5. OldPasswordOnlyByRace' /\ EveryUserHasAWayIn'
  BY <1>1, <1>2, PasswordsKept, WaysKept DEF Exists
<1>. QED
  BY <1>1, <1>2, <1>3, <1>4, <1>5, Calm

LEMMA EndStep ==
  ASSUME IInv, NEW r \in Request, End(r), requests[r].pc \notin {"revoke", "link"}
  PROVE  IInv'
<1>1. Goto(r, Idle) /\ requests'[r] = Idle
  BY Landed DEF End, Finish, IInv
<1>2. FlowSound(r)' /\ TokenKept(r)
  BY <1>1, IdleTyped DEF FlowSound, TokenKept, Tokened, Claiming, Inviting
<1>3. UNCHANGED <<config, tables, tokenHistory, created, moved, lapsed, origin, stranded, vouched>>
  BY DEF End, userHistory
<1>. QED
  BY <1>1, <1>2, <1>3, IdleTyped, ReadStep DEF IInv, TypeOK

-----------------------------------------------------------------------------
(* The steps that write nothing.                                           *)

LEMMA BeginStep ==
  ASSUME IInv, NEW r \in Request, NEW q \in Local, Begin(r, q),
         UNCHANGED <<config, tables, tokenHistory, userHistory>>,
         q.pc \in {"register", "issue", "store", "mailReset", "mailInvite"},
         q.pc \in {"register", "mailReset", "mailInvite"} => q.email \in Email,
         q.pc \in {"register", "store"} => q.password \in Password,
         q.pc \in {"issue", "store", "mailReset"} => q.user \in User /\ Exists(q.user),
         q.pc = "mailReset" => HasEmail(q.user, q.email),
         q.token = Nil, q.account = Nil
  PROVE  IInv'
<1>. USE DEF IInv
<1>1. /\ Goto(r, q) /\ requests'[r] = q /\ requests[r].pc = "idle"
      /\ UNCHANGED <<config, tables, tokenHistory, created, moved, lapsed, origin, stranded, vouched>>
  BY Landed, IdleTyped DEF Begin, userHistory
<1>2. q.pc \in {"issue", "store", "mailReset"} => q.user \in created'
  BY <1>1 DEF UsersCreated
<1>3. q.pc = "mailReset" => Keeps(q.user, q.email)'
  BY <1>1 DEF HasEmail, Keeps, tables, Exists
<1>4. FlowSound(r)'
  BY <1>1, <1>2, <1>3 DEF FlowSound, Tokened, Claiming, Inviting, Keeps, Exists
<1>5. TokenKept(r)
  BY <1>1 DEF TokenKept, Tokened, Claiming, Inviting
<1>. QED
  BY <1>1, <1>4, <1>5, ReadStep DEF TypeOK

LEMMA BeginSteps ==
  ASSUME IInv, NEW r \in Request,
         \/ \E e \in Email : \/ RequestReset(r, e) \/ CreateInvite(r, e)
                             \/ \E p \in Password : Register(r, e, p)
         \/ \E u \in User : \/ SignIn(r, u)
                            \/ \E p \in Password, keep \in BOOLEAN : ChangePassword(r, u, p, keep)
  PROVE  IInv'
<1>1. ASSUME NEW e \in Email, NEW u \in User, HasEmail(u, e),
             Begin(r, [Idle EXCEPT !.pc = "mailReset", !.user = u, !.email = e]),
             UNCHANGED <<config, tables, tokenHistory, userHistory>>
      PROVE  IInv'
  <2>. DEFINE q == [Idle EXCEPT !.pc = "mailReset", !.user = u, !.email = e]
  <2>1. /\ q \in Local /\ q.pc = "mailReset" /\ q.user = u /\ q.email = e
        /\ q.token = Nil /\ q.account = Nil
    BY DEF Idle, Local, PC
  <2>2. Begin(r, q)
    BY <1>1
  <2>. HIDE DEF q
  <2>. QED
    BY <1>1, <2>1, <2>2, BeginStep DEF HasEmail
<1>2. ASSUME NEW e \in Email, CreateInvite(r, e)
      PROVE  IInv'
  <2>. DEFINE q == [Idle EXCEPT !.pc = "mailInvite", !.email = e]
  <2>1. q \in Local /\ q.pc = "mailInvite" /\ q.email = e /\ q.token = Nil /\ q.account = Nil
    BY DEF Idle, Local, PC
  <2>2. Begin(r, q) /\ UNCHANGED <<config, tables, tokenHistory, userHistory>>
    BY <1>2 DEF CreateInvite
  <2>. HIDE DEF q
  <2>. QED
    BY <2>1, <2>2, BeginStep
<1>3. ASSUME NEW e \in Email, NEW p \in Password, Register(r, e, p)
      PROVE  IInv'
  <2>. DEFINE q == [Idle EXCEPT !.pc = "register", !.email = e, !.password = p]
  <2>1. /\ q \in Local /\ q.pc = "register" /\ q.email = e /\ q.password = p
        /\ q.token = Nil /\ q.account = Nil
    BY DEF Idle, Local, PC
  <2>2. Begin(r, q) /\ UNCHANGED <<config, tables, tokenHistory, userHistory>>
    BY <1>3 DEF Register
  <2>. HIDE DEF q
  <2>. QED
    BY <2>1, <2>2, BeginStep
<1>4. ASSUME NEW u \in User, SignIn(r, u)
      PROVE  IInv'
  <2>. DEFINE q == [Idle EXCEPT !.pc = "issue", !.user = u, !.password = users[u].password]
  <2>1. users[u].password \in Password \cup {Nil}
    BY <1>4 DEF SignIn, IInv, TypeOK, Exists, UserRow
  <2>2. q \in Local /\ q.pc = "issue" /\ q.user = u /\ q.token = Nil /\ q.account = Nil
    BY <2>1 DEF Idle, Local, PC
  <2>3. Begin(r, q) /\ UNCHANGED <<config, tables, tokenHistory, userHistory>> /\ Exists(u)
    BY <1>4 DEF SignIn
  <2>. HIDE DEF q
  <2>. QED
    BY <2>2, <2>3, BeginStep
<1>5. ASSUME NEW u \in User, NEW p \in Password, NEW keep \in BOOLEAN, ChangePassword(r, u, p, keep)
      PROVE  IInv'
  <2>. DEFINE q == [Idle EXCEPT !.pc = "store", !.user = u, !.password = p, !.flag = keep]
  <2>1. /\ q \in Local /\ q.pc = "store" /\ q.user = u /\ q.password = p
        /\ q.token = Nil /\ q.account = Nil
    BY DEF Idle, Local, PC
  <2>2. Begin(r, q) /\ UNCHANGED <<config, tables, tokenHistory, userHistory>> /\ Exists(u)
    BY <1>5 DEF ChangePassword
  <2>. HIDE DEF q
  <2>. QED
    BY <2>1, <2>2, BeginStep
<1>. QED
  BY <1>1, <1>2, <1>3, <1>4, <1>5 DEF RequestReset

LEMMA CallbackStep ==
  ASSUME IInv, NEW r \in Request, NEW a \in Account, NEW e \in Email, NEW verified \in BOOLEAN,
         Callback(r, a, e, verified)
  PROVE  IInv'
<1>. USE DEF IInv
<1>. DEFINE q == [Idle EXCEPT !.pc = IF accounts[a] = Nil THEN "byEmail" ELSE "follow",
                              !.user = accounts[a], !.account = a, !.email = e, !.flag = verified]
<1>1. /\ q \in Local /\ q.pc = (IF accounts[a] = Nil THEN "byEmail" ELSE "follow")
      /\ q.user = accounts[a] /\ q.account = a /\ q.email = e /\ q.flag = verified
  <2>1. accounts[a] \in User \cup {Nil}
    BY DEF TypeOK
  <2>. QED
    BY <2>1 DEF Idle, Local, PC
<1>2. /\ Goto(r, q) /\ requests[r].pc = "idle"
      /\ vouched' = IF verified THEN vouched \cup {a} ELSE vouched
      /\ UNCHANGED <<config, tables, tokenHistory, created, moved, lapsed, origin, stranded>>
  BY IdleTyped DEF Callback, Begin
<1>. HIDE DEF q
<1>3. requests'[r] = q
  BY <1>2, Landed
<1>4. accounts[a] # Nil => accounts[a] \in created' /\ Vouched(a, accounts[a])
  BY <1>2 DEF TypeOK, UsersCreated, LinksVouched
<1>5. FlowSound(r)'
  BY <1>1, <1>2, <1>3, <1>4
     DEF FlowSound, Tokened, Claiming, Inviting, Vouched, config
<1>6. TokenKept(r)
  BY <1>1, <1>3 DEF TokenKept, Tokened, Claiming, Inviting
<1>. QED
  BY <1>1, <1>2, <1>5, <1>6, ReadStep DEF TypeOK

\* On MySQL: the select of a token, its delete still to come.
LEMMA SelectStep ==
  ASSUME IInv, NEW r \in Request, NEW t \in Token, NEW q \in Local,
         Goto(r, q), UNCHANGED <<config, tables, tokenHistory, userHistory>>,
         ~atomicConsume, requests[r] = Idle,
         q.pc \in Claiming, q.token = t, tokens[t] # NoToken, q.email = tokens[t].email,
         q.password \in Password, q.account = Nil,
         q.pc = "claimReset" => tokens[t].kind = "reset"
  PROVE  IInv'
<1>. USE DEF IInv
<1>1. /\ requests'[r] = q /\ requests[r].pc = "idle"
      /\ UNCHANGED <<config, tables, tokenHistory, created, moved, lapsed, origin, stranded, vouched>>
  BY Landed, IdleTyped DEF userHistory
<1>2. tokens[t].email \in Email /\ t \in drawn /\ (q.pc = "claimReset" => issued[t] # Nil)
  BY DEF TypeOK, TokenRow, TokensAddressed, Addressed
<1>3. FlowSound(r)'
  BY <1>1, <1>2 DEF FlowSound, Tokened, Claiming, Inviting, tokenHistory
<1>4. TokenKept(r)
  BY <1>1 DEF TokenKept
<1>. QED
  BY <1>1, <1>3, <1>4, ReadStep DEF TypeOK, Claiming

LEMMA ResolveResetStep ==
  ASSUME IInv, NEW r \in Request, ResolveReset(r)
  PROVE  IInv'
<1>. USE DEF IInv
<1>1. requests[r].pc = "resolve"
  BY DEF ResolveReset
<1>2. CASE End(r)
  BY <1>1, <1>2, EndStep
<1>3. CASE ~End(r)
  <2>1. PICK u \in User :
           /\ HasEmail(u, requests[r].email)
           /\ Goto(r, [requests[r] EXCEPT !.pc = "store", !.user = u])
           /\ UNCHANGED <<config, tables, tokenHistory, userHistory>>
    BY <1>3 DEF ResolveReset
  <2>. DEFINE q == [requests[r] EXCEPT !.pc = "store", !.user = u]
  <2>2. /\ q \in Local /\ q.pc = "store" /\ q.user = u /\ q.password = requests[r].password
        /\ q.token = requests[r].token /\ q.account = requests[r].account
    <3>1. requests[r] \in Local
      BY DEF TypeOK
    <3>. QED
      BY <3>1 DEF Local, PC
  <2>. HIDE DEF q
  <2>3. requests'[r] = q
    BY <2>1, Landed DEF q
  <2>4. UNCHANGED <<config, tables, tokenHistory, created, moved, lapsed, origin, stranded, vouched,
                    users, drawn, issued>>
    BY <2>1 DEF tables, tokenHistory, userHistory
  <2>5. requests[r].password \in Password /\ requests[r].token \in drawn /\ issued[requests[r].token] # Nil
    BY <1>1 DEF FlowsSound, FlowSound, Tokened
  <2>6. u \in created
    BY <2>1 DEF HasEmail, UsersCreated
  <2>7. ResetSound(requests[r].token, u)
    <3>1. PICK addr \in [Token -> Email \cup {Nil}] : Addressed(addr)
      BY DEF TokensAddressed
    <3>2. PICK t \in Token : t = requests[r].token
      BY <2>5 DEF TypeOK
    <3>3. users[u].email = addr[t] /\ issued[t] \in created /\ Keeps(issued[t], addr[t])
      BY <1>1, <2>1, <2>5, <3>1, <3>2 DEF Addressed, Tokened, HasEmail
    <3>4. issued[t] \in User
      BY <3>3 DEF TypeOK
    <3>. QED
      BY <2>1, <2>5, <3>2, <3>3, <3>4 DEF Keeps, OneUser, HasEmail, ResetSound
  <2>8. FlowSound(r)'
    BY <2>2, <2>3, <2>4, <2>5, <2>6, <2>7
       DEF FlowSound, Tokened, Claiming, Inviting, ResetSound, Exists
  <2>9. TokenKept(r)
    BY <2>2, <2>3 DEF TokenKept, Tokened, Claiming, Inviting
  <2>. QED
    BY <1>1, <2>1, <2>2, <2>4, <2>8, <2>9, ReadStep DEF TypeOK, q
<1>. QED
  BY <1>2, <1>3

LEMMA CheckInvitedStep ==
  ASSUME IInv, NEW r \in Request, CheckInvited(r)
  PROVE  IInv'
<1>. USE DEF IInv
<1>1. requests[r].pc = "check"
  BY DEF CheckInvited
<1>2. CASE End(r)
  BY <1>1, <1>2, EndStep
<1>3. CASE ~End(r)
  <2>. DEFINE q == [requests[r] EXCEPT !.pc = "invited"]
  <2>1. Goto(r, q) /\ UNCHANGED <<config, tables, tokenHistory, userHistory>>
    BY <1>3 DEF CheckInvited
  <2>2. /\ q \in Local /\ q.pc = "invited" /\ q.email = requests[r].email
        /\ q.password = requests[r].password /\ q.token = requests[r].token
        /\ q.account = requests[r].account
    BY Further DEF PC
  <2>. HIDE DEF q
  <2>3. requests'[r] = q
    BY <2>1, Landed
  <2>4. UNCHANGED <<config, tables, tokenHistory, created, moved, lapsed, origin, stranded, vouched,
                    drawn>>
    BY <2>1 DEF tokenHistory, userHistory
  <2>5. FlowSound(r)'
    BY <1>1, <2>2, <2>3, <2>4 DEF FlowsSound, FlowSound, Tokened, Claiming, Inviting
  <2>6. TokenKept(r)
    BY <1>1, <2>2, <2>3 DEF TokenKept, Tokened, Claiming, Inviting
  <2>. QED
    BY <1>1, <2>1, <2>2, <2>4, <2>5, <2>6, ReadStep DEF TypeOK
<1>. QED
  BY <1>2, <1>3

LEMMA FollowLinkStep ==
  ASSUME IInv, NEW r \in Request, FollowLink(r)
  PROVE  IInv'
<1>. USE DEF IInv
<1>1. /\ requests[r].pc = "follow"
      /\ UNCHANGED <<config, tables, tokenHistory, created, moved, lapsed, origin, stranded, vouched,
                    autoLink>>
  BY DEF FollowLink, userHistory, config
<1>2. \E q \in Local :
         /\ Goto(r, q) /\ q.account = requests[r].account /\ q.email = requests[r].email
         /\ q.flag = requests[r].flag
         /\ \/ q.pc = "issue" /\ q.user = requests[r].user
            \/ q.pc = "byEmail"
  <2>. DEFINE i == [requests[r] EXCEPT !.pc = "issue"]
              b == [requests[r] EXCEPT !.pc = "byEmail", !.user = Nil]
  <2>1. requests[r] \in Local
    BY DEF TypeOK
  <2>2. /\ i \in Local /\ i.pc = "issue" /\ i.user = requests[r].user
        /\ i.account = requests[r].account /\ i.email = requests[r].email /\ i.flag = requests[r].flag
        /\ b \in Local /\ b.pc = "byEmail"
        /\ b.account = requests[r].account /\ b.email = requests[r].email /\ b.flag = requests[r].flag
    BY <2>1 DEF Local, PC
  <2>3. Goto(r, i) \/ Goto(r, b)
    BY DEF FollowLink
  <2>. HIDE DEF i, b
  <2>. QED
    BY <2>2, <2>3
<1>3. PICK q \in Local :
         /\ Goto(r, q) /\ q.account = requests[r].account /\ q.email = requests[r].email
         /\ q.flag = requests[r].flag
         /\ \/ q.pc = "issue" /\ q.user = requests[r].user
            \/ q.pc = "byEmail"
  BY <1>2
<1>4. requests'[r] = q
  BY <1>3, Landed
<1>5. FlowSound(r)'
  BY <1>1, <1>3, <1>4 DEF FlowsSound, FlowSound, Tokened, Claiming, Inviting, Vouched
<1>6. TokenKept(r)
  BY <1>3, <1>4 DEF TokenKept, Tokened, Claiming, Inviting
<1>. QED
  BY <1>1, <1>3, <1>5, <1>6, ReadStep DEF TypeOK

LEMMA FindByEmailStep ==
  ASSUME IInv, NEW r \in Request, FindByEmail(r)
  PROVE  IInv'
<1>. USE DEF IInv
<1>1. requests[r].pc = "byEmail"
  BY DEF FindByEmail
<1>2. CASE End(r)
  BY <1>1, <1>2, EndStep
<1>3. CASE ~End(r)
  <2>1. UNCHANGED <<config, tables, tokenHistory, created, moved, lapsed, origin, stranded, vouched,
                    autoLink>>
    BY <1>3 DEF FindByEmail, userHistory, config
  <2>2. \E q \in Local :
           /\ Goto(r, q) /\ q.account = requests[r].account /\ q.email = requests[r].email
           /\ \/ q.pc = "provision"
              \/ q.pc = "link" /\ MayLink(requests[r]) /\ q.user \in User /\ Exists(q.user)
    <3>. DEFINE p == [requests[r] EXCEPT !.pc = "provision"]
                k(u) == [requests[r] EXCEPT !.pc = "link", !.user = u]
    <3>1. requests[r] \in Local
      BY DEF TypeOK
    <3>2. /\ p \in Local /\ p.pc = "provision"
          /\ p.account = requests[r].account /\ p.email = requests[r].email
      BY <3>1 DEF Local, PC
    <3>3. ASSUME NEW u \in User
          PROVE  /\ k(u) \in Local /\ k(u).pc = "link" /\ k(u).user = u
                 /\ k(u).account = requests[r].account /\ k(u).email = requests[r].email
      BY <3>1 DEF Local, PC
    <3>4. \/ Goto(r, p)
          \/ \E u \in User : MayLink(requests[r]) /\ Exists(u) /\ Goto(r, k(u))
      BY <1>3 DEF FindByEmail, HasEmail
    <3>. HIDE DEF p, k
    <3>. QED
      BY <3>2, <3>3, <3>4
  <2>3. PICK q \in Local :
           /\ Goto(r, q) /\ q.account = requests[r].account /\ q.email = requests[r].email
           /\ \/ q.pc = "provision"
              \/ q.pc = "link" /\ MayLink(requests[r]) /\ q.user \in User /\ Exists(q.user)
    BY <2>2
  <2>4. requests'[r] = q
    BY <2>3, Landed
  <2>5. FlowSound(r)'
    BY <1>1, <2>1, <2>3, <2>4
       DEF FlowsSound, FlowSound, Tokened, Claiming, Inviting, Vouched, MayLink, UsersCreated
  <2>6. TokenKept(r)
    BY <2>3, <2>4 DEF TokenKept, Tokened, Claiming, Inviting
  <2>. QED
    BY <1>1, <2>1, <2>3, <2>5, <2>6, ReadStep DEF TypeOK
<1>. QED
  BY <1>2, <1>3

-----------------------------------------------------------------------------
(* Sessions, links and rows that go.                                       *)

LEMMA EndSessionStep ==
  ASSUME IInv, NEW s \in sessions, EndSession(s)
  PROVE  IInv'
<1>. USE DEF IInv
<1>1. /\ sessions' \subseteq sessions
      /\ UNCHANGED <<offers, atomicConsume, autoLink, users, tokens, accounts, requests, drawn,
                     issued, spent, respent, opened, resets, created, moved, lapsed, origin,
                     vouched, stranded>>
  BY DEF EndSession, config, tokenHistory, userHistory
<1>2. Steady
  BY <1>1 DEF Steady
<1>3. TypeOK' /\ UsersCreated' /\ OneUser'
  BY <1>1 DEF TypeOK, UsersCreated, OneUser, Exists
<1>4. OldPasswordOnlyByRace' /\ EveryUserHasAWayIn'
  BY <1>1, PasswordsKept, WaysKept DEF Exists
<1>. QED
  BY <1>1, <1>2, <1>3, <1>4, Calm

LEMMA TokensGoStep ==
  ASSUME IInv, NEW t \in Token, Expire(t) \/ RevokeInvite(t)
  PROVE  IInv'
<1>. USE DEF IInv
<1>1. /\ tokens' = [tokens EXCEPT ![t] = NoToken]
      /\ UNCHANGED <<offers, atomicConsume, autoLink, users, sessions, accounts, requests, drawn,
                     issued, spent, respent, opened, resets, created, moved, lapsed, origin,
                     vouched, stranded>>
  BY DEF Expire, RevokeInvite, config, tokenHistory, userHistory
<1>2. /\ tokens' \in [Token -> TokenRow \cup {NoToken}]
      /\ \A x \in Token : tokens'[x] \in {tokens[x], NoToken}
  BY <1>1 DEF TypeOK
<1>3. Steady
  BY <1>1, <1>2 DEF Steady, TypeOK
<1>4. TypeOK' /\ UsersCreated' /\ OneUser'
  BY <1>1, <1>2 DEF TypeOK, UsersCreated, OneUser, Exists
<1>5. OldPasswordOnlyByRace' /\ EveryUserHasAWayIn'
  BY <1>1, PasswordsKept, WaysKept DEF Exists
<1>. QED
  BY <1>1, <1>2, <1>3, <1>4, <1>5, Calm

\* Sessions of one user are revoked: RevokeAll, and DeleteUser, which goes on.
LEMMA RevokeStep ==
  ASSUME IInv, NEW r \in Request, NEW u \in User, NEW q \in Local,
         sessions' = sessions \ SessionsOf(u), Goto(r, q),
         UNCHANGED <<config, users, tokens, accounts, tokenHistory, userHistory>>,
         \/ requests[r].pc = "idle" /\ q.pc = "drop" /\ q.user = u /\ Exists(u)
         \/ requests[r].pc = "revoke" /\ requests[r].user = u /\ q.pc = "idle"
  PROVE  IInv'
<1>. USE DEF IInv
<1>1. /\ requests' \in [Request -> Local] /\ requests'[r] = q
      /\ \A x \in Request : x # r => requests'[x] = requests[x]
  BY Landed
<1>2. UNCHANGED <<offers, atomicConsume, autoLink, users, tokens, accounts, drawn,
                  issued, spent, respent, opened, resets, created, moved, lapsed, origin,
                  vouched, stranded>>
  BY DEF config, tokenHistory, userHistory
<1>3. Steady
  BY <1>2 DEF Steady
<1>4. TypeOK' /\ UsersCreated' /\ OneUser'
  BY <1>1, <1>2 DEF TypeOK, UsersCreated, OneUser, Exists
<1>5. FlowSound(r)' /\ TokenKept(r)
  BY <1>1, <1>2 DEF FlowSound, TokenKept, Tokened, Claiming, Inviting, UsersCreated
<1>6. OldPasswordOnlyByRace'
  BY <1>1, <1>2, PasswordsKept DEF SessionsOf
<1>7. EveryUserHasAWayIn'
  BY <1>1, <1>2, WaysKept DEF Exists
<1>. QED
  BY <1>1, <1>2, <1>3, <1>4, <1>5, <1>6, <1>7, Calm

LEMMA RevokeSteps ==
  ASSUME IInv, NEW r \in Request, RevokeAll(r) \/ \E u \in User : DeleteUser(r, u)
  PROVE  IInv'
<1>1. CASE RevokeAll(r)
  <2>1. requests[r].user \in User
    BY <1>1 DEF RevokeAll, IInv, FlowsSound, FlowSound, TypeOK
  <2>. QED
    BY <1>1, <2>1, IdleTyped, RevokeStep DEF RevokeAll, Finish
<1>2. ASSUME NEW u \in User, DeleteUser(r, u)
      PROVE  IInv'
  <2>. DEFINE q == [Idle EXCEPT !.pc = "drop", !.user = u]
  <2>1. q \in Local /\ q.pc = "drop" /\ q.user = u
    BY DEF Idle, Local, PC
  <2>2. Goto(r, q) /\ requests[r].pc = "idle"
    BY <1>2, IdleTyped DEF DeleteUser
  <2>. HIDE DEF q
  <2>. QED
    BY <1>2, <2>1, <2>2, RevokeStep DEF DeleteUser
<1>. QED
  BY <1>1, <1>2

LEMMA DropUserStep ==
  ASSUME IInv, NEW r \in Request, DropUser(r)
  PROVE  IInv'
<1>. USE DEF IInv
<1>1. PICK u \in User : u = requests[r].user
  BY DEF DropUser, FlowsSound, FlowSound, TypeOK
<1>2. /\ requests[r].pc = "drop"
      /\ users' = [users EXCEPT ![u] = NoUser]
      /\ sessions' = sessions \ SessionsOf(u)
      /\ accounts' = Unlinked(u)
      /\ moved' = moved \ {u} /\ lapsed' = lapsed \ {u} /\ stranded' = stranded \ {u}
      /\ UNCHANGED <<offers, atomicConsume, autoLink, tokens, drawn, issued, spent, respent, opened,
                     resets, created, origin, vouched>>
  BY <1>1 DEF DropUser, config, tokenHistory
<1>3. /\ requests' \in [Request -> Local] /\ requests'[r] = Idle
      /\ \A x \in Request : x # r => requests'[x] = requests[x]
  BY IdleTyped, Landed DEF DropUser, Finish
<1>4. /\ users' \in [User -> UserRow \cup {NoUser}]
      /\ users'[u] = NoUser
      /\ \A v \in User : v # u => users'[v] = users[v]
  BY <1>2 DEF TypeOK
<1>5. Steady
  BY <1>2, <1>4 DEF Steady, TypeOK
<1>6. /\ \A a \in Account : accounts'[a] \in {accounts[a], Nil} /\ accounts'[a] # u
      /\ \A a \in Account : accounts[a] # u => accounts'[a] = accounts[a]
      /\ accounts' \in [Account -> {v \in User : users'[v] # NoUser} \cup {Nil}]
  BY <1>2, <1>4 DEF Unlinked, TypeOK, Exists
<1>7. sessions' \subseteq sessions /\ \A s \in sessions' : s.user # u /\ s.user \in User
  BY <1>2 DEF SessionsOf, TypeOK, Session
<1>8. TypeOK' /\ UsersCreated' /\ OneUser'
  BY <1>2, <1>3, <1>4, <1>6, <1>7 DEF TypeOK, UsersCreated, OneUser, Exists
<1>9. FlowSound(r)' /\ TokenKept(r)
  BY <1>3, IdleTyped DEF FlowSound, TokenKept, Tokened, Claiming, Inviting
<1>10. OldPasswordOnlyByRace'
  BY <1>2, <1>3, <1>4, <1>7, PasswordsKept
<1>11. EveryUserHasAWayIn'
  BY <1>2, <1>3, <1>4, <1>6, WaysKept DEF Exists
<1>. QED
  BY <1>2, <1>3, <1>5, <1>6, <1>7, <1>8, <1>9, <1>10, <1>11, Calm

LEMMA AbortStep ==
  ASSUME IInv, NEW r \in Request, Abort(r)
  PROVE  IInv'
<1>. USE DEF IInv
<1>1. /\ requests' \in [Request -> Local] /\ requests'[r] = Idle
      /\ \A x \in Request : x # r => requests'[x] = requests[x]
  BY IdleTyped, Landed DEF Abort, Finish
<1>2. /\ lapsed' = IF requests[r].pc = "revoke" THEN lapsed \cup {requests[r].user} ELSE lapsed
      /\ stranded' = IF requests[r].pc = "link" THEN stranded \cup {requests[r].user} ELSE stranded
      /\ UNCHANGED <<offers, atomicConsume, autoLink, users, sessions, tokens, accounts, drawn,
                     issued, spent, respent, opened, resets, created, moved, origin, vouched>>
  BY DEF Abort, config, tables, tokenHistory
<1>3. Steady
  BY <1>2 DEF Steady
<1>4. TypeOK' /\ UsersCreated' /\ OneUser'
  <2>1. requests[r].pc \in {"revoke", "link"} => requests[r].user \in User
    BY DEF FlowsSound, FlowSound, TypeOK
  <2>2. lapsed' \subseteq User /\ stranded' \subseteq User
    BY <1>2, <2>1 DEF TypeOK
  <2>. QED
    BY <1>1, <1>2, <2>2 DEF TypeOK, UsersCreated, OneUser, Exists
<1>5. FlowSound(r)' /\ TokenKept(r)
  BY <1>1, IdleTyped DEF FlowSound, TokenKept, Tokened, Claiming, Inviting
<1>6. OldPasswordOnlyByRace'
  BY <1>1, <1>2, PasswordsKept
<1>7. EveryUserHasAWayIn'
  BY <1>1, <1>2, WaysKept DEF Exists
<1>. QED
  BY <1>1, <1>2, <1>3, <1>4, <1>5, <1>6, <1>7, Calm

-----------------------------------------------------------------------------
(* Sessions, passwords, addresses and links that come.                     *)

LEMMA IssueStep ==
  ASSUME IInv, NEW r \in Request, Issue(r)
  PROVE  IInv'
<1>. USE DEF IInv
<1>1. requests[r].pc = "issue"
  BY DEF Issue
<1>2. CASE End(r)
  BY <1>1, <1>2, EndStep
<1>3. CASE ~End(r)
  <2>1. PICK u \in User : u = requests[r].user /\ u \in created
    BY <1>1 DEF FlowsSound, FlowSound, TypeOK
  <2>2. PICK p \in Password \cup {Nil}, a \in Account \cup {Nil} :
           p = requests[r].password /\ a = requests[r].account
    BY DEF TypeOK, Local
  <2>. DEFINE s == [user |-> u, password |-> p, account |-> a]
  <2>3. /\ Exists(u) /\ sessions' = sessions \cup {s}
        /\ lapsed' = IF p \in {Nil, users[u].password} THEN lapsed ELSE lapsed \cup {u}
        /\ UNCHANGED <<offers, atomicConsume, autoLink, users, tokens, accounts, drawn, issued,
                       spent, respent, opened, resets, created, moved, origin, vouched, stranded>>
    BY <1>3, <2>1, <2>2 DEF Issue, config, tokenHistory
  <2>4. s \in Session /\ s.user = u /\ s.password = p /\ s.account = a
    BY DEF Session
  <2>. HIDE DEF s
  <2>5. /\ requests' \in [Request -> Local] /\ requests'[r] = Idle
        /\ \A x \in Request : x # r => requests'[x] = requests[x]
    BY <1>3, IdleTyped, Landed DEF Issue, Finish
  <2>6. Steady
    BY <2>3 DEF Steady
  <2>7. TypeOK' /\ UsersCreated' /\ OneUser'
    BY <2>3, <2>4, <2>5 DEF TypeOK, UsersCreated, OneUser, Exists
  <2>8. FlowSound(r)' /\ TokenKept(r)
    BY <2>5, IdleTyped DEF FlowSound, TokenKept, Tokened, Claiming, Inviting
  <2>9. ProviderSignInsVouched'
    <3>1. a # Nil => Vouched(a, u)
      BY <1>1, <2>1, <2>2 DEF FlowsSound, FlowSound
    <3>. QED
      BY <2>3, <2>4, <3>1 DEF ProviderSignInsVouched, Vouched
  <2>10. OldPasswordOnlyByRace'
    <3>. SUFFICES ASSUME NEW x \in sessions'
         PROVE  \/ x.password \in {Nil, users'[x.user].password}
                \/ x.user \in lapsed'
                \/ \E y \in Request : requests'[y].pc = "revoke" /\ requests'[y].user = x.user
      BY DEF OldPasswordOnlyByRace
    <3>1. CASE x = s
      BY <2>3, <2>4, <3>1
    <3>2. CASE x \in sessions
      BY <1>1, <2>3, <2>5, <3>2 DEF OldPasswordOnlyByRace
    <3>. QED
      BY <2>3, <3>1, <3>2
  <2>11. EveryUserHasAWayIn'
    BY <1>1, <2>3, <2>5, WaysKept DEF Exists
  <2>. QED
    BY <2>3, <2>5, <2>6, <2>7, <2>8, <2>9, <2>10, <2>11, LinksKept, ResetsKept, Tokenless
<1>. QED
  BY <1>2, <1>3

\* One field of a user's row is written: a password or an address.
LEMMA RowWritten ==
  ASSUME TypeOK, NEW u \in User, Exists(u), NEW p \in Password \cup {Nil}, NEW e \in Email,
         \/ users' = [users EXCEPT ![u].password = p] /\ e = users[u].email
         \/ users' = [users EXCEPT ![u].email = e] /\ p = users[u].password
  PROVE  /\ users' \in [User -> UserRow \cup {NoUser}]
         /\ Exists(u)' /\ users'[u].password = p /\ users'[u].email = e
         /\ \A v \in User : v # u => users'[v] = users[v]
<1>1. users[u] \in UserRow
  BY DEF TypeOK, Exists
<1>2. CASE users' = [users EXCEPT ![u].password = p] /\ e = users[u].email
  <2>1. /\ [users[u] EXCEPT !.password = p] \in UserRow
        /\ [users[u] EXCEPT !.password = p].password = p
        /\ [users[u] EXCEPT !.password = p].email = e
    BY <1>1, <1>2 DEF UserRow
  <2>2. /\ users'[u] = [users[u] EXCEPT !.password = p]
        /\ \A v \in User : v # u => users'[v] = users[v]
        /\ users' = [users EXCEPT ![u] = [users[u] EXCEPT !.password = p]]
    BY <1>2 DEF TypeOK
  <2>. QED
    BY <2>1, <2>2 DEF TypeOK, Exists
<1>3. CASE users' = [users EXCEPT ![u].email = e] /\ p = users[u].password
  <2>1. /\ [users[u] EXCEPT !.email = e] \in UserRow
        /\ [users[u] EXCEPT !.email = e].password = p
        /\ [users[u] EXCEPT !.email = e].email = e
    BY <1>1, <1>3 DEF UserRow
  <2>2. /\ users'[u] = [users[u] EXCEPT !.email = e]
        /\ \A v \in User : v # u => users'[v] = users[v]
        /\ users' = [users EXCEPT ![u] = [users[u] EXCEPT !.email = e]]
    BY <1>3 DEF TypeOK
  <2>. QED
    BY <2>1, <2>2 DEF TypeOK, Exists
<1>. QED
  BY <1>2, <1>3

LEMMA StorePasswordStep ==
  ASSUME IInv, NEW r \in Request, StorePassword(r)
  PROVE  IInv'
<1>. USE DEF IInv
<1>1. requests[r].pc = "store"
  BY DEF StorePassword
<1>2. CASE End(r)
  BY <1>1, <1>2, EndStep
<1>3. CASE ~End(r)
  <2>1. PICK u \in User : u = requests[r].user /\ u \in created
    BY <1>1 DEF FlowsSound, FlowSound, TypeOK
  <2>2. PICK p \in Password : p = requests[r].password
    BY <1>1 DEF FlowsSound, FlowSound
  <2>3. PICK t \in Token \cup {Nil} : t = requests[r].token
    BY DEF TypeOK, Local
  <2>4. /\ Exists(u) /\ users' = [users EXCEPT ![u].password = p]
        /\ resets' = IF t = Nil THEN resets ELSE resets \cup {<<t, u>>}
        /\ lapsed' = IF requests[r].flag THEN lapsed \cup {u} ELSE lapsed
        /\ UNCHANGED <<offers, atomicConsume, autoLink, sessions, tokens, accounts, drawn, issued,
                       spent, respent, opened, created, moved, origin, vouched, stranded>>
    BY <1>3, <2>1, <2>2, <2>3 DEF StorePassword, config
  <2>5. /\ users' \in [User -> UserRow \cup {NoUser}]
        /\ Exists(u)' /\ users'[u].password = p /\ users'[u].email = users[u].email
        /\ \A v \in User : v # u => users'[v] = users[v]
    <3>1. users[u].email \in Email
      BY <2>4 DEF TypeOK, UserRow, Exists
    <3>. QED
      BY <2>4, <3>1, RowWritten
  <2>6. \E q \in Local :
           /\ requests'[r] = q
           /\ IF requests[r].flag THEN q.pc = "idle" ELSE q.pc = "revoke" /\ q.user = u
    <3>1. Goto(r, AfterStore(requests[r]))
      BY <1>3 DEF StorePassword
    <3>2. requests'[r] = AfterStore(requests[r])
      BY <3>1, Landed
    <3>3. "revoke" \in PC
      BY DEF PC
    <3>. QED
      BY <2>1, <3>2, <3>3, IdleTyped, Further DEF AfterStore
  <2>7. PICK q \in Local :
           /\ requests'[r] = q
           /\ IF requests[r].flag THEN q.pc = "idle" ELSE q.pc = "revoke" /\ q.user = u
    BY <2>6
  <2>8. /\ requests' \in [Request -> Local]
        /\ \A x \in Request : x # r => requests'[x] = requests[x]
    <3>1. Goto(r, AfterStore(requests[r]))
      BY <1>3 DEF StorePassword
    <3>. QED
      BY <2>7, <3>1, Landed
  <2>9. \A v \in User : Exists(v)' <=> Exists(v)
    BY <2>4, <2>5 DEF Exists
  <2>10. Steady
    BY <2>4, <2>5 DEF Steady, TypeOK, Exists
  <2>11. TypeOK' /\ UsersCreated' /\ OneUser'
    <3>1. resets' \subseteq Token \X User
      BY <2>4 DEF TypeOK
    <3>2. \A s \in sessions : s.user \in User
      BY DEF TypeOK, Session
    <3>3. lapsed' \subseteq User
      BY <2>4 DEF TypeOK
    <3>4. accounts' \in [Account -> {v \in User : Exists(v)'} \cup {Nil}]
      BY <2>4, <2>9 DEF TypeOK
    <3>5. TypeOK'
      BY <2>4, <2>5, <2>8, <2>9, <3>1, <3>2, <3>3, <3>4 DEF TypeOK
    <3>. QED
      BY <2>4, <2>5, <2>9, <3>5 DEF UsersCreated, OneUser
  <2>12. FlowSound(r)' /\ TokenKept(r)
    BY <2>1, <2>4, <2>7 DEF FlowSound, TokenKept, Tokened, Claiming, Inviting
  <2>13. ResetsSound'
    <3>1. t # Nil => ResetSound(t, u)
      BY <1>1, <2>1, <2>3 DEF FlowsSound, FlowSound
    <3>2. t # Nil => ResetSound(t, u)'
      BY <2>10, <3>1, ResetKept
    <3>3. \A x \in resets : ResetSound(x[1], x[2])'
      BY <2>10, ResetKept DEF ResetsSound
    <3>. QED
      BY <2>4, <3>2, <3>3 DEF ResetsSound
  <2>14. OldPasswordOnlyByRace'
    <3>. SUFFICES ASSUME NEW s \in sessions
         PROVE  \/ s.password \in {Nil, users'[s.user].password}
                \/ s.user \in lapsed'
                \/ \E x \in Request : requests'[x].pc = "revoke" /\ requests'[x].user = s.user
      BY <2>4 DEF OldPasswordOnlyByRace
    <3>1. CASE s.user = u
      BY <2>4, <2>7, <3>1
    <3>2. CASE s.user # u
      <4>1. users'[s.user] = users[s.user]
        BY <2>5, <3>2 DEF TypeOK, Session
      <4>2. ASSUME NEW x \in Request, requests[x].pc = "revoke"
            PROVE  requests'[x] = requests[x]
        BY <1>1, <2>8, <4>2
      <4>. QED
        BY <2>4, <4>1, <4>2 DEF OldPasswordOnlyByRace
    <3>. QED
      BY <3>1, <3>2
  <2>15. EveryUserHasAWayIn'
    BY <1>1, <2>4, <2>5, <2>8, <2>9, WaysKept
  <2>. QED
    BY <2>4, <2>8, <2>10, <2>11, <2>12, <2>13, <2>14, <2>15, LinksKept, SignInsKept, Tokenless
<1>. QED
  BY <1>2, <1>3

LEMMA UpdateUserStep ==
  ASSUME IInv, NEW u \in User, NEW e \in Email, UpdateUser(u, e)
  PROVE  IInv'
<1>. USE DEF IInv
<1>1. /\ Exists(u) /\ AddressFree(e)
      /\ users' = [users EXCEPT ![u].email = e] /\ moved' = moved \cup {u}
      /\ UNCHANGED <<offers, atomicConsume, autoLink, sessions, tokens, accounts, requests, drawn,
                     issued, spent, respent, opened, resets, created, lapsed, origin, vouched, stranded>>
  BY DEF UpdateUser, config, tokenHistory
<1>2. /\ users' \in [User -> UserRow \cup {NoUser}]
      /\ Exists(u)' /\ users'[u].password = users[u].password /\ users'[u].email = e
      /\ \A v \in User : v # u => users'[v] = users[v]
  <2>1. users[u].password \in Password \cup {Nil}
    BY <1>1 DEF TypeOK, UserRow, Exists
  <2>. QED
    BY <1>1, <2>1, RowWritten
<1>3. \A v \in User : Exists(v)' <=> Exists(v)
  BY <1>1, <1>2 DEF Exists
<1>4. Steady
  BY <1>1, <1>2 DEF Steady, TypeOK, Exists
<1>5. TypeOK' /\ UsersCreated'
  <2>1. \A s \in sessions : s.user \in User
    BY DEF TypeOK, Session
  <2>2. accounts' \in [Account -> {v \in User : Exists(v)'} \cup {Nil}]
    BY <1>1, <1>3 DEF TypeOK
  <2>. QED
    BY <1>1, <1>2, <1>3, <2>1, <2>2 DEF TypeOK, UsersCreated
<1>6. OneUser'
  <2>1. \A v \in User : Exists(v) => users[v].email # e
    BY <1>1 DEF AddressFree, HasEmail
  <2>. QED
    BY <1>2, <1>3, <2>1 DEF OneUser
<1>7. OldPasswordOnlyByRace'
  <2>1. \A s \in sessions : users'[s.user].password = users[s.user].password
    BY <1>2 DEF TypeOK, Session
  <2>. QED
    BY <1>1, <2>1, PasswordsKept
<1>8. EveryUserHasAWayIn'
  BY <1>1, <1>2, <1>3, WaysKept
<1>. QED
  BY <1>1, <1>4, <1>5, <1>6, <1>7, <1>8, Calm

LEMMA LinkStep ==
  ASSUME IInv, NEW r \in Request, Link(r)
  PROVE  IInv'
<1>. USE DEF IInv
<1>1. requests[r].pc = "link"
  BY DEF Link
<1>2. PICK u \in User, a \in Account :
         /\ u = requests[r].user /\ a = requests[r].account /\ u \in created
         /\ Vouched(a, u)
  BY <1>1 DEF FlowsSound, FlowSound, TypeOK
<1>3. CASE LinkRefused(requests[r])
  <2>1. /\ stranded' = stranded \cup {u}
        /\ UNCHANGED <<offers, atomicConsume, autoLink, users, sessions, tokens, accounts, drawn,
                       issued, spent, respent, opened, resets, created, moved, lapsed, origin, vouched>>
    BY <1>2, <1>3 DEF Link, config, tables, tokenHistory
  <2>2. /\ requests' \in [Request -> Local] /\ requests'[r] = Idle
        /\ \A x \in Request : x # r => requests'[x] = requests[x]
    BY <1>3, IdleTyped, Landed DEF Link, Finish
  <2>3. Steady
    BY <2>1 DEF Steady
  <2>4. TypeOK' /\ UsersCreated' /\ OneUser'
    BY <2>1, <2>2 DEF TypeOK, UsersCreated, OneUser, Exists
  <2>5. FlowSound(r)' /\ TokenKept(r)
    BY <2>2, IdleTyped DEF FlowSound, TokenKept, Tokened, Claiming, Inviting
  <2>6. OldPasswordOnlyByRace'
    BY <1>1, <2>1, <2>2, PasswordsKept
  <2>7. EveryUserHasAWayIn'
    BY <1>2, <2>1, <2>2, WaysKept DEF Exists
  <2>. QED
    BY <2>1, <2>2, <2>3, <2>4, <2>5, <2>6, <2>7, Calm
<1>4. CASE ~LinkRefused(requests[r])
  <2>1. /\ accounts[a] = Nil /\ Exists(u) /\ accounts' = [accounts EXCEPT ![a] = u]
        /\ UNCHANGED <<offers, atomicConsume, autoLink, users, sessions, tokens, drawn,
                       issued, spent, respent, opened, resets, created, moved, lapsed, origin, vouched,
                       stranded>>
    BY <1>2, <1>4 DEF Link, LinkRefused, config, tokenHistory, userHistory
  <2>. DEFINE q == [requests[r] EXCEPT !.pc = "issue"]
  <2>2. q \in Local /\ q.pc = "issue" /\ q.user = u /\ q.account = a
    BY <1>2, Further DEF PC
  <2>3. Goto(r, q)
    BY <1>4 DEF Link
  <2>. HIDE DEF q
  <2>4. /\ requests' \in [Request -> Local] /\ requests'[r] = q
        /\ \A x \in Request : x # r => requests'[x] = requests[x]
    BY <2>2, <2>3, Landed
  <2>5. Steady
    BY <2>1 DEF Steady
  <2>6. TypeOK' /\ UsersCreated' /\ OneUser'
    <3>1. accounts' \in [Account -> {v \in User : Exists(v)'} \cup {Nil}]
      BY <2>1 DEF TypeOK, Exists
    <3>. QED
      BY <2>1, <2>4, <3>1 DEF TypeOK, UsersCreated, OneUser, Exists
  <2>7. FlowSound(r)' /\ TokenKept(r)
    BY <1>2, <2>1, <2>2, <2>4 DEF FlowSound, TokenKept, Tokened, Claiming, Inviting, Vouched
  <2>8. LinksVouched'
    BY <1>2, <2>1 DEF LinksVouched, Vouched, TypeOK
  <2>9. OldPasswordOnlyByRace'
    BY <1>1, <2>1, <2>4, PasswordsKept
  <2>10. EveryUserHasAWayIn'
    <3>1. accounts'[a] = u
      BY <2>1 DEF TypeOK
    <3>2. ASSUME NEW v \in User, Exists(v)', v # u
          PROVE  \/ users'[v].password # Nil
                 \/ \E x \in Account : accounts'[x] = v
                 \/ v \in stranded'
                 \/ \E x \in Request : requests'[x].pc = "link" /\ requests'[x].user = v
      <4>1. \A x \in Account : accounts[x] = v => accounts'[x] = v
        BY <2>1 DEF TypeOK
      <4>2. \A x \in Request : requests[x].pc = "link" /\ requests[x].user = v => requests'[x] = requests[x]
        BY <1>2, <2>4, <3>2
      <4>. QED
        BY <2>1, <3>2, <4>1, <4>2 DEF EveryUserHasAWayIn, Exists
    <3>. QED
      BY <3>1, <3>2 DEF EveryUserHasAWayIn
  <2>. QED
    BY <2>1, <2>4, <2>5, <2>6, <2>7, <2>8, <2>9, <2>10, SignInsKept, ResetsKept, Tokenless
<1>. QED
  BY <1>3, <1>4

-----------------------------------------------------------------------------
(* Users that come.                                                        *)

LEMMA UserCreated ==
  ASSUME IInv, NEW u \in User, NEW row \in UserRow, CreateUser(u, row),
         UNCHANGED <<autoLink, atomicConsume, drawn, issued, tokens, spent, moved, vouched>>,
         \A v \in created : origin'[v] = origin[v]
  PROVE  /\ users' \in [User -> UserRow \cup {NoUser}]
         /\ users'[u] = row /\ Exists(u)' /\ u \notin created /\ created' = created \cup {u}
         /\ \A v \in User : v # u => users'[v] = users[v]
         /\ Steady /\ UsersCreated' /\ OneUser'
<1>. USE DEF IInv
<1>1. /\ users' = [users EXCEPT ![u] = row] /\ u \notin created /\ created' = created \cup {u}
      /\ AddressFree(row.email)
  BY DEF CreateUser
<1>2. /\ users' \in [User -> UserRow \cup {NoUser}]
      /\ users'[u] = row /\ Exists(u)'
      /\ \A v \in User : v # u => users'[v] = users[v]
  BY <1>1 DEF TypeOK, Exists
<1>3. Steady
  BY <1>1, <1>2 DEF Steady, TypeOK
<1>4. UsersCreated'
  BY <1>1, <1>2 DEF UsersCreated, Exists
<1>5. OneUser'
  <2>1. \A v \in User : v # u /\ users'[v] # NoUser => users'[v].email # row.email
    BY <1>1, <1>2 DEF AddressFree, HasEmail, Exists
  <2>. QED
    BY <1>2, <2>1 DEF OneUser, Exists
<1>. QED
  BY <1>1, <1>2, <1>3, <1>4, <1>5

\* What the creation of a user leaves of the other parts.
LEMMA CreationKept ==
  ASSUME IInv, NEW r \in Request, NEW u \in User, u \notin created, created' = created \cup {u},
         users' \in [User -> UserRow \cup {NoUser}], Exists(u)',
         \A v \in User : v # u => users'[v] = users[v],
         UNCHANGED <<offers, atomicConsume, autoLink, sessions, tokens, accounts, drawn, issued,
                     spent, respent, resets, moved, lapsed, vouched, stranded>>,
         opened' \in [Token -> SUBSET created'],
         origin' \in [User -> Account \cup {Nil}],
         requests' \in [Request -> Local],
         \A x \in Request : x # r => requests'[x] = requests[x],
         requests[r].pc \notin {"revoke", "link"},
         \/ users'[u].password # Nil
         \/ requests'[r].pc = "link" /\ requests'[r].user = u
  PROVE  TypeOK' /\ OldPasswordOnlyByRace' /\ EveryUserHasAWayIn'
<1>. USE DEF IInv
<1>1. \A v \in User : Exists(v)' <=> v = u \/ Exists(v)
  BY DEF Exists
<1>2. TypeOK'
  <2>1. accounts' \in [Account -> {v \in User : Exists(v)'} \cup {Nil}]
    BY <1>1 DEF TypeOK
  <2>2. \A s \in sessions' : Exists(s.user)'
    BY <1>1 DEF TypeOK, Session
  <2>. QED
    BY <2>1, <2>2 DEF TypeOK
<1>3. OldPasswordOnlyByRace'
  <2>1. \A s \in sessions : users'[s.user] = users[s.user]
    BY DEF TypeOK, Session, UsersCreated
  <2>. QED
    BY <2>1, PasswordsKept
<1>4. EveryUserHasAWayIn'
  <2>1. ASSUME NEW v \in User, Exists(v)', v # u
        PROVE  \/ users'[v].password # Nil
               \/ \E a \in Account : accounts'[a] = v
               \/ v \in stranded'
               \/ \E x \in Request : requests'[x].pc = "link" /\ requests'[x].user = v
    <3>1. \A x \in Request : requests[x].pc = "link" => requests'[x] = requests[x]
      OBVIOUS
    <3>. QED
      BY <1>1, <2>1, <3>1 DEF EveryUserHasAWayIn
  <2>. QED
    BY <2>1 DEF EveryUserHasAWayIn
<1>. QED
  BY <1>2, <1>3, <1>4

LEMMA CreateRegisteredStep ==
  ASSUME IInv, NEW r \in Request, CreateRegistered(r)
  PROVE  IInv'
<1>. USE DEF IInv
<1>1. requests[r].pc = "register"
  BY DEF CreateRegistered
<1>2. CASE End(r)
  BY <1>1, <1>2, EndStep
<1>3. CASE ~End(r)
  <2>. DEFINE row == [email |-> requests[r].email, password |-> requests[r].password]
  <2>1. PICK u \in User : CreateUser(u, row)
    BY <1>3 DEF CreateRegistered
  <2>2. row \in UserRow /\ row.password # Nil
    BY <1>1 DEF FlowsSound, FlowSound, UserRow
  <2>. HIDE DEF row
  <2>3. UNCHANGED <<offers, atomicConsume, autoLink, sessions, tokens, accounts, drawn, issued,
                    spent, respent, opened, resets, moved, lapsed, origin, vouched, stranded>>
    BY <1>3 DEF CreateRegistered, config, tokenHistory
  <2>4. /\ requests' \in [Request -> Local] /\ requests'[r] = Idle
        /\ \A x \in Request : x # r => requests'[x] = requests[x]
    BY <1>3, IdleTyped, Landed DEF CreateRegistered, Finish
  <2>5. /\ users' \in [User -> UserRow \cup {NoUser}]
        /\ users'[u] = row /\ Exists(u)' /\ u \notin created /\ created' = created \cup {u}
        /\ \A v \in User : v # u => users'[v] = users[v]
        /\ Steady /\ UsersCreated' /\ OneUser'
    BY <2>1, <2>2, <2>3, UserCreated
  <2>6. opened' \in [Token -> SUBSET created'] /\ origin' \in [User -> Account \cup {Nil}]
    BY <2>3, <2>5 DEF TypeOK
  <2>7. TypeOK' /\ OldPasswordOnlyByRace' /\ EveryUserHasAWayIn'
    BY <1>1, <2>2, <2>3, <2>4, <2>5, <2>6, CreationKept
  <2>8. FlowSound(r)' /\ TokenKept(r)
    BY <2>4, IdleTyped DEF FlowSound, TokenKept, Tokened, Claiming, Inviting
  <2>. QED
    BY <2>3, <2>4, <2>5, <2>7, <2>8, Calm
<1>. QED
  BY <1>2, <1>3

LEMMA ProvisionStep ==
  ASSUME IInv, NEW r \in Request, Provision(r)
  PROVE  IInv'
<1>. USE DEF IInv
<1>1. requests[r].pc = "provision"
  BY DEF Provision
<1>2. CASE End(r)
  BY <1>1, <1>2, EndStep
<1>3. CASE ~End(r)
  <2>. DEFINE row == [email |-> requests[r].email, password |-> Nil]
  <2>1. PICK u \in User :
           /\ CreateUser(u, row)
           /\ origin' = [origin EXCEPT ![u] = requests[r].account]
           /\ Goto(r, [requests[r] EXCEPT !.pc = "link", !.user = u])
    BY <1>3 DEF Provision
  <2>2. row \in UserRow
    BY <1>1 DEF FlowsSound, FlowSound, UserRow
  <2>. HIDE DEF row
  <2>3. UNCHANGED <<offers, atomicConsume, autoLink, sessions, tokens, accounts, drawn, issued,
                    spent, respent, opened, resets, moved, lapsed, vouched, stranded>>
    BY <1>3 DEF Provision, config, tokenHistory
  <2>. DEFINE q == [requests[r] EXCEPT !.pc = "link", !.user = u]
  <2>4. q \in Local /\ q.pc = "link" /\ q.user = u /\ q.account = requests[r].account
    <3>1. requests[r] \in Local
      BY DEF TypeOK
    <3>. QED
      BY <3>1 DEF Local, PC
  <2>. HIDE DEF q
  <2>5. /\ requests' \in [Request -> Local] /\ requests'[r] = q
        /\ \A x \in Request : x # r => requests'[x] = requests[x]
    BY <2>1, <2>4, Landed DEF q
  <2>6. PICK a \in Account : a = requests[r].account
    BY <1>1 DEF FlowsSound, FlowSound
  <2>7. /\ origin' \in [User -> Account \cup {Nil}] /\ origin'[u] = a
        /\ \A v \in User : v # u => origin'[v] = origin[v]
    BY <2>1, <2>6 DEF TypeOK
  <2>8. /\ users' \in [User -> UserRow \cup {NoUser}]
        /\ users'[u] = row /\ Exists(u)' /\ u \notin created /\ created' = created \cup {u}
        /\ \A v \in User : v # u => users'[v] = users[v]
        /\ Steady /\ UsersCreated' /\ OneUser'
    <3>1. \A v \in created : origin'[v] = origin[v]
      BY <2>1, <2>7 DEF CreateUser, TypeOK
    <3>. QED
      BY <2>1, <2>2, <2>3, <3>1, UserCreated
  <2>9. opened' \in [Token -> SUBSET created']
    BY <2>3, <2>8 DEF TypeOK
  <2>10. TypeOK' /\ OldPasswordOnlyByRace' /\ EveryUserHasAWayIn'
    BY <1>1, <2>3, <2>4, <2>5, <2>7, <2>8, <2>9, CreationKept
  <2>11. FlowSound(r)' /\ TokenKept(r)
    BY <2>4, <2>5, <2>6, <2>7, <2>8 DEF FlowSound, TokenKept, Tokened, Claiming, Inviting, Vouched
  <2>. QED
    BY <2>3, <2>5, <2>8, <2>10, <2>11, Calm
<1>. QED
  BY <1>2, <1>3

LEMMA CreateInvitedStep ==
  ASSUME IInv, NEW r \in Request, CreateInvited(r)
  PROVE  IInv'
<1>. USE DEF IInv
<1>1. requests[r].pc = "invited"
  BY DEF CreateInvited
<1>2. CASE End(r)
  BY <1>1, <1>2, EndStep
<1>3. CASE ~End(r)
  <2>1. PICK t \in Token : t = requests[r].token /\ t \in drawn
    BY <1>1 DEF FlowsSound, FlowSound, Tokened, Inviting, TypeOK
  <2>. DEFINE row == [email |-> requests[r].email, password |-> requests[r].password]
  <2>2. PICK u \in User :
           /\ CreateUser(u, row)
           /\ opened' = [opened EXCEPT ![t] = @ \cup {u}]
           /\ Goto(r, IF requests[r].flag THEN [requests[r] EXCEPT !.pc = "issue", !.user = u] ELSE Idle)
    BY <1>3, <2>1 DEF CreateInvited
  <2>3. /\ row \in UserRow /\ row.password # Nil /\ row.email = requests[r].email
        /\ requests[r].account = Nil
    BY <1>1 DEF FlowsSound, FlowSound, Tokened, Inviting, UserRow
  <2>. HIDE DEF row
  <2>4. UNCHANGED <<offers, atomicConsume, autoLink, sessions, tokens, accounts, drawn, issued,
                    spent, respent, resets, moved, lapsed, origin, vouched, stranded>>
    BY <1>3 DEF CreateInvited, config
  <2>5. \E q \in Local :
           /\ Goto(r, q)
           /\ q.pc = "idle" \/ (q.pc = "issue" /\ q.user = u /\ q.account = Nil)
    <3>. DEFINE k == [requests[r] EXCEPT !.pc = "issue", !.user = u]
    <3>1. requests[r] \in Local
      BY DEF TypeOK
    <3>2. k \in Local /\ k.pc = "issue" /\ k.user = u /\ k.account = Nil
      BY <2>3, <3>1 DEF Local, PC
    <3>3. Goto(r, k) \/ Goto(r, Idle)
      BY <2>2
    <3>. HIDE DEF k
    <3>. QED
      BY <3>2, <3>3, IdleTyped
  <2>6. PICK q \in Local :
           /\ Goto(r, q)
           /\ q.pc = "idle" \/ (q.pc = "issue" /\ q.user = u /\ q.account = Nil)
    BY <2>5
  <2>7. /\ requests' \in [Request -> Local] /\ requests'[r] = q
        /\ \A x \in Request : x # r => requests'[x] = requests[x]
    BY <2>6, Landed
  <2>8. /\ users' \in [User -> UserRow \cup {NoUser}]
        /\ users'[u] = row /\ Exists(u)' /\ u \notin created /\ created' = created \cup {u}
        /\ \A v \in User : v # u => users'[v] = users[v]
        /\ Steady /\ UsersCreated' /\ OneUser'
    BY <2>2, <2>3, <2>4, UserCreated
  <2>9. /\ opened' \in [Token -> SUBSET created'] /\ origin' \in [User -> Account \cup {Nil}]
        /\ opened'[t] = opened[t] \cup {u}
        /\ \A x \in Token : x # t => opened'[x] = opened[x]
    BY <2>2, <2>4, <2>8 DEF TypeOK
  <2>10. TypeOK' /\ OldPasswordOnlyByRace' /\ EveryUserHasAWayIn'
    BY <1>1, <2>3, <2>4, <2>7, <2>8, <2>9, CreationKept
  <2>11. FlowsSound'
    <3>1. FlowSound(r)'
      BY <2>6, <2>7, <2>8 DEF FlowSound, Tokened, Claiming, Inviting
    <3>. QED
      BY <2>7, <2>8, <3>1, FlowKept DEF FlowsSound
  <2>12. TokensAddressed'
    <3>1. \A x \in Request : requests'[x].pc \in Tokened => requests'[x] = requests[x]
      BY <2>6, <2>7 DEF Tokened, Claiming, Inviting
    <3>2. requests[r].pc \in Tokened /\ users'[u].email = requests[r].email
      BY <1>1, <2>3, <2>8 DEF Tokened, Inviting
    <3>3. \A x \in Token : \A v \in opened'[x] :
             \/ v \in opened[x]
             \/ \E y \in Request : /\ requests[y].pc \in Tokened /\ requests[y].token = x
                                   /\ users'[v].email = requests[y].email
      BY <2>1, <2>9, <3>2
    <3>. QED
      BY <2>4, <2>8, <3>1, <3>3, AddressedKept
  <2>13. ConsumedOnce'
    <3>1. CASE ~atomicConsume
      BY <2>4, <3>1 DEF ConsumedOnce
    <3>2. CASE atomicConsume
      <4>1. /\ opened[t] = {} /\ t \in spent
            /\ \A x \in Request : x # r /\ requests[x].pc \in Inviting => requests[x].token # t
        BY <1>1, <2>1, <3>2 DEF ConsumedOnce, Inviting, Tokened
      <4>2. \A x \in Request : requests'[x].pc \in Tokened => x # r /\ requests'[x] = requests[x]
        BY <2>6, <2>7 DEF Tokened, Claiming, Inviting
      <4>3. /\ \A x \in Token : /\ tokens'[x] # NoToken => x \notin spent'
                                /\ opened'[x] # {} => x \in spent'
                                /\ \A v, w \in opened'[x] : v = w
            /\ respent' = {}
        BY <2>4, <2>9, <3>2, <4>1 DEF ConsumedOnce
      <4>4. \A x \in Request :
              /\ requests'[x].pc \notin Claiming
              /\ requests'[x].pc \in Tokened => requests'[x].token \in spent'
              /\ requests'[x].pc \in Inviting => opened'[requests'[x].token] = {}
        <5>1. ASSUME NEW x \in Request, requests'[x].pc \in Tokened
              PROVE  /\ requests'[x].pc \notin Claiming
                     /\ requests'[x].token \in spent' /\ requests'[x].token \in Token
                     /\ requests'[x].pc \in Inviting =>
                          opened[requests'[x].token] = {} /\ requests'[x].token # t
          BY <2>4, <3>2, <4>1, <4>2, <5>1 DEF ConsumedOnce, TypeOK
        <5>. QED
          BY <2>9, <5>1 DEF Tokened
      <4>5. \A x, y \in Request :
              /\ requests'[x].pc \in Inviting /\ requests'[y].pc \in Inviting
              /\ requests'[x].token = requests'[y].token
              => x = y
        BY <3>2, <4>2 DEF ConsumedOnce, Tokened
      <4>. QED
        BY <4>3, <4>4, <4>5, ConsumedOnceThen
    <3>. QED
      BY <3>1, <3>2
  <2>. QED
    BY <2>4, <2>8, <2>10, <2>11, <2>12, <2>13, LinksKept, SignInsKept, ResetsKept
<1>. QED
  BY <1>2, <1>3

-----------------------------------------------------------------------------
(* Tokens that are drawn, and tokens that are accepted.                    *)

LEMMA DrawStep ==
  ASSUME IInv, NEW r \in Request, NEW t \in Token, NEW e \in Email, NEW kind \in {"reset", "invite"},
         DrawToken(t, kind, e), Finish(r),
         requests[r].pc \in {"mailReset", "mailInvite"},
         UNCHANGED <<config, users, sessions, accounts, spent, respent, opened, resets, userHistory>>,
         \/ kind = "invite" /\ issued' = issued
         \/ \E u \in created : /\ Keeps(u, e) /\ issued' = [issued EXCEPT ![t] = u]
  PROVE  IInv'
<1>. USE DEF IInv
<1>1. /\ requests' \in [Request -> Local] /\ requests'[r] = Idle
      /\ \A x \in Request : x # r => requests'[x] = requests[x]
  BY IdleTyped, Landed DEF Finish
<1>2. UNCHANGED <<offers, atomicConsume, autoLink, users, sessions, accounts, spent, respent, opened,
                  resets, created, moved, lapsed, origin, vouched, stranded>>
  BY DEF config, userHistory
<1>3. t \notin drawn /\ drawn' = drawn \cup {t}
  BY DEF DrawToken
<1>4. /\ tokens' \in [Token -> TokenRow \cup {NoToken}]
      /\ tokens'[t] # NoToken /\ tokens'[t].email = e /\ tokens'[t].kind = kind
      /\ \A x \in Token : x # t => tokens'[x] = tokens[x]
  <2>1. [kind |-> kind, email |-> e] \in TokenRow
    BY DEF TokenRow
  <2>. QED
    BY <2>1 DEF DrawToken, TypeOK
<1>5. /\ issued' \in [Token -> User \cup {Nil}]
      /\ \A x \in Token : x # t => issued'[x] = issued[x]
      /\ kind = "reset" => issued'[t] # Nil
      /\ issued'[t] = issued[t] \/ (issued'[t] \in created /\ Keeps(issued'[t], e))
  BY DEF TypeOK
<1>6. Steady
  BY <1>2, <1>3, <1>4, <1>5 DEF Steady, TypeOK
<1>7. TypeOK' /\ UsersCreated' /\ OneUser'
  BY <1>1, <1>2, <1>3, <1>4, <1>5 DEF TypeOK, UsersCreated, OneUser, Exists
<1>8. FlowsSound'
  <2>1. FlowSound(r)'
    BY <1>1, IdleTyped DEF FlowSound, Tokened, Claiming, Inviting
  <2>. QED
    BY <1>1, <1>6, <2>1, FlowKept DEF FlowsSound
<1>9. TokensAddressed'
  <2>1. PICK addr \in [Token -> Email \cup {Nil}] : Addressed(addr)
    BY DEF TokensAddressed
  <2>2. PICK later \in [Token -> Email \cup {Nil}] :
           later[t] = e /\ \A x \in Token : x # t => later[x] = addr[x]
    <3>1. [addr EXCEPT ![t] = e] \in [Token -> Email \cup {Nil}]
      OBVIOUS
    <3>. QED
      BY <3>1
  <2>3. ASSUME NEW x \in Token
        PROVE  /\ tokens'[x] # NoToken =>
                     /\ x \in drawn' /\ tokens'[x].email = later[x]
                     /\ tokens'[x].kind = "reset" => issued'[x] # Nil
               /\ x \notin drawn' => issued'[x] = Nil /\ opened'[x] = {}
               /\ issued'[x] # Nil => issued'[x] \in created' /\ Keeps(issued'[x], later[x])
               /\ \A u \in opened'[x] : Keeps(u, later[x])
    <3>1. CASE x = t
      BY <1>2, <1>3, <1>4, <1>5, <2>1, <2>2, <3>1 DEF Addressed
    <3>2. CASE x # t
      BY <1>2, <1>3, <1>4, <1>5, <2>1, <2>2, <3>2 DEF Addressed
    <3>. QED
      BY <3>1, <3>2
  <2>4. ASSUME NEW x \in Request, requests'[x].pc \in Tokened
        PROVE  requests'[x].email = later[requests'[x].token]
    <3>1. x # r /\ requests'[x] = requests[x] /\ requests[x].pc \in Tokened
      BY <1>1, <2>4, IdleTyped DEF Tokened, Claiming, Inviting
    <3>2. requests[x].token \in drawn
      BY <3>1 DEF FlowsSound, FlowSound
    <3>3. requests[x].email = addr[requests[x].token]
      BY <2>1, <3>1 DEF Addressed
    <3>. QED
      BY <1>3, <2>2, <3>1, <3>2, <3>3 DEF TypeOK
  <2>. HIDE DEF IInv
  <2>5. Addressed(later)'
    BY <1>2, <2>3, <2>4 DEF Addressed, Keeps, Exists
  <2>. QED
    BY <2>5 DEF TokensAddressed
<1>10. ConsumedOnce'
  <2>1. ASSUME atomicConsume, NEW x \in Request, requests'[x].pc \in Tokened
        PROVE  /\ x # r /\ requests'[x] = requests[x] /\ requests[x].pc \notin Claiming
               /\ requests[x].token \in spent
               /\ requests[x].pc \in Inviting => opened[requests[x].token] = {}
    BY <1>1, <2>1, IdleTyped DEF ConsumedOnce, Tokened, Claiming, Inviting
  <2>2. ASSUME atomicConsume, NEW x \in Token
        PROVE  tokens'[x] # NoToken => x \notin spent
    <3>1. t \notin spent
      BY <1>3 DEF TypeOK
    <3>. QED
      BY <1>4, <2>2, <3>1 DEF ConsumedOnce
  <2>3. ASSUME atomicConsume, NEW x \in Request, NEW y \in Request,
               requests'[x].pc \in Inviting, requests'[y].pc \in Inviting,
               requests'[x].token = requests'[y].token
        PROVE  x = y
    BY <2>1, <2>3 DEF ConsumedOnce, Tokened
  <2>4. atomicConsume =>
           /\ respent = {}
           /\ \A x \in Token : /\ opened[x] # {} => x \in spent
                               /\ \A u, v \in opened[x] : u = v
    BY DEF ConsumedOnce
  <2>. HIDE DEF IInv
  <2>. QED
    BY <1>2, <2>1, <2>2, <2>3, <2>4 DEF ConsumedOnce, Tokened
<1>11. OldPasswordOnlyByRace' /\ EveryUserHasAWayIn'
  BY <1>1, <1>2, PasswordsKept, WaysKept DEF Exists
<1>. QED
  BY <1>2, <1>6, <1>7, <1>8, <1>9, <1>10, <1>11, LinksKept, SignInsKept, ResetsKept

LEMMA MailSteps ==
  ASSUME IInv, NEW r \in Request, MailReset(r) \/ MailInvite(r)
  PROVE  IInv'
<1>. USE DEF IInv
<1>1. requests[r].pc \in {"mailReset", "mailInvite"}
  BY DEF MailReset, MailInvite
<1>2. PICK e \in Email : e = requests[r].email
  BY <1>1 DEF FlowsSound, FlowSound
<1>3. CASE MailReset(r)
  <2>1. PICK t \in Token :
           DrawToken(t, "reset", e) /\ issued' = [issued EXCEPT ![t] = requests[r].user]
    BY <1>2, <1>3 DEF MailReset
  <2>2. requests[r].user \in created /\ Keeps(requests[r].user, e)
    BY <1>2, <1>3 DEF MailReset, FlowsSound, FlowSound
  <2>3. \E u \in created : Keeps(u, e) /\ issued' = [issued EXCEPT ![t] = u]
    BY <2>1, <2>2
  <2>. QED
    BY <1>1, <1>3, <2>1, <2>3, DrawStep DEF MailReset
<1>4. CASE MailInvite(r)
  BY <1>1, <1>2, <1>4, DrawStep DEF MailInvite
<1>. QED
  BY <1>3, <1>4

LEMMA AcceptStep ==
  ASSUME IInv, NEW r \in Request, NEW t \in Token, NEW q \in Local, Accept(r, t, q),
         t \in drawn, q.pc \in {"resolve", "check"}, q.token = t,
         q.email \in Email, q.password \in Password, q.account = Nil,
         q.pc = "resolve" => issued[t] # Nil,
         \/ /\ ~atomicConsume /\ requests[r].pc \in Claiming
            /\ requests[r].token = t /\ requests[r].email = q.email
         \/ requests[r].pc = "idle" /\ tokens[t] # NoToken /\ tokens[t].email = q.email
  PROVE  IInv'
<1>. USE DEF IInv
<1>1. /\ requests' \in [Request -> Local] /\ requests'[r] = q
      /\ \A x \in Request : x # r => requests'[x] = requests[x]
  BY Landed DEF Accept
<1>2. UNCHANGED <<offers, atomicConsume, autoLink, users, sessions, accounts, drawn, issued, opened,
                  resets, created, moved, lapsed, origin, vouched, stranded>>
  BY DEF Accept, config, userHistory
<1>3. /\ tokens' \in [Token -> TokenRow \cup {NoToken}]
      /\ tokens'[t] = NoToken
      /\ \A x \in Token : tokens'[x] \in {tokens[x], NoToken}
  BY DEF Accept, TokenAfter, TypeOK
<1>4. spent' = spent \cup {t} /\ respent' = IF t \in spent THEN respent \cup {t} ELSE respent
  BY DEF Accept
<1>5. Steady
  BY <1>2, <1>3, <1>4 DEF Steady, TypeOK
<1>6. TypeOK' /\ UsersCreated' /\ OneUser'
  BY <1>1, <1>2, <1>3, <1>4 DEF TypeOK, UsersCreated, OneUser, Exists
<1>7. FlowsSound'
  <2>1. FlowSound(r)'
    BY <1>1, <1>2 DEF FlowSound, Tokened, Claiming, Inviting
  <2>. QED
    BY <1>1, <1>5, <2>1, FlowKept DEF FlowsSound
<1>8. TokensAddressed'
  <2>1. \A x \in Request : requests'[x].pc \in Tokened =>
           \/ /\ requests[x].pc \in Tokened
              /\ requests'[x].token = requests[x].token /\ requests'[x].email = requests[x].email
           \/ /\ requests'[x].token \in Token /\ tokens[requests'[x].token] # NoToken
              /\ requests'[x].email = tokens[requests'[x].token].email
    BY <1>1 DEF Tokened
  <2>. QED
    BY <1>2, <1>3, <1>5, <2>1, AddressedKept
<1>9. ConsumedOnce'
  <2>1. CASE ~atomicConsume
    BY <1>2, <2>1 DEF ConsumedOnce
  <2>2. CASE atomicConsume
    <3>1. /\ t \notin spent /\ opened[t] = {} /\ requests[r].pc = "idle" /\ respent = {}
          /\ \A x \in Request : requests[x].pc \in Tokened => requests[x].token # t
      BY <2>2 DEF ConsumedOnce
    <3>2. \A x \in Request : requests'[x].pc \in Tokened =>
            /\ requests'[x].pc \notin Claiming
            /\ requests'[x].token \in spent'
            /\ requests'[x].pc \in Inviting => opened'[requests'[x].token] = {}
      BY <1>1, <1>2, <1>4, <2>2, <3>1 DEF ConsumedOnce, Tokened, Claiming
    <3>3. \A x, y \in Request :
            /\ requests'[x].pc \in Inviting /\ requests'[y].pc \in Inviting
            /\ requests'[x].token = requests'[y].token
            => x = y
      BY <1>1, <2>2, <3>1 DEF ConsumedOnce, Tokened
    <3>4. /\ respent' = {}
          /\ \A x \in Token : /\ tokens'[x] # NoToken => x \notin spent'
                              /\ opened'[x] # {} => x \in spent'
                              /\ \A u, v \in opened'[x] : u = v
      BY <1>2, <1>3, <1>4, <2>2, <3>1 DEF ConsumedOnce
    <3>. QED
      BY <3>2, <3>3, <3>4, ConsumedOnceThen
  <2>. QED
    BY <2>1, <2>2
<1>10. OldPasswordOnlyByRace' /\ EveryUserHasAWayIn'
  BY <1>1, <1>2, PasswordsKept, WaysKept DEF Exists, Claiming
<1>. QED
  BY <1>2, <1>5, <1>6, <1>7, <1>8, <1>9, <1>10, LinksKept, SignInsKept, ResetsKept

LEMMA ClaimStep ==
  ASSUME IInv, NEW r \in Request, Claim(r)
  PROVE  IInv'
<1>. USE DEF IInv
<1>. DEFINE q == Onward(requests[r])
<1>1. requests[r].pc \in Claiming
  BY DEF Claim, Claiming
<1>2. /\ q \in Local /\ q.pc = (IF requests[r].pc = "claimReset" THEN "resolve" ELSE "check")
      /\ q.email = requests[r].email /\ q.password = requests[r].password
      /\ q.token = requests[r].token /\ q.account = requests[r].account
  <2>1. (IF requests[r].pc = "claimReset" THEN "resolve" ELSE "check") \in PC
    BY DEF PC
  <2>. QED
    BY <2>1, Further DEF Onward
<1>3. /\ requests[r].token \in Token /\ requests[r].token \in drawn /\ requests[r].email \in Email
      /\ requests[r].password \in Password /\ requests[r].account = Nil
      /\ requests[r].pc = "claimReset" => issued[requests[r].token] # Nil
  BY <1>1 DEF FlowsSound, FlowSound, Tokened, TypeOK
<1>4. Accept(r, requests[r].token, q)
  BY DEF Claim
<1>5. ~atomicConsume
  BY <1>1 DEF ConsumedOnce
<1>. HIDE DEF q
<1>. QED
  BY <1>1, <1>2, <1>3, <1>4, <1>5, AcceptStep

LEMMA ConsumeSteps ==
  ASSUME IInv, NEW r \in Request, NEW t \in Token, NEW p \in Password, NEW autoSignIn \in BOOLEAN,
         ConsumeReset(r, t, p) \/ ConsumeInvite(r, t, p, autoSignIn)
  PROVE  IInv'
<1>. USE DEF IInv
<1>1. tokens[t] # NoToken /\ tokens[t].email \in Email /\ t \in drawn /\ requests[r] = Idle
  BY DEF ConsumeReset, ConsumeInvite, Consume, TypeOK, TokenRow, TokensAddressed, Addressed
<1>2. ASSUME NEW q \in Local, q.pc \in Claiming, q.token = t, q.email = tokens[t].email,
             q.password = p, q.account = Nil, q.pc = "claimReset" => tokens[t].kind = "reset",
             Consume(r, q)
      PROVE  IInv'
  <2>1. CASE atomicConsume /\ Accept(r, q.token, Onward(q))
    <3>. DEFINE k == Onward(q)
    <3>1. /\ k \in Local /\ k.pc = (IF q.pc = "claimReset" THEN "resolve" ELSE "check")
          /\ k.email = q.email /\ k.password = q.password /\ k.token = q.token /\ k.account = q.account
      BY DEF Onward, Local, PC
    <3>2. Accept(r, t, k)
      BY <1>2, <2>1
    <3>. HIDE DEF k
    <3>3. q.pc = "claimReset" => issued[t] # Nil
      BY <1>1, <1>2 DEF TokensAddressed, Addressed
    <3>4. requests[r].pc = "idle"
      BY <1>1, IdleTyped
    <3>. QED
      BY <1>1, <1>2, <3>1, <3>2, <3>3, <3>4, AcceptStep
  <2>2. CASE ~atomicConsume /\ Goto(r, q) /\ UNCHANGED <<config, tables, tokenHistory, userHistory>>
    BY <1>1, <1>2, <2>2, SelectStep
  <2>. QED
    BY <1>2, <2>1, <2>2 DEF Consume
<1>3. CASE ConsumeReset(r, t, p)
  <2>. DEFINE q == [Idle EXCEPT !.pc = "claimReset", !.token = t,
                                !.email = tokens[t].email, !.password = p]
  <2>1. /\ q \in Local /\ q.pc = "claimReset" /\ q.token = t /\ q.email = tokens[t].email
        /\ q.password = p /\ q.account = Nil
    BY <1>1 DEF Idle, Local, PC
  <2>2. Consume(r, q) /\ tokens[t].kind = "reset"
    BY <1>3 DEF ConsumeReset
  <2>. HIDE DEF q
  <2>. QED
    BY <1>2, <2>1, <2>2 DEF Claiming
<1>4. CASE ConsumeInvite(r, t, p, autoSignIn)
  <2>. DEFINE q == [Idle EXCEPT !.pc = "claimInvite", !.token = t, !.email = tokens[t].email,
                                !.password = p, !.flag = autoSignIn]
  <2>1. /\ q \in Local /\ q.pc = "claimInvite" /\ q.token = t /\ q.email = tokens[t].email
        /\ q.password = p /\ q.account = Nil
    BY <1>1 DEF Idle, Local, PC
  <2>2. Consume(r, q)
    BY <1>4 DEF ConsumeInvite
  <2>. HIDE DEF q
  <2>. QED
    BY <1>2, <2>1, <2>2 DEF Claiming
<1>. QED
  BY <1>3, <1>4

-----------------------------------------------------------------------------

LEMMA StutterStep ==
  ASSUME IInv, UNCHANGED vars
  PROVE  IInv'
<1>1. UNCHANGED <<offers, atomicConsume, autoLink, users, sessions, tokens, accounts, requests, drawn,
                  issued, spent, respent, opened, resets, created, moved, lapsed, origin, vouched,
                  stranded>>
  BY DEF vars, config, tables, tokenHistory, userHistory
<1>2. Steady
  BY <1>1 DEF Steady
<1>3. TypeOK' /\ UsersCreated' /\ OneUser'
  BY <1>1 DEF IInv, TypeOK, UsersCreated, OneUser, Exists
<1>4. OldPasswordOnlyByRace' /\ EveryUserHasAWayIn'
  BY <1>1, PasswordsKept, WaysKept DEF Exists
<1>. QED
  BY <1>1, <1>2, <1>3, <1>4, Calm

LEMMA NextIInv == IInv /\ [Next]_vars => IInv'
<1>. SUFFICES ASSUME IInv, [Next]_vars PROVE IInv'
  OBVIOUS
<1>1. ASSUME NEW r \in Request, NEW e \in Email,
             \/ RequestReset(r, e) \/ CreateInvite(r, e)
             \/ \E p \in Password : Register(r, e, p)
             \/ \E a \in Account, verified \in BOOLEAN : Callback(r, a, e, verified)
      PROVE  IInv'
  BY <1>1, BeginSteps, CallbackStep
<1>2. ASSUME NEW r \in Request, NEW u \in User,
             \/ SignIn(r, u) \/ DeleteUser(r, u)
             \/ \E p \in Password, keep \in BOOLEAN : ChangePassword(r, u, p, keep)
      PROVE  IInv'
  BY <1>2, BeginSteps, RevokeSteps
<1>3. ASSUME NEW r \in Request, NEW t \in Token, NEW p \in Password,
             \/ ConsumeReset(r, t, p)
             \/ \E autoSignIn \in BOOLEAN : ConsumeInvite(r, t, p, autoSignIn)
      PROVE  IInv'
  BY <1>3, ConsumeSteps
<1>4. ASSUME NEW r \in Request,
             \/ CreateRegistered(r) \/ Issue(r) \/ StorePassword(r) \/ RevokeAll(r)
             \/ MailReset(r) \/ MailInvite(r) \/ Claim(r) \/ ResolveReset(r)
             \/ CheckInvited(r) \/ CreateInvited(r)
      PROVE  IInv'
  BY <1>4, CreateRegisteredStep, IssueStep, StorePasswordStep, RevokeSteps, MailSteps, ClaimStep,
     ResolveResetStep, CheckInvitedStep, CreateInvitedStep
<1>5. ASSUME NEW r \in Request,
             \/ FollowLink(r) \/ FindByEmail(r) \/ Provision(r) \/ Link(r)
             \/ DropUser(r) \/ Abort(r)
      PROVE  IInv'
  BY <1>5, FollowLinkStep, FindByEmailStep, ProvisionStep, LinkStep, DropUserStep, AbortStep
<1>6. CASE \/ \E u \in User, e \in Email : UpdateUser(u, e)
           \/ \E t \in Token : Expire(t) \/ RevokeInvite(t)
           \/ \E s \in sessions : EndSession(s)
  BY <1>6, UpdateUserStep, TokensGoStep, EndSessionStep
<1>7. CASE UNCHANGED vars
  BY <1>7, StutterStep
<1>. QED
  BY <1>1, <1>2, <1>3, <1>4, <1>5, <1>6, <1>7 DEF Next

LEMMA SpecIInv == Spec => []IInv
  BY InitIInv, NextIInv, PTL DEF Spec

-----------------------------------------------------------------------------
(* The theorems.                                                           *)

LEMMA InvitationsApart == IInv => InvitationOpensOneAccount
<1>. SUFFICES ASSUME IInv, NEW t \in Token, NEW u \in opened[t], NEW v \in opened[t], u # v
              PROVE  ~atomicConsume /\ \E w \in {u, v} : ~Exists(w) \/ w \in moved
  BY DEF InvitationOpensOneAccount
<1>1. ~atomicConsume
  BY DEF IInv, ConsumedOnce
<1>2. PICK addr \in [Token -> Email \cup {Nil}] : Addressed(addr)
  BY DEF IInv, TokensAddressed
<1>3. u \in User /\ v \in User
  BY DEF IInv, TypeOK
<1>4. Keeps(u, addr[t]) /\ Keeps(v, addr[t])
  BY <1>2 DEF Addressed
<1>5. ASSUME Exists(u), u \notin moved, Exists(v), v \notin moved
      PROVE  FALSE
  BY <1>3, <1>4, <1>5 DEF Keeps, IInv, OneUser
<1>. QED
  BY <1>1, <1>5

\* Rows, flows and sessions keep the shape their tables and handlers give them
\* (every flow of packages/core/src/flows modelled in Accounts).
THEOREM SpecTypeOK == Spec => []TypeOK
<1>1. IInv => TypeOK
  BY DEF IInv
<1>. QED
  BY <1>1, SpecIInv, PTL

\* A verification token that is consumed by one DELETE ... RETURNING is accepted
\* once, however many flows race for it (pg/index.ts:354-364): where the adapter
\* reads and deletes in two statements nothing is promised.
THEOREM SpecTokensSpentOnce == Spec => []TokensSpentOnce
<1>1. IInv => TokensSpentOnce
  BY DEF IInv, ConsumedOnce, TokensSpentOnce
<1>. QED
  BY <1>1, SpecIInv, PTL

\* Two accounts opened by one invitation never both hold the address it was
\* mailed to (invite.ts:155-183): one of them was deleted or has moved, and the
\* adapter consumed the token in two statements.
THEOREM SpecInvitationOpensOneAccount == Spec => []InvitationOpensOneAccount
  BY InvitationsApart, SpecIInv, PTL

\* A reset goes to the user its token was mailed for, as long as that user lives
\* and keeps the address, however long the mail waits (password-reset.ts:66-82).
THEOREM SpecResetStaysWithUser == Spec => []ResetStaysWithUser
<1>1. IInv => ResetStaysWithUser
  BY DEF IInv, ResetsSound, ResetSound, ResetStaysWithUser
<1>. QED
  BY <1>1, SpecIInv, PTL

\* Whatever runs between the lookups of a callback and its session, the session
\* belongs to the provider account's own user, or, where linking by address is
\* allowed, to one the provider vouched for (callback.ts:95-190).
THEOREM SpecProviderSignInsVouched == Spec => []ProviderSignInsVouched
<1>1. IInv => ProviderSignInsVouched
  BY DEF IInv
<1>. QED
  BY <1>1, SpecIInv, PTL

\* A user that can neither sign in by password nor by a linked account is one a
\* callback is linking right now, or left behind when it died in between
\* (callback.ts:165-172, register.ts:28-33).
THEOREM SpecEveryUserHasAWayIn == Spec => []EveryUserHasAWayIn
<1>1. IInv => EveryUserHasAWayIn
  BY DEF IInv
<1>. QED
  BY <1>1, SpecIInv, PTL

\* A session that rests on a replaced password is one of a user whose revocation
\* is still to come, or whose sign-in raced with the change
\* (password-change.ts:30-35, password-reset.ts:79-82).
THEOREM SpecOldPasswordOnlyByRace == Spec => []OldPasswordOnlyByRace
<1>1. IInv => OldPasswordOnlyByRace
  BY DEF IInv
<1>. QED
  BY <1>1, SpecIInv, PTL

=============================================================================
