-------------------------- MODULE MagicLinksProofs --------------------------
(***************************************************************************)
(* For every set of users, addresses, tokens, flows and deployments: the   *)
(* type invariant of MagicLinks, that a link signs in the user it was      *)
(* requested for, that an address is only marked once it was proven, that  *)
(* a good link is not withdrawn by a later request, and that links and     *)
(* codes implement Tickets.                                                *)
(*                                                                         *)
(* Users and tokens go while flows hold copies of their ids.  The proof    *)
(* rests on what never comes back: an id that was drawn is not drawn       *)
(* again (UsersCreated, TokensSound), so that a flow whose user or token   *)
(* is gone can tell it is (FlowsSound), and a claimed token has one holder *)
(* (SoleHolder).                                                           *)
(***************************************************************************)
EXTENDS MagicLinks, TLAPS

\* A flow that has claimed its token.
Holding == {"resolve", "byEmail", "recreate", "verify", "complete"}

\* A request past the idempotency check, up to its createToken.
PastLook == {"latest", "withdraw", "store"}

\* What a flow may rely on, whatever ran since it read it.
FlowSound(r) == LET q == requests[r] IN
    /\ q.pc = "provision" => q.email \in Email /\ ~q.signIn
    /\ q.pc = "issue" => q.user \in User
    /\ q.pc \notin {"idle", "provision", "issue"} =>
          /\ q.email \in Email /\ q.user \in created
          /\ Exists(q.user) => users[q.user].email = q.email \/ q.user \in moved
    /\ q.pc \in Holding \cup {"claim"} =>
          /\ q.token \in Token /\ Drawn(q.token) /\ q.owner \in created
          /\ tokens[q.token] # NoToken => tokens[q.token].email = q.email
    /\ q.pc = "send" => q.token \in Token
    /\ q.pc \in {"claim", "resolve"} => q.user = q.owner
    /\ q.pc \in {"byEmail", "recreate"} => ~Exists(q.owner)
    /\ q.pc \in {"verify", "complete"} => q.user = q.owner \/ ~Exists(q.owner)
    /\ q.pc \in Holding =>
          /\ q.email \in proven
          /\ tokens[q.token] # NoToken => tokens[q.token].used

FlowsSound == \A r \in Request : FlowSound(r)

UsersCreated == \A u \in User : Exists(u) => u \in created

TokensSound ==
    \A t \in Token : tokens[t] # NoToken =>
        /\ Drawn(t)
        /\ users[tokens[t].user].email = tokens[t].email \/ tokens[t].user \in moved

OpenedSound == opened # Nil /\ opened.token # Nil => opened.owner \in created

SoleHolder ==
    \A p, q \in Request :
        /\ requests[p].pc \in Holding /\ requests[q].pc \in Holding
        /\ requests[p].token = requests[q].token
        => p = q

HeldNotRedeemed ==
    \A r \in Request : requests[r].pc \in Holding => requests[r].token \notin redeemed

RedeemedSpent == \A t \in redeemed : Drawn(t) /\ (tokens[t] # NoToken => tokens[t].used)

\* Two requests past the check for one address are on record as overlapped.
PastAlone ==
    \A p, q \in Request :
        /\ requests[p].pc \in PastLook /\ requests[q].pc \in PastLook
        /\ requests[p].email = requests[q].email
        => p = q \/ requests[p].email \in overlapped

PastNoneGood ==
    \A r \in Request : requests[r].pc \in PastLook =>
        requests[r].email \in overlapped \/ ActiveTokens(requests[r].email) = {}

IInv ==
    /\ TypeOK
    /\ drawn \in Seq(Token)
    /\ UsersCreated
    /\ TokensSound
    /\ FlowsSound
    /\ OpenedSound /\ LinkSignsInItsUser
    /\ VerifiedWasProven
    /\ SoleHolder /\ HeldNotRedeemed /\ RedeemedSpent
    /\ PastAlone /\ PastNoneGood

-----------------------------------------------------------------------------

USE SentinelAssumption, DeploymentAssumption

LEMMA IdleTyped == Idle \in Local /\ Idle.pc = "idle"
  BY DEF Idle, Local, PC

LEMMA InitIInv == Init => IInv
<1>. SUFFICES ASSUME Init PROVE IInv
  OBVIOUS
<1>1. PICK registered \in {{}} \cup {{u} : u \in User}, e \in Email :
         /\ created = registered
         /\ users = [u \in User |-> IF u \in registered THEN [email |-> e, verified |-> FALSE]
                                    ELSE NoUser]
  BY DEF Init
<1>2. registered \subseteq User
  OBVIOUS
<1>3. [email |-> e, verified |-> FALSE] \in UserRow
  BY DEF UserRow
<1>4. /\ users \in [User -> UserRow \cup {NoUser}]
      /\ \A u \in User : Exists(u) => u \in created /\ ~users[u].verified
  BY <1>1, <1>3 DEF Exists
<1>5. drawn \in Seq(Token) /\ DOMAIN drawn = {}
  BY DEF Init
<1>6. TypeOK
  BY <1>1, <1>2, <1>4, <1>5, IdleTyped DEF Init, TypeOK
<1>7. \A r \in Request : requests[r].pc = "idle"
  BY IdleTyped DEF Init
<1>8. FlowsSound /\ SoleHolder /\ HeldNotRedeemed /\ PastAlone /\ PastNoneGood
  BY <1>7 DEF FlowsSound, FlowSound, SoleHolder, HeldNotRedeemed, PastAlone, PastNoneGood,
     Holding, PastLook
<1>9. UsersCreated /\ VerifiedWasProven
  BY <1>4 DEF UsersCreated, VerifiedWasProven
<1>10. TokensSound /\ OpenedSound /\ LinkSignsInItsUser /\ RedeemedSpent
  BY DEF Init, TokensSound, OpenedSound, LinkSignsInItsUser, RedeemedSpent
<1>. QED
  BY <1>5, <1>6, <1>8, <1>9, <1>10 DEF IInv

-----------------------------------------------------------------------------
(* What never comes back.                                                  *)

\* What every step grants the flows of others: ids are not drawn again, an
\* address only changes under moved, and a token only loses standing.
Steady ==
    /\ created \subseteq created' /\ proven \subseteq proven' /\ overlapped \subseteq overlapped'
    /\ \A u \in created : Exists(u)' =>
          /\ Exists(u)
          /\ u \in moved' \/ (u \notin moved /\ users'[u].email = users[u].email)
    /\ \A t \in Token : Drawn(t) =>
          /\ Drawn(t)'
          /\ tokens'[t] # NoToken =>
                /\ tokens[t] # NoToken
                /\ tokens'[t].email = tokens[t].email /\ tokens'[t].user = tokens[t].user
                /\ tokens[t].used => tokens'[t].used

LEMMA FlowKept ==
  ASSUME IInv, Steady, NEW r \in Request, requests'[r] = requests[r]
  PROVE  FlowSound(r)'
<1>1. FlowSound(r)
  BY DEF IInv, FlowsSound
<1>2. FlowSound(r)' <=>
        LET q == requests[r] IN
          /\ q.pc = "provision" => q.email \in Email /\ ~q.signIn
          /\ q.pc = "issue" => q.user \in User
          /\ q.pc \notin {"idle", "provision", "issue"} =>
                /\ q.email \in Email /\ q.user \in created'
                /\ users'[q.user] # NoUser => users'[q.user].email = q.email \/ q.user \in moved'
          /\ q.pc \in Holding \cup {"claim"} =>
                /\ q.token \in Token /\ Drawn(q.token)' /\ q.owner \in created'
                /\ tokens'[q.token] # NoToken => tokens'[q.token].email = q.email
          /\ q.pc = "send" => q.token \in Token
          /\ q.pc \in {"claim", "resolve"} => q.user = q.owner
          /\ q.pc \in {"byEmail", "recreate"} => users'[q.owner] = NoUser
          /\ q.pc \in {"verify", "complete"} => q.user = q.owner \/ users'[q.owner] = NoUser
          /\ q.pc \in Holding =>
                /\ q.email \in proven'
                /\ tokens'[q.token] # NoToken => tokens'[q.token].used
  BY DEF FlowSound, Exists, Drawn
<1>. QED
  BY <1>1, <1>2 DEF FlowSound, Steady, Exists, Holding

LEMMA TokensKept ==
  ASSUME IInv, Steady, TypeOK', UsersCreated',
         NEW t \in Token, tokens'[t] # NoToken, tokens[t] # NoToken
  PROVE  /\ Drawn(t)'
         /\ users'[tokens'[t].user].email = tokens'[t].email \/ tokens'[t].user \in moved'
<1>1. /\ Drawn(t) /\ Drawn(t)'
      /\ tokens'[t].email = tokens[t].email /\ tokens'[t].user = tokens[t].user
  BY DEF IInv, TokensSound, Steady
<1>2. PICK u \in User : u = tokens[t].user /\ u = tokens'[t].user /\ Exists(u) /\ u \in created
  BY <1>1 DEF IInv, TypeOK, TokenRow, UsersCreated
<1>3. Exists(u)'
  BY <1>2 DEF TypeOK, Exists
<1>. QED
  BY <1>1, <1>2, <1>3 DEF IInv, TokensSound, Steady

LEMMA OpenedKept ==
  ASSUME IInv, Steady, opened' = opened \/ opened' = Nil
  PROVE  OpenedSound' /\ LinkSignsInItsUser'
<1>1. CASE opened' = opened
  <2>1. OpenedSound'
    BY <1>1 DEF IInv, OpenedSound, Steady
  <2>2. opened # Nil /\ opened.token # Nil => opened.owner \in created
    BY DEF IInv, OpenedSound
  <2>. QED
    BY <1>1, <2>1, <2>2 DEF IInv, LinkSignsInItsUser, Steady, Exists
<1>2. CASE opened' = Nil
  BY <1>2 DEF OpenedSound, LinkSignsInItsUser
<1>. QED
  BY <1>1, <1>2

LEMMA VerifiedKept ==
  ASSUME IInv, Steady,
         \A u \in User : Exists(u)' /\ users'[u].verified => Exists(u) /\ users[u].verified
  PROVE  VerifiedWasProven'
  BY DEF IInv, VerifiedWasProven, UsersCreated, Steady

LEMMA HoldersKept ==
  ASSUME IInv, Steady, redeemed' = redeemed,
         \A x \in Request : requests'[x].pc \in Holding =>
            requests[x].pc \in Holding /\ requests'[x].token = requests[x].token
  PROVE  SoleHolder' /\ HeldNotRedeemed' /\ RedeemedSpent'
<1>1. SoleHolder' /\ HeldNotRedeemed'
  BY DEF IInv, SoleHolder, HeldNotRedeemed
<1>2. RedeemedSpent'
  BY DEF IInv, RedeemedSpent, Steady, TypeOK
<1>. QED
  BY <1>1, <1>2

LEMMA PastKept ==
  ASSUME IInv, Steady,
         \A x \in Request : requests'[x].pc \in PastLook =>
            requests[x].pc \in PastLook /\ requests'[x].email = requests[x].email,
         \A t \in Token : Usable(t)' => Usable(t)
  PROVE  PastAlone' /\ PastNoneGood'
<1>1. PastAlone'
  BY DEF IInv, PastAlone, Steady
<1>2. \A t \in Token : Usable(t)' => Usable(t) /\ tokens'[t].email = tokens[t].email
  BY DEF Usable, IInv, TokensSound, Steady
<1>3. \A e : ActiveTokens(e) = {} => ActiveTokens(e)' = {}
  BY <1>2 DEF ActiveTokens
<1>4. PastNoneGood'
  BY <1>3 DEF IInv, PastNoneGood, Steady
<1>. QED
  BY <1>1, <1>4

\* A step that claims, draws and redeems no token, verifies and signs in
\* nobody, and lets no request past the idempotency check.
LEMMA Calm ==
  ASSUME IInv, Steady, TypeOK', drawn' \in Seq(Token), UsersCreated',
         \A x \in Request :
            \/ requests'[x] = requests[x]
            \/ /\ FlowSound(x)'
               /\ requests'[x].pc \in Holding =>
                     requests[x].pc \in Holding /\ requests'[x].token = requests[x].token
               /\ requests'[x].pc \in PastLook =>
                     requests[x].pc \in PastLook /\ requests'[x].email = requests[x].email,
         redeemed' = redeemed,
         opened' = opened \/ opened' = Nil,
         \A u \in User : Exists(u)' /\ users'[u].verified => Exists(u) /\ users[u].verified,
         \A t \in Token : tokens'[t] # NoToken => tokens[t] # NoToken /\ (Usable(t)' => Usable(t))
  PROVE  IInv'
<1>1. FlowsSound'
  BY FlowKept DEF FlowsSound
<1>2. TokensSound'
  BY TokensKept DEF TokensSound
<1>3. \A t \in Token : Usable(t)' => Usable(t)
  BY DEF Usable
<1>. QED
  BY <1>1, <1>2, <1>3, OpenedKept, VerifiedKept, HoldersKept, PastKept DEF IInv

LEMMA SteadyReads ==
  ASSUME IInv, UNCHANGED <<users, tokens, drawn, created, moved, proven, overlapped>>
  PROVE  Steady
  BY DEF Steady, Exists, Drawn

\* A flow moves on, and the step writes nothing.
LEMMA ReadStep ==
  ASSUME IInv, NEW r \in Request, NEW q \in Local, Goto(r, q), Reads,
         FlowSound(r)',
         q.pc \in Holding => requests[r].pc \in Holding /\ q.token = requests[r].token,
         q.pc \in PastLook => requests[r].pc \in PastLook /\ q.email = requests[r].email
  PROVE  IInv'
<1>1. /\ requests' \in [Request -> Local]
      /\ requests'[r] = q
      /\ \A x \in Request : x # r => requests'[x] = requests[x]
  BY DEF IInv, TypeOK, Goto
<1>2. UNCHANGED <<config, users, tokens, drawn, mailed, opened, created, moved, proven,
                  overlapped, redeemed>>
  BY DEF Reads, history
<1>3. TypeOK' /\ drawn' \in Seq(Token) /\ UsersCreated'
  BY <1>1, <1>2 DEF IInv, TypeOK, UsersCreated, Exists
<1>4. Steady
  BY <1>2, SteadyReads
<1>5. \A t \in Token : tokens'[t] # NoToken => tokens[t] # NoToken /\ (Usable(t)' => Usable(t))
  BY <1>2 DEF Usable
<1>. QED
  BY <1>1, <1>2, <1>3, <1>4, <1>5, Calm DEF Exists

\* A flow that ends, or goes on to the sign-in that asked for nothing.
LEMMA EndStep ==
  ASSUME IInv, NEW r \in Request, Finish(r), Reads
  PROVE  IInv'
<1>1. requests'[r] = Idle
  BY DEF Finish, Goto, IInv, TypeOK
<1>2. FlowSound(r)'
  BY <1>1, IdleTyped DEF FlowSound, Holding
<1>. QED
  BY <1>2, IdleTyped, ReadStep DEF Finish, Holding, PastLook

LEMMA ThrownStep ==
  ASSUME IInv, NEW r \in Request, Goto(r, Thrown(requests[r])), Reads,
         requests[r].pc \in {"provision", "active", "latest", "withdraw", "store", "send"}
  PROVE  IInv'
<1>1. CASE ~requests[r].signIn
  BY <1>1, EndStep DEF Thrown, Finish
<1>2. CASE requests[r].signIn
  <2>. DEFINE q == [Idle EXCEPT !.pc = "issue", !.user = requests[r].user, !.signIn = TRUE]
  <2>1. requests[r].user \in User
    BY <1>2 DEF IInv, FlowsSound, FlowSound, TypeOK
  <2>2. q \in Local /\ q.pc = "issue" /\ q.user = requests[r].user
    BY <2>1 DEF Idle, Local, PC
  <2>3. Goto(r, q)
    BY <1>2 DEF Thrown
  <2>. HIDE DEF q
  <2>4. requests'[r] = q
    BY <2>3 DEF Goto, IInv, TypeOK
  <2>5. FlowSound(r)'
    BY <2>1, <2>2, <2>4 DEF FlowSound, Holding
  <2>. QED
    BY <2>2, <2>3, <2>5, ReadStep DEF Holding, PastLook
<1>. QED
  BY <1>1, <1>2 DEF IInv, TypeOK, Local

\* The flow of slot r, further on.
LEMMA Onward ==
  ASSUME TypeOK, NEW r \in Request, NEW x \in PC
  PROVE  \A q : q = [requests[r] EXCEPT !.pc = x] =>
           /\ q \in Local /\ q.pc = x /\ q.user = requests[r].user
           /\ q.email = requests[r].email /\ q.token = requests[r].token
           /\ q.signIn = requests[r].signIn /\ q.owner = requests[r].owner
  BY DEF TypeOK, Local

LEMMA Landed ==
  ASSUME TypeOK, NEW r \in Request, NEW q, Goto(r, q)
  PROVE  /\ requests'[r] = q
         /\ q \in Local => requests' \in [Request -> Local]
         /\ \A x \in Request : x # r => requests'[x] = requests[x]
  BY DEF TypeOK, Goto

-----------------------------------------------------------------------------
(* The steps that write nothing.                                           *)

LEMMA BeginRequestStep ==
  ASSUME IInv, NEW r \in Request, NEW e \in Email, NEW signIn \in BOOLEAN,
         BeginRequest(r, e, signIn)
  PROVE  IInv'
<1>. USE DEF IInv
<1>1. Reads
  BY DEF BeginRequest
<1>2. ASSUME NEW u \in User, HasEmail(u, e),
             Goto(r, [Idle EXCEPT !.pc = "active", !.user = u, !.email = e, !.signIn = signIn])
      PROVE  IInv'
  <2>. DEFINE q == [Idle EXCEPT !.pc = "active", !.user = u, !.email = e, !.signIn = signIn]
  <2>1. q \in Local /\ q.pc = "active" /\ q.user = u /\ q.email = e
    BY DEF Idle, Local, PC
  <2>2. Goto(r, q)
    BY <1>2
  <2>. HIDE DEF q
  <2>3. requests'[r] = q
    BY <2>2, Landed
  <2>4. FlowSound(r)'
    BY <1>1, <1>2, <2>1, <2>3 DEF FlowSound, Holding, HasEmail, Reads, history, UsersCreated
  <2>. QED
    BY <1>1, <2>1, <2>2, <2>4, ReadStep DEF Holding, PastLook
<1>3. ASSUME Goto(r, [Idle EXCEPT !.pc = "provision", !.email = e])
      PROVE  IInv'
  <2>. DEFINE q == [Idle EXCEPT !.pc = "provision", !.email = e]
  <2>1. q \in Local /\ q.pc = "provision" /\ q.email = e /\ q.signIn = FALSE
    BY DEF Idle, Local, PC
  <2>2. Goto(r, q)
    BY <1>3
  <2>. HIDE DEF q
  <2>3. requests'[r] = q
    BY <2>2, Landed
  <2>4. FlowSound(r)'
    BY <2>1, <2>3 DEF FlowSound, Holding
  <2>. QED
    BY <1>1, <2>1, <2>2, <2>4, ReadStep DEF Holding, PastLook
<1>. QED
  BY <1>2, <1>3 DEF BeginRequest

LEMMA SignInStep ==
  ASSUME IInv, NEW r \in Request, NEW u \in User, SignIn(r, u)
  PROVE  IInv'
<1>1. CASE BeginRequest(r, users[u].email, TRUE)
  <2>1. users[u].email \in Email
    BY DEF SignIn, Exists, IInv, TypeOK, UserRow
  <2>. QED
    BY <1>1, <2>1, BeginRequestStep
<1>2. CASE Goto(r, Thrown([Idle EXCEPT !.user = u, !.signIn = TRUE])) /\ Reads
  <2>. DEFINE q == [Idle EXCEPT !.pc = "issue", !.user = u, !.signIn = TRUE]
  <2>1. q \in Local /\ q.pc = "issue" /\ q.user = u
    BY DEF Idle, Local, PC
  <2>2. Goto(r, q)
    BY <1>2 DEF Thrown, Idle
  <2>. HIDE DEF q
  <2>3. requests'[r] = q
    BY <2>2, Landed DEF IInv
  <2>4. FlowSound(r)'
    BY <2>1, <2>3 DEF FlowSound, Holding
  <2>. QED
    BY <1>2, <2>1, <2>2, <2>4, ReadStep DEF Holding, PastLook
<1>. QED
  BY <1>1, <1>2 DEF SignIn

LEMMA CheckCooldownStep ==
  ASSUME IInv, NEW r \in Request, CheckCooldown(r)
  PROVE  IInv'
<1>. USE DEF IInv
<1>1. Reads /\ requests[r].pc = "latest"
  BY DEF CheckCooldown
<1>2. CASE Goto(r, Thrown(requests[r]))
  BY <1>1, <1>2, ThrownStep
<1>3. CASE Goto(r, [requests[r] EXCEPT !.pc = "withdraw"])
  <2>. DEFINE q == [requests[r] EXCEPT !.pc = "withdraw"]
  <2>1. /\ q \in Local /\ q.pc = "withdraw"
        /\ q.user = requests[r].user /\ q.email = requests[r].email
    BY Onward DEF PC
  <2>. HIDE DEF q
  <2>2. requests'[r] = q
    BY <1>3, Landed DEF q
  <2>3. FlowSound(r)'
    BY <1>1, <2>1, <2>2 DEF FlowsSound, FlowSound, Holding, Reads, history, Exists
  <2>. QED
    BY <1>1, <1>3, <2>1, <2>3, ReadStep DEF Holding, PastLook, q
<1>. QED
  BY <1>2, <1>3 DEF CheckCooldown

LEMMA VerifyOtpStep ==
  ASSUME IInv, NEW r \in Request, NEW t \in Token, VerifyOtp(r, t)
  PROVE  IInv'
<1>. USE DEF IInv
<1>. DEFINE q == [Idle EXCEPT !.pc = "claim", !.user = tokens[t].user,
                              !.email = tokens[t].email, !.token = t, !.owner = tokens[t].user]
<1>1. Reads /\ Goto(r, q) /\ tokens[t] # NoToken
  BY DEF VerifyOtp
<1>2. tokens[t].user \in User /\ tokens[t].email \in Email /\ Exists(tokens[t].user)
  BY <1>1 DEF TypeOK, TokenRow
<1>3. /\ q \in Local /\ q.pc = "claim" /\ q.user = tokens[t].user /\ q.owner = tokens[t].user
      /\ q.email = tokens[t].email /\ q.token = t
  BY <1>2 DEF Idle, Local, PC
<1>. HIDE DEF q
<1>4. requests'[r] = q
  BY <1>1, Landed
<1>5. UNCHANGED <<users, tokens, drawn, created, moved>>
  BY <1>1 DEF Reads, history
<1>6. FlowSound(r)'
  BY <1>1, <1>2, <1>3, <1>4, <1>5
     DEF FlowSound, Holding, Exists, Drawn, UsersCreated, TokensSound
<1>. QED
  BY <1>1, <1>3, <1>6, ReadStep DEF Holding, PastLook

LEMMA ResolveStep ==
  ASSUME IInv, NEW r \in Request, Resolve(r)
  PROVE  IInv'
<1>. USE DEF IInv
<1>. DEFINE x == IF Found(requests[r].user) THEN "verify" ELSE "byEmail"
            q == [requests[r] EXCEPT !.pc = x]
<1>1. Reads /\ Goto(r, q) /\ requests[r].pc = "resolve"
  BY DEF Resolve
<1>2. /\ q \in Local /\ q.pc = x /\ q.user = requests[r].user /\ q.email = requests[r].email
      /\ q.token = requests[r].token /\ q.owner = requests[r].owner
  <2>1. x \in PC
    BY DEF PC
  <2>. HIDE DEF x
  <2>. QED
    BY <2>1, Onward
<1>. HIDE DEF q
<1>3. requests'[r] = q
  BY <1>1, Landed
<1>4. FlowSound(r)'
  BY <1>1, <1>2, <1>3
     DEF FlowsSound, FlowSound, Holding, Reads, history, Exists, Found, Drawn
<1>. QED
  BY <1>1, <1>2, <1>4, ReadStep DEF Holding, PastLook

LEMMA ResolveByEmailStep ==
  ASSUME IInv, NEW r \in Request, ResolveByEmail(r)
  PROVE  IInv'
<1>. USE DEF IInv
<1>1. Reads /\ requests[r].pc = "byEmail"
  BY DEF ResolveByEmail
<1>2. ASSUME NEW u \in User, HasEmail(u, requests[r].email),
             Goto(r, [requests[r] EXCEPT !.pc = "verify", !.user = u])
      PROVE  IInv'
  <2>. DEFINE q == [requests[r] EXCEPT !.pc = "verify", !.user = u]
  <2>1. /\ q \in Local /\ q.pc = "verify" /\ q.user = u /\ q.email = requests[r].email
        /\ q.token = requests[r].token /\ q.owner = requests[r].owner
    <3>1. requests[r] \in Local
      BY DEF TypeOK
    <3>. QED
      BY <3>1 DEF Local, PC
  <2>2. Goto(r, q)
    BY <1>2
  <2>. HIDE DEF q
  <2>3. requests'[r] = q
    BY <2>2, Landed
  <2>4. FlowSound(r)'
    BY <1>1, <1>2, <2>1, <2>3
       DEF FlowsSound, FlowSound, Holding, Reads, history, Exists, HasEmail, Drawn, UsersCreated
  <2>. QED
    BY <1>1, <2>1, <2>2, <2>4, ReadStep DEF Holding, PastLook
<1>3. CASE Goto(r, Idle)
  BY <1>1, <1>3, EndStep DEF Finish
<1>4. CASE Goto(r, [requests[r] EXCEPT !.pc = "recreate"])
  <2>. DEFINE q == [requests[r] EXCEPT !.pc = "recreate"]
  <2>1. /\ q \in Local /\ q.pc = "recreate" /\ q.user = requests[r].user
        /\ q.email = requests[r].email
        /\ q.token = requests[r].token /\ q.owner = requests[r].owner
    BY Onward DEF PC
  <2>. HIDE DEF q
  <2>2. requests'[r] = q
    BY <1>4, Landed DEF q
  <2>3. FlowSound(r)'
    BY <1>1, <2>1, <2>2 DEF FlowsSound, FlowSound, Holding, Reads, history, Exists, Drawn
  <2>. QED
    BY <1>1, <1>4, <2>1, <2>3, ReadStep DEF Holding, PastLook, q
<1>. QED
  BY <1>2, <1>3, <1>4 DEF ResolveByEmail

-----------------------------------------------------------------------------
(* Steps that write a user or take tokens away.                            *)

LEMMA CreateUserSteady ==
  ASSUME IInv, NEW u \in User, NEW e \in Email, CreateUser(u, e),
         UNCHANGED <<tokens, drawn, opened, moved, proven, overlapped, mailed, config, redeemed>>
  PROVE  /\ Steady /\ UsersCreated'
         /\ users' \in [User -> UserRow \cup {NoUser}]
         /\ u \in created' /\ created' \subseteq User
         /\ users'[u].email = e /\ ~users'[u].verified /\ Exists(u)'
         /\ \A v \in User : v # u => users'[v] = users[v]
<1>. USE DEF IInv
<1>1. NewUser(e) \in UserRow /\ NewUser(e).email = e /\ ~NewUser(e).verified
  BY DEF NewUser, UserRow
<1>2. /\ users' = [users EXCEPT ![u] = NewUser(e)]
      /\ u \notin created /\ created' = created \cup {u}
  BY DEF CreateUser
<1>3. /\ users' \in [User -> UserRow \cup {NoUser}]
      /\ users'[u] = NewUser(e)
      /\ \A v \in User : v # u => users'[v] = users[v]
  BY <1>1, <1>2 DEF TypeOK
<1>4. Steady
  BY <1>2, <1>3 DEF Steady, Exists, Drawn, TypeOK
<1>5. UsersCreated'
  BY <1>2, <1>3 DEF UsersCreated, Exists
<1>6. Exists(u)'
  BY <1>1, <1>3 DEF Exists
<1>. QED
  BY <1>1, <1>2, <1>3, <1>4, <1>5, <1>6 DEF TypeOK

\* Provision, and Recreate: the flow goes on with a user it has just created.
LEMMA CreateStep ==
  ASSUME IInv, NEW r \in Request, NEW u \in User, NEW x \in {"active", "verify"},
         requests[r].email \in Email,
         CreateUser(u, requests[r].email),
         Goto(r, [requests[r] EXCEPT !.pc = x, !.user = u]),
         x = "verify" => requests[r].pc = "recreate",
         UNCHANGED <<config, tokens, drawn, mailed, opened, moved, proven, overlapped, redeemed>>
  PROVE  IInv'
<1>. USE DEF IInv
<1>. DEFINE q == [requests[r] EXCEPT !.pc = x, !.user = u]
            e == requests[r].email
<1>1. /\ q \in Local /\ q.pc = x /\ q.user = u /\ q.email = e
      /\ q.token = requests[r].token /\ q.owner = requests[r].owner
  <2>1. requests[r] \in Local
    BY DEF TypeOK
  <2>. QED
    BY <2>1 DEF Local, PC
<1>. HIDE DEF q
<1>2. /\ requests' \in [Request -> Local] /\ requests'[r] = q
      /\ \A y \in Request : y # r => requests'[y] = requests[y]
  BY <1>1, Landed DEF q
<1>3. /\ Steady /\ UsersCreated'
      /\ users' \in [User -> UserRow \cup {NoUser}]
      /\ u \in created' /\ created' \subseteq User
      /\ users'[u].email = e /\ ~users'[u].verified /\ Exists(u)'
      /\ \A v \in User : v # u => users'[v] = users[v]
  BY CreateUserSteady
<1>4. \A v \in User : Exists(v) => Exists(v)'
  BY <1>3 DEF Exists
<1>5. TypeOK'
  <2>1. \A t \in Token : tokens'[t] # NoToken => Exists(tokens[t].user)'
    BY <1>4 DEF TypeOK, TokenRow, Exists
  <2>2. opened' # Nil => Exists(opened.user)'
    BY <1>4 DEF TypeOK, Session, Exists
  <2>. QED
    BY <1>2, <1>3, <2>1, <2>2 DEF TypeOK, Exists
<1>6. FlowSound(r)'
  <2>1. x = "verify" => ~Exists(requests[r].owner) /\ requests[r].owner \in created
    BY DEF FlowsSound, FlowSound, Holding
  <2>2. x = "verify" => requests[r].owner # u
    BY <2>1 DEF CreateUser
  <2>3. x = "verify" => users'[requests[r].owner] = NoUser
    BY <2>1, <1>3 DEF Steady, Exists
  <2>4. x = "verify" => /\ requests[r].token \in Token /\ Drawn(requests[r].token)
                        /\ requests[r].email \in proven
                        /\ tokens[requests[r].token] # NoToken =>
                              /\ tokens[requests[r].token].used
                              /\ tokens[requests[r].token].email = requests[r].email
    BY DEF FlowsSound, FlowSound, Holding
  <2>5. requests'[r].pc = x /\ requests'[r].user = u /\ requests'[r].email = e
        /\ requests'[r].token = requests[r].token /\ requests'[r].owner = requests[r].owner
    BY <1>1, <1>2
  <2>6. created \subseteq created'
    BY <1>3 DEF Steady
  <2>. QED
    BY <1>3, <2>1, <2>3, <2>4, <2>5, <2>6 DEF FlowSound, Holding, Drawn, Exists
<1>7. \A t \in Token : tokens'[t] # NoToken => tokens[t] # NoToken /\ (Usable(t)' => Usable(t))
  BY DEF Usable
<1>8. \A v \in User : Exists(v)' /\ users'[v].verified => Exists(v) /\ users[v].verified
  BY <1>3 DEF Exists
<1>. QED
  BY <1>1, <1>2, <1>3, <1>5, <1>6, <1>7, <1>8, Calm DEF Holding, PastLook

LEMMA ProvisionStep ==
  ASSUME IInv, NEW r \in Request, Provision(r)
  PROVE  IInv'
<1>1. CASE Finish(r) /\ Reads
  BY <1>1, EndStep
<1>2. ASSUME NEW u \in User, CreateUser(u, requests[r].email),
             Goto(r, [requests[r] EXCEPT !.pc = "active", !.user = u]),
             UNCHANGED <<config, tokens, drawn, mailed, opened, moved, proven, overlapped, redeemed>>
      PROVE  IInv'
  <2>1. requests[r].email \in Email
    BY DEF Provision, IInv, FlowsSound, FlowSound
  <2>. QED
    BY <1>2, <2>1, CreateStep
<1>. QED
  BY <1>1, <1>2 DEF Provision

LEMMA RecreateStep ==
  ASSUME IInv, NEW r \in Request, Recreate(r)
  PROVE  IInv'
<1>1. CASE Finish(r) /\ Reads
  BY <1>1, EndStep
<1>2. ASSUME NEW u \in User, CreateUser(u, requests[r].email),
             Goto(r, [requests[r] EXCEPT !.pc = "verify", !.user = u]),
             UNCHANGED <<config, tokens, drawn, mailed, opened, moved, proven, overlapped, redeemed>>
      PROVE  IInv'
  <2>1. requests[r].email \in Email /\ requests[r].pc = "recreate"
    BY DEF Recreate, IInv, FlowsSound, FlowSound
  <2>. QED
    BY <1>2, <2>1, CreateStep
<1>. QED
  BY <1>1, <1>2 DEF Recreate

LEMMA CheckActiveStep ==
  ASSUME IInv, NEW r \in Request, CheckActive(r)
  PROVE  IInv'
<1>. USE DEF IInv
<1>. DEFINE e == requests[r].email
            q == [requests[r] EXCEPT !.pc = "latest"]
<1>1. CASE Finish(r) /\ Reads
  BY <1>1, EndStep
<1>2. CASE ~(Finish(r) /\ Reads)
  <2>1. /\ requests[r].pc = "active" /\ ActiveTokens(e) = {} /\ Goto(r, q)
        /\ overlapped' = IF PastCheck(e) = {} THEN overlapped ELSE overlapped \cup {e}
        /\ UNCHANGED <<config, users, tokens, drawn, mailed, opened, created, moved,
                       proven, redeemed>>
    BY <1>2 DEF CheckActive
  <2>2. e \in Email
    BY <2>1 DEF FlowsSound, FlowSound
  <2>3. /\ q \in Local /\ q.pc = "latest" /\ q.user = requests[r].user
        /\ q.email = requests[r].email
    BY Onward DEF PC
  <2>. HIDE DEF q
  <2>4. /\ requests' \in [Request -> Local] /\ requests'[r] = q
        /\ \A x \in Request : x # r => requests'[x] = requests[x]
    BY <2>1, <2>3, Landed
  <2>5. Steady
    BY <2>1 DEF Steady, Exists, Drawn
  <2>6. TypeOK' /\ UsersCreated'
    BY <2>1, <2>2, <2>4 DEF TypeOK, UsersCreated, Exists
  <2>7. FlowSound(r)'
    BY <2>1, <2>3, <2>4 DEF FlowsSound, FlowSound, Holding, Exists
  <2>8. FlowsSound'
    BY <2>4, <2>5, <2>7, FlowKept DEF FlowsSound
  <2>9. TokensSound'
    BY <2>1, <2>5, <2>6, TokensKept DEF TokensSound
  <2>10. \A x \in Request : requests'[x].pc \in Holding =>
            requests[x].pc \in Holding /\ requests'[x].token = requests[x].token
    BY <2>3, <2>4 DEF Holding
  <2>11. PastAlone'
    <3>1. \A x \in Request : requests[x].pc \in PastLook /\ requests[x].email = e => e \in overlapped'
      BY <2>1 DEF PastCheck, PastLook
    <3>. QED
      BY <2>3, <2>4, <2>5, <3>1 DEF PastAlone, Steady
  <2>12. PastNoneGood'
    <3>1. \A f : ActiveTokens(f)' = ActiveTokens(f)
      BY <2>1 DEF ActiveTokens, Usable
    <3>. QED
      BY <2>1, <2>3, <2>4, <2>5, <3>1 DEF PastNoneGood, Steady
  <2>. QED
    BY <2>1, <2>5, <2>6, <2>8, <2>9, <2>10, <2>11, <2>12, OpenedKept, VerifiedKept, HoldersKept
       DEF Exists
<1>. QED
  BY <1>1, <1>2

\* Rows of the token table go, and the flow of slot r moves on.
LEMMA TokensLose ==
  ASSUME IInv,
         tokens' \in [Token -> TokenRow \cup {NoToken}],
         \A t \in Token : tokens'[t] = tokens[t] \/ tokens'[t] = NoToken,
         mailed' = StillMailed,
         UNCHANGED <<config, users, drawn, opened, history>>,
         requests' \in [Request -> Local],
         \A x \in Request :
            \/ requests'[x] = requests[x]
            \/ /\ FlowSound(x)'
               /\ requests'[x].pc \notin Holding
               /\ requests'[x].pc \in PastLook =>
                     requests[x].pc \in PastLook /\ requests'[x].email = requests[x].email
  PROVE  IInv'
<1>. USE DEF IInv
<1>1. UNCHANGED <<created, moved, proven, overlapped, redeemed>>
  BY DEF history
<1>2. Steady
  BY <1>1 DEF Steady, Exists, Drawn
<1>3. mailed' \subseteq {t \in Token : tokens'[t] # NoToken}
  BY DEF StillMailed, TypeOK
<1>4. TypeOK' /\ UsersCreated'
  BY <1>1, <1>3 DEF TypeOK, UsersCreated, Exists
<1>. QED
  BY <1>1, <1>2, <1>4, Calm DEF Usable, Exists

LEMMA WithdrawStep ==
  ASSUME IInv, NEW r \in Request, Withdraw(r)
  PROVE  IInv'
<1>. USE DEF IInv
<1>. DEFINE q == [requests[r] EXCEPT !.pc = "store"]
<1>1. Goto(r, q) /\ requests[r].pc = "withdraw"
  BY DEF Withdraw
<1>2. /\ q \in Local /\ q.pc = "store" /\ q.user = requests[r].user
      /\ q.email = requests[r].email
  BY Onward DEF PC
<1>. HIDE DEF q
<1>3. /\ requests' \in [Request -> Local] /\ requests'[r] = q
      /\ \A x \in Request : x # r => requests'[x] = requests[x]
  BY <1>1, <1>2, Landed
<1>4. FlowSound(r)'
  BY <1>1, <1>2, <1>3 DEF Withdraw, history, FlowsSound, FlowSound, Holding, Exists
<1>5. /\ tokens' \in [Token -> TokenRow \cup {NoToken}]
      /\ \A t \in Token : tokens'[t] = tokens[t] \/ tokens'[t] = NoToken
  BY DEF Withdraw, Withdrawn, TypeOK
<1>6. mailed' = StillMailed /\ UNCHANGED <<config, users, drawn, opened, history>>
  BY DEF Withdraw
<1>7. \A x \in Request : \/ requests'[x] = requests[x]
                         \/ /\ FlowSound(x)' /\ requests'[x].pc \notin Holding
                            /\ requests'[x].pc \in PastLook =>
                                  requests[x].pc \in PastLook /\ requests'[x].email = requests[x].email
  BY <1>1, <1>2, <1>3, <1>4 DEF Holding, PastLook
<1>. QED
  BY <1>3, <1>5, <1>6, <1>7, TokensLose

LEMMA DeleteExpiredStep ==
  ASSUME IInv, DeleteExpired
  PROVE  IInv'
<1>1. /\ tokens' \in [Token -> TokenRow \cup {NoToken}]
      /\ \A t \in Token : tokens'[t] = tokens[t] \/ tokens'[t] = NoToken
  BY DEF DeleteExpired, IInv, TypeOK
<1>. QED
  BY <1>1, TokensLose DEF DeleteExpired, IInv, TypeOK

LEMMA SendStep ==
  ASSUME IInv, NEW r \in Request, Send(r)
  PROVE  IInv'
<1>. USE DEF IInv
<1>1. UNCHANGED <<config, users, tokens, drawn, opened, created, moved, proven, overlapped, redeemed>>
  BY DEF Send, history
<1>2. /\ requests' \in [Request -> Local] /\ requests'[r] = Idle
      /\ \A x \in Request : x # r => requests'[x] = requests[x]
  BY IdleTyped, Landed DEF Send, Finish
<1>3. requests[r].token \in Token
  BY DEF Send, FlowsSound, FlowSound
<1>4. mailed' \subseteq {t \in Token : tokens[t] # NoToken}
  BY <1>3 DEF Send, TypeOK
<1>5. Steady /\ TypeOK' /\ UsersCreated'
  BY <1>1, <1>2, <1>4, SteadyReads DEF TypeOK, UsersCreated, Exists
<1>6. FlowSound(r)'
  BY <1>2, IdleTyped DEF FlowSound, Holding
<1>. QED
  BY <1>1, <1>2, <1>5, <1>6, IdleTyped, Calm DEF Holding, PastLook, Usable, Exists

LEMMA StoreStep ==
  ASSUME IInv, NEW r \in Request, Store(r)
  PROVE  IInv'
<1>. USE DEF IInv
<1>1. CASE ~Exists(requests[r].user)
  BY <1>1, ThrownStep DEF Store
<1>2. CASE Exists(requests[r].user)
  <2>. DEFINE e == requests[r].email
              u == requests[r].user
  <2>1. PICK t \in Token :
           /\ \A i \in DOMAIN drawn : drawn[i] # t
           /\ tokens' = [tokens EXCEPT ![t] = NewToken(requests[r])]
           /\ drawn' = Append(drawn, t)
           /\ Goto(r, [requests[r] EXCEPT !.pc = "send", !.token = t])
    BY <1>2 DEF Store
  <2>2. UNCHANGED <<config, users, mailed, opened, created, moved, proven, overlapped, redeemed>>
    BY <1>2 DEF Store, Reads, history
  <2>3. /\ requests[r].pc = "store" /\ e \in Email /\ u \in created /\ u \in User
        /\ users[u].email = e \/ u \in moved
    BY <1>2 DEF Store, FlowsSound, FlowSound, TypeOK
  <2>. DEFINE q == [requests[r] EXCEPT !.pc = "send", !.token = t]
  <2>4. q \in Local /\ q.pc = "send" /\ q.user = u /\ q.email = e /\ q.token = t
    <3>1. requests[r] \in Local
      BY DEF TypeOK
    <3>. QED
      BY <3>1 DEF Local, PC
  <2>. HIDE DEF q
  <2>5. /\ requests' \in [Request -> Local] /\ requests'[r] = q
        /\ \A x \in Request : x # r => requests'[x] = requests[x]
    BY <2>1, <2>4, Landed DEF q
  <2>6. /\ NewToken(requests[r]) \in TokenRow
        /\ NewToken(requests[r]).email = e /\ NewToken(requests[r]).user = u
    BY <2>3 DEF NewToken, TokenRow
  <2>7. /\ tokens' \in [Token -> TokenRow \cup {NoToken}]
        /\ tokens'[t] # NoToken /\ tokens'[t].email = e /\ tokens'[t].user = u
        /\ \A x \in Token : x # t => tokens'[x] = tokens[x]
    BY <2>1, <2>6 DEF TypeOK
  <2>8. /\ drawn' \in Seq(Token) /\ ~Drawn(t) /\ Drawn(t)'
        /\ \A x \in Token : Drawn(x) => Drawn(x)'
        /\ \A i, j \in DOMAIN drawn' : drawn'[i] = drawn'[j] => i = j
        /\ \A i \in DOMAIN drawn' : drawn'[i] \in Token
    <3>1. drawn \in Seq(Token) /\ \A i, j \in DOMAIN drawn : drawn[i] = drawn[j] => i = j
      BY DEF TypeOK
    <3>2. /\ drawn' \in Seq(Token)
          /\ DOMAIN drawn = 1..Len(drawn) /\ Len(drawn) \in Nat
          /\ DOMAIN drawn' = 1..(Len(drawn) + 1)
          /\ drawn'[Len(drawn) + 1] = t
          /\ \A i \in DOMAIN drawn : drawn'[i] = drawn[i]
      BY <3>1, <2>1
    <3>3. \A i \in DOMAIN drawn' : i \in DOMAIN drawn \/ i = Len(drawn) + 1
      BY <3>2
    <3>. QED
      BY <3>1, <3>2, <3>3, <2>1 DEF Drawn
  <2>9. tokens[t] = NoToken
    BY <2>8 DEF TokensSound
  <2>10. Steady
    BY <2>2, <2>7, <2>8 DEF Steady, Exists
  <2>11. TypeOK' /\ UsersCreated'
    BY <1>2, <2>2, <2>5, <2>7, <2>8, <2>9 DEF TypeOK, UsersCreated, Exists
  <2>12. FlowSound(r)'
    BY <2>2, <2>3, <2>4, <2>5 DEF FlowSound, Holding, Exists
  <2>13. FlowsSound'
    BY <2>5, <2>10, <2>12, FlowKept DEF FlowsSound
  <2>14. TokensSound'
    <3>1. ASSUME NEW x \in Token, tokens'[x] # NoToken, x # t
          PROVE  /\ Drawn(x)'
                 /\ users'[tokens'[x].user].email = tokens'[x].email \/ tokens'[x].user \in moved'
      BY <2>7, <2>10, <2>11, <3>1, TokensKept
    <3>2. Drawn(t)' /\ (users'[tokens'[t].user].email = tokens'[t].email \/ tokens'[t].user \in moved')
      BY <2>2, <2>3, <2>7, <2>8
    <3>. QED
      BY <3>1, <3>2 DEF TokensSound
  <2>15. \A x \in Request : requests'[x].pc \in Holding =>
            requests[x].pc \in Holding /\ requests'[x].token = requests[x].token
    BY <2>4, <2>5 DEF Holding
  \* Any other request past its check is for another address or on record.
  <2>16. \A x \in Request : requests'[x].pc \in PastLook =>
            /\ x # r /\ requests'[x] = requests[x]
            /\ requests[x].email # e \/ requests[x].email \in overlapped
    BY <2>3, <2>4, <2>5 DEF PastLook, PastAlone
  <2>17. PastAlone'
    BY <2>2, <2>16 DEF PastAlone
  <2>18. PastNoneGood'
    <3>1. \A f : f # e /\ ActiveTokens(f) = {} => ActiveTokens(f)' = {}
      BY <2>7 DEF ActiveTokens, Usable
    <3>. QED
      BY <2>2, <2>16, <3>1 DEF PastNoneGood
  <2>. QED
    BY <2>2, <2>8, <2>10, <2>11, <2>13, <2>14, <2>15, <2>17, <2>18,
       OpenedKept, VerifiedKept, HoldersKept DEF Exists
<1>. QED
  BY <1>1, <1>2

\* A token is used, and one flow holds it from here on.
LEMMA ClaimStep ==
  ASSUME IInv, NEW r \in Request, NEW t \in Token, NEW q \in Local, Claim(r, t, q),
         Unused(t), q.pc = "resolve", q.token = t, q.email = tokens[t].email,
         q.user \in created, q.owner = q.user,
         Exists(q.user) => users[q.user].email = q.email \/ q.user \in moved
  PROVE  IInv'
<1>. USE DEF IInv
<1>1. /\ tokens' = [tokens EXCEPT ![t].used = TRUE]
      /\ proven' = proven \cup {tokens[t].email}
      /\ UNCHANGED <<config, users, drawn, mailed, opened, created, moved, overlapped, redeemed>>
  BY DEF Claim
<1>2. /\ requests' \in [Request -> Local] /\ requests'[r] = q
      /\ \A x \in Request : x # r => requests'[x] = requests[x]
  BY Landed DEF Claim
<1>3. tokens[t] \in TokenRow /\ ~tokens[t].used /\ Drawn(t)
  BY DEF Unused, TypeOK, TokensSound
<1>4. /\ tokens' \in [Token -> TokenRow \cup {NoToken}]
      /\ tokens'[t] # NoToken /\ tokens'[t].used
      /\ tokens'[t].email = tokens[t].email /\ tokens'[t].user = tokens[t].user
      /\ \A x \in Token : x # t => tokens'[x] = tokens[x]
  <2>1. [tokens[t] EXCEPT !.used = TRUE] \in TokenRow
    BY <1>3 DEF TokenRow
  <2>2. tokens' = [tokens EXCEPT ![t] = [tokens[t] EXCEPT !.used = TRUE]]
    BY <1>1 DEF TypeOK
  <2>. QED
    BY <1>3, <2>1, <2>2 DEF TypeOK, TokenRow
<1>5. \A x \in Token : (tokens'[x] # NoToken <=> tokens[x] # NoToken) /\ (Usable(x)' => Usable(x))
  BY <1>3, <1>4 DEF Usable
<1>6. Steady
  BY <1>1, <1>4, <1>5 DEF Steady, Exists, Drawn
<1>7. TypeOK' /\ UsersCreated'
  <2>1. tokens[t].email \in Email
    BY <1>3 DEF TokenRow
  <2>2. \A x \in Token : tokens'[x] # NoToken => tokens'[x].user = tokens[x].user
    BY <1>4
  <2>. QED
    BY <1>1, <1>2, <1>4, <1>5, <2>1, <2>2 DEF TypeOK, UsersCreated, Exists
<1>8. FlowSound(r)'
  BY <1>1, <1>2, <1>3, <1>4 DEF FlowSound, Holding, Exists, Drawn, TokenRow
<1>9. FlowsSound'
  BY <1>2, <1>6, <1>8, FlowKept DEF FlowsSound
<1>10. TokensSound'
  BY <1>5, <1>6, <1>7, TokensKept DEF TokensSound
\* Nobody held it: a held token is used or gone.
<1>11. \A x \in Request : requests[x].pc \in Holding => requests[x].token # t
  BY <1>3 DEF FlowsSound, FlowSound, Unused
<1>12. SoleHolder' /\ HeldNotRedeemed' /\ RedeemedSpent'
  <2>1. t \notin redeemed
    BY <1>3 DEF RedeemedSpent, Unused
  <2>2. SoleHolder' /\ HeldNotRedeemed'
    BY <1>1, <1>2, <1>11, <2>1 DEF SoleHolder, HeldNotRedeemed
  <2>3. RedeemedSpent'
    BY <1>1, <1>6 DEF RedeemedSpent, Steady, TypeOK
  <2>. QED
    BY <2>2, <2>3
<1>13. \A x \in Request : requests'[x].pc \in PastLook =>
          requests[x].pc \in PastLook /\ requests'[x].email = requests[x].email
  BY <1>2 DEF PastLook
<1>. QED
  BY <1>1, <1>5, <1>6, <1>7, <1>9, <1>10, <1>12, <1>13, OpenedKept, VerifiedKept, PastKept
     DEF Exists

LEMMA ConsumeStep ==
  ASSUME IInv, NEW r \in Request, NEW t \in Token, Consume(r, t)
  PROVE  IInv'
<1>. USE DEF IInv
<1>. DEFINE q == [Idle EXCEPT !.pc = "resolve", !.user = tokens[t].user,
                              !.email = tokens[t].email, !.token = t,
                              !.owner = tokens[t].user]
<1>1. Claim(r, t, q) /\ Unused(t)
  BY DEF Consume, Usable, Unused
<1>2. /\ tokens[t].user \in User /\ tokens[t].email \in Email /\ tokens[t].user \in created
      /\ users[tokens[t].user].email = tokens[t].email \/ tokens[t].user \in moved
  BY <1>1 DEF Unused, TypeOK, TokenRow, TokensSound, UsersCreated
<1>3. /\ q \in Local /\ q.pc = "resolve" /\ q.user = tokens[t].user /\ q.owner = tokens[t].user
      /\ q.email = tokens[t].email /\ q.token = t
  BY <1>2 DEF Idle, Local, PC
<1>. HIDE DEF q
<1>. QED
  BY <1>1, <1>2, <1>3, ClaimStep

LEMMA ClaimOtpStep ==
  ASSUME IInv, NEW r \in Request, ClaimOtp(r)
  PROVE  IInv'
<1>. USE DEF IInv
<1>1. CASE ~Unused(requests[r].token)
  BY <1>1, EndStep DEF ClaimOtp
<1>2. CASE Unused(requests[r].token)
  <2>. DEFINE q == [requests[r] EXCEPT !.pc = "resolve"]
              t == requests[r].token
  <2>1. Claim(r, t, q) /\ requests[r].pc = "claim"
    BY <1>2 DEF ClaimOtp
  <2>2. /\ t \in Token /\ requests[r].user \in created /\ requests[r].owner = requests[r].user
        /\ tokens[t].email = requests[r].email
        /\ Exists(requests[r].user) =>
              users[requests[r].user].email = requests[r].email \/ requests[r].user \in moved
    BY <1>2, <2>1 DEF FlowsSound, FlowSound, Unused
  <2>3. /\ q \in Local /\ q.pc = "resolve" /\ q.user = requests[r].user
        /\ q.owner = requests[r].owner /\ q.email = requests[r].email /\ q.token = t
    BY Onward DEF PC
  <2>. HIDE DEF q, t
  <2>. QED
    BY <1>2, <2>1, <2>2, <2>3, ClaimStep DEF t
<1>. QED
  BY <1>1, <1>2

LEMMA MarkVerifiedStep ==
  ASSUME IInv, NEW r \in Request, MarkVerified(r)
  PROVE  IInv'
<1>. USE DEF IInv
<1>1. CASE ~Exists(requests[r].user)
  BY <1>1, EndStep DEF MarkVerified
<1>2. CASE Exists(requests[r].user)
  <2>. DEFINE q == [requests[r] EXCEPT !.pc = "complete"]
              u == requests[r].user
  <2>1. /\ requests[r].pc = "verify" /\ Goto(r, q)
        /\ users' = [users EXCEPT ![u].verified = TRUE]
        /\ UNCHANGED <<config, tokens, drawn, mailed, opened, created, moved, proven,
                       overlapped, redeemed>>
    BY <1>2 DEF MarkVerified, history
  <2>2. /\ u \in created /\ u \in User
        /\ users[u].email \in proven \/ u \in moved
    BY <1>2, <2>1 DEF FlowsSound, FlowSound, Holding, TypeOK
  <2>3. /\ q \in Local /\ q.pc = "complete" /\ q.user = u /\ q.email = requests[r].email
        /\ q.token = requests[r].token /\ q.owner = requests[r].owner
    BY Onward DEF PC
  <2>. HIDE DEF q
  <2>4. /\ requests' \in [Request -> Local] /\ requests'[r] = q
        /\ \A x \in Request : x # r => requests'[x] = requests[x]
    BY <2>1, <2>3, Landed
  <2>5. /\ users' \in [User -> UserRow \cup {NoUser}]
        /\ users'[u] # NoUser /\ users'[u].email = users[u].email
        /\ \A v \in User : v # u => users'[v] = users[v]
    <3>1. users[u] \in UserRow
      BY <1>2, <2>2 DEF Exists, TypeOK
    <3>2. /\ [users[u] EXCEPT !.verified = TRUE] \in UserRow
          /\ [users[u] EXCEPT !.verified = TRUE].email = users[u].email
      BY <3>1 DEF UserRow
    <3>3. users' = [users EXCEPT ![u] = [users[u] EXCEPT !.verified = TRUE]]
      BY <2>1 DEF TypeOK
    <3>. HIDE DEF u
    <3>. QED
      BY <2>2, <3>2, <3>3 DEF TypeOK
  <2>6. \A v \in User : (users'[v] # NoUser <=> users[v] # NoUser) /\ users'[v].email = users[v].email
    BY <1>2, <2>5 DEF Exists
  <2>7. Steady
    BY <2>1, <2>6 DEF Steady, Exists, Drawn, TypeOK
  <2>8. TypeOK' /\ UsersCreated'
    <3>1. \A t \in Token : tokens[t] # NoToken => tokens[t].user \in User
      BY DEF TypeOK, TokenRow
    <3>2. opened # Nil => opened.user \in User
      BY DEF TypeOK, Session
    <3>. QED
      BY <2>1, <2>4, <2>5, <2>6, <3>1, <3>2 DEF TypeOK, UsersCreated, Exists
  <2>9. FlowSound(r)'
    <3>1. /\ requests[r].owner \in created /\ requests[r].owner \in User
          /\ u = requests[r].owner \/ users[requests[r].owner] = NoUser
      BY <2>1 DEF FlowsSound, FlowSound, Holding, Exists, TypeOK
    <3>2. u = requests[r].owner \/ users'[requests[r].owner] = NoUser
      BY <2>6, <3>1
    <3>3. /\ requests[r].token \in Token /\ Drawn(requests[r].token)
          /\ requests[r].email \in Email /\ requests[r].email \in proven
          /\ tokens[requests[r].token] # NoToken =>
                /\ tokens[requests[r].token].email = requests[r].email
                /\ tokens[requests[r].token].used
          /\ users[u].email = requests[r].email \/ u \in moved
      BY <1>2, <2>1 DEF FlowsSound, FlowSound, Holding
    <3>. HIDE DEF u
    <3>. QED
      BY <2>1, <2>2, <2>3, <2>4, <2>6, <3>1, <3>2, <3>3 DEF FlowSound, Holding, Exists, Drawn
  <2>10. FlowsSound'
    BY <2>4, <2>7, <2>9, FlowKept DEF FlowsSound
  <2>11. TokensSound'
    BY <2>1, <2>7, <2>8, TokensKept DEF TokensSound
  <2>12. VerifiedWasProven'
    BY <2>1, <2>2, <2>5, <2>6 DEF VerifiedWasProven, Exists
  <2>13. \A x \in Request : requests'[x].pc \in Holding =>
            requests[x].pc \in Holding /\ requests'[x].token = requests[x].token
    BY <2>1, <2>3, <2>4 DEF Holding
  <2>14. \A x \in Request : requests'[x].pc \in PastLook =>
            requests[x].pc \in PastLook /\ requests'[x].email = requests[x].email
    BY <2>3, <2>4 DEF PastLook
  <2>. QED
    BY <2>1, <2>7, <2>8, <2>10, <2>11, <2>12, <2>13, <2>14, OpenedKept, HoldersKept, PastKept
       DEF Usable
<1>. QED
  BY <1>1, <1>2

\* A sign-in is completed: Complete with the flow's token, Issue with none.
LEMMA OpenStep ==
  ASSUME IInv, NEW r \in Request, NEW t \in Token \cup {Nil}, NEW o \in User \cup {Nil},
         requests[r].user \in User, Exists(requests[r].user),
         opened' = [user |-> requests[r].user, token |-> t, owner |-> o],
         Finish(r),
         UNCHANGED <<config, users, tokens, drawn, mailed, created, moved, proven, overlapped>>,
         IF t = Nil THEN redeemed' = redeemed
         ELSE /\ redeemed' = redeemed \cup {t}
              /\ requests[r].pc = "complete" /\ t = requests[r].token /\ o = requests[r].owner
  PROVE  IInv'
<1>. USE DEF IInv
<1>1. /\ requests' \in [Request -> Local] /\ requests'[r] = Idle
      /\ \A x \in Request : x # r => requests'[x] = requests[x]
  BY IdleTyped, Landed DEF Finish
<1>2. Steady
  BY SteadyReads
<1>3. opened' \in Session /\ opened'.user = requests[r].user
  BY DEF Session
<1>4. redeemed' \subseteq Token
  BY DEF TypeOK
<1>5. TypeOK' /\ UsersCreated'
  BY <1>1, <1>3, <1>4 DEF TypeOK, UsersCreated, Exists
<1>6. FlowSound(r)'
  BY <1>1, IdleTyped DEF FlowSound, Holding
<1>7. FlowsSound'
  BY <1>1, <1>2, <1>6, FlowKept DEF FlowsSound
<1>8. TokensSound'
  BY <1>2, <1>5, TokensKept DEF TokensSound
<1>9. OpenedSound' /\ LinkSignsInItsUser'
  <2>1. CASE t = Nil
    BY <2>1 DEF OpenedSound, LinkSignsInItsUser
  <2>2. CASE t # Nil
    <3>1. o \in created /\ (requests[r].user = o \/ ~Exists(o))
      BY <2>2 DEF FlowsSound, FlowSound, Holding
    <3>. QED
      BY <3>1 DEF OpenedSound, LinkSignsInItsUser, Exists
  <2>. QED
    BY <2>1, <2>2
<1>10. \A x \in Request : requests'[x].pc \in Holding \cup PastLook =>
          x # r /\ requests'[x] = requests[x]
  BY <1>1, IdleTyped DEF Holding, PastLook
<1>11. SoleHolder' /\ HeldNotRedeemed' /\ RedeemedSpent'
  <2>1. CASE t = Nil
    BY <1>2, <1>10, <2>1, HoldersKept
  <2>2. CASE t # Nil
    <3>1. \A x \in Request : x # r /\ requests[x].pc \in Holding => requests[x].token # t
      BY <2>2 DEF SoleHolder, Holding
    <3>2. Drawn(t) /\ (tokens[t] # NoToken => tokens[t].used)
      BY <2>2 DEF FlowsSound, FlowSound, Holding
    <3>. QED
      BY <1>10, <2>2, <3>1, <3>2 DEF SoleHolder, HeldNotRedeemed, RedeemedSpent, Drawn
  <2>. QED
    BY <2>1, <2>2
<1>12. PastAlone' /\ PastNoneGood'
  BY <1>2, <1>10, PastKept DEF Usable
<1>. QED
  BY <1>2, <1>5, <1>7, <1>8, <1>9, <1>11, <1>12, VerifiedKept DEF Exists

LEMMA CompleteStep ==
  ASSUME IInv, NEW r \in Request, Complete(r) \/ Issue(r)
  PROVE  IInv'
<1>. USE DEF IInv
<1>1. CASE ~Exists(requests[r].user)
  BY <1>1, EndStep DEF Complete, Issue
<1>2. CASE Exists(requests[r].user) /\ Complete(r)
  <2>1. requests[r].user \in User /\ requests[r].token \in Token /\ requests[r].owner \in User
    BY <1>2 DEF Complete, FlowsSound, FlowSound, Holding, TypeOK
  <2>. QED
    BY <1>2, <2>1, OpenStep DEF Complete, Reads
<1>3. CASE Exists(requests[r].user) /\ Issue(r)
  <2>1. requests[r].user \in User
    BY <1>3 DEF Issue, FlowsSound, FlowSound
  <2>. QED
    BY <1>3, <2>1, OpenStep DEF Issue, Reads, history
<1>. QED
  BY <1>1, <1>2, <1>3

-----------------------------------------------------------------------------
(* Time, and the other flows over these tables.                            *)

LEMMA AgeStep ==
  ASSUME IInv, NEW t \in Token, Age(t)
  PROVE  IInv'
<1>. USE DEF IInv
<1>. DEFINE a == IF tokens[t].age = "new" THEN "settled" ELSE "expired"
<1>1. tokens[t] \in TokenRow /\ UNCHANGED <<config, users, drawn, mailed, opened, requests,
        created, moved, proven, overlapped, redeemed>>
  BY DEF Age, TypeOK, history
<1>2. /\ [tokens[t] EXCEPT !.age = a] \in TokenRow
      /\ [tokens[t] EXCEPT !.age = a].email = tokens[t].email
      /\ [tokens[t] EXCEPT !.age = a].user = tokens[t].user
      /\ [tokens[t] EXCEPT !.age = a].used = tokens[t].used
  BY <1>1 DEF TokenRow
<1>3. tokens' = [tokens EXCEPT ![t] = [tokens[t] EXCEPT !.age = a]]
  BY DEF Age, TypeOK
<1>4. /\ tokens' \in [Token -> TokenRow \cup {NoToken}]
      /\ tokens'[t] = [tokens[t] EXCEPT !.age = a]
      /\ \A x \in Token : x # t => tokens'[x] = tokens[x]
  BY <1>2, <1>3 DEF TypeOK
<1>5. \A x \in Token : /\ tokens'[x] # NoToken <=> tokens[x] # NoToken
                       /\ tokens'[x].email = tokens[x].email /\ tokens'[x].user = tokens[x].user
                       /\ tokens'[x].used = tokens[x].used
  BY <1>1, <1>2, <1>4
<1>6. \A x \in Token : Usable(x)' => Usable(x)
  BY <1>4, <1>5 DEF Usable, Age
<1>7. Steady
  BY <1>1, <1>5 DEF Steady, Exists, Drawn
<1>8. TypeOK' /\ UsersCreated'
  BY <1>1, <1>4, <1>5 DEF TypeOK, UsersCreated, Exists
<1>. QED
  BY <1>1, <1>5, <1>6, <1>7, <1>8, Calm DEF Exists

LEMMA UpdateUserStep ==
  ASSUME IInv, NEW u \in User, NEW e \in Email, UpdateUser(u, e)
  PROVE  IInv'
<1>. USE DEF IInv
<1>1. /\ Exists(u) /\ users' = [users EXCEPT ![u].email = e] /\ moved' = moved \cup {u}
      /\ UNCHANGED <<config, tokens, drawn, mailed, opened, requests, created, proven,
                     overlapped, redeemed>>
  BY DEF UpdateUser
<1>2. users[u] \in UserRow
  BY <1>1 DEF TypeOK, Exists
<1>3. /\ [users[u] EXCEPT !.email = e] \in UserRow
      /\ [users[u] EXCEPT !.email = e].verified = users[u].verified
  BY <1>2 DEF UserRow
<1>4. users' = [users EXCEPT ![u] = [users[u] EXCEPT !.email = e]]
  BY <1>1 DEF TypeOK
<1>5. /\ users' \in [User -> UserRow \cup {NoUser}]
      /\ users'[u] = [users[u] EXCEPT !.email = e]
      /\ \A v \in User : v # u => users'[v] = users[v]
  BY <1>3, <1>4 DEF TypeOK
<1>6. \A v \in User : /\ users'[v] # NoUser <=> users[v] # NoUser
                      /\ users'[v].verified = users[v].verified
                      /\ v \in moved' \/ (v \notin moved /\ users'[v].email = users[v].email)
  BY <1>1, <1>2, <1>3, <1>5
<1>7. Steady
  BY <1>1, <1>6 DEF Steady, Exists, Drawn, TypeOK
<1>8. TypeOK' /\ UsersCreated'
  <2>1. \A t \in Token : tokens[t] # NoToken => tokens[t].user \in User
    BY DEF TypeOK, TokenRow
  <2>2. opened # Nil => opened.user \in User
    BY DEF TypeOK, Session
  <2>. QED
    BY <1>1, <1>5, <1>6, <2>1, <2>2 DEF TypeOK, UsersCreated, Exists
<1>. QED
  BY <1>1, <1>6, <1>7, <1>8, Calm DEF Exists, Usable

LEMMA DeleteUserStep ==
  ASSUME IInv, NEW u \in User, DeleteUser(u)
  PROVE  IInv'
<1>. USE DEF IInv
<1>1. /\ tokens' \in [Token -> TokenRow \cup {NoToken}]
      /\ \A t \in Token : tokens'[t] = tokens[t] \/ tokens'[t] = NoToken
      /\ \A t \in Token : tokens'[t] # NoToken => tokens'[t] = tokens[t] /\ tokens[t].user # u
  BY DEF DeleteUser, TokensWithout, TypeOK
<1>2. mailed' = StillMailed /\ UNCHANGED <<config, drawn, requests, created, proven, overlapped, redeemed>>
  BY DEF DeleteUser
<1>3. CASE UNCHANGED <<users, opened, moved>>
  <2>1. UNCHANGED <<config, users, drawn, opened, history>>
    BY <1>2, <1>3 DEF history
  <2>2. requests' \in [Request -> Local] /\ requests' = requests
    BY <1>2 DEF TypeOK
  <2>. QED
    BY <1>1, <1>2, <2>1, <2>2, TokensLose
<1>4. CASE /\ users' = [users EXCEPT ![u] = NoUser]
           /\ opened' = IF opened # Nil /\ opened.user = u THEN Nil ELSE opened
           /\ moved' = moved \ {u}
  <2>1. /\ users' \in [User -> UserRow \cup {NoUser}]
        /\ users'[u] = NoUser
        /\ \A v \in User : v # u => users'[v] = users[v]
    BY <1>4 DEF TypeOK
  <2>2. Steady
    BY <1>1, <1>2, <1>4, <2>1 DEF Steady, Exists, Drawn, TypeOK
  <2>3. TypeOK' /\ UsersCreated'
    <3>1. \A t \in Token : tokens'[t] # NoToken => Exists(tokens[t].user)'
      BY <1>1, <2>1 DEF TypeOK, TokenRow, Exists
    <3>2. mailed' \subseteq {t \in Token : tokens'[t] # NoToken}
      BY <1>2 DEF StillMailed, TypeOK
    <3>3. opened' # Nil => Exists(opened.user)'
      BY <1>4, <2>1 DEF TypeOK, Session, Exists
    <3>. QED
      BY <1>1, <1>2, <1>4, <2>1, <3>1, <3>2, <3>3 DEF TypeOK, UsersCreated, Exists
  <2>4. \A v \in User : Exists(v)' /\ users'[v].verified => Exists(v) /\ users[v].verified
    BY <2>1 DEF Exists
  <2>5. \A t \in Token : tokens'[t] # NoToken => tokens[t] # NoToken /\ (Usable(t)' => Usable(t))
    BY <1>1 DEF Usable
  <2>6. opened' = opened \/ opened' = Nil
    BY <1>4
  <2>. QED
    BY <1>2, <2>2, <2>3, <2>4, <2>5, <2>6, Calm
<1>. QED
  BY <1>3, <1>4 DEF DeleteUser

-----------------------------------------------------------------------------

LEMMA StutterStep ==
  ASSUME IInv, UNCHANGED vars
  PROVE  IInv'
<1>1. UNCHANGED <<config, users, tokens, drawn, mailed, opened, requests, created, moved,
                  proven, overlapped, redeemed>>
  BY DEF vars, history
<1>2. Steady
  BY <1>1, SteadyReads
<1>. QED
  BY <1>1, <1>2, Calm DEF IInv, TypeOK, UsersCreated, Exists, Usable

LEMMA NextIInv == IInv /\ [Next]_vars => IInv'
<1>. SUFFICES ASSUME IInv, [Next]_vars PROVE IInv'
  OBVIOUS
<1>1. ASSUME NEW r \in Request,
             \/ \E e \in Email : RequestLink(r, e)
             \/ \E u \in User : SignIn(r, u)
             \/ \E t \in Token : Consume(r, t) \/ VerifyOtp(r, t)
      PROVE  IInv'
  BY <1>1, BeginRequestStep, SignInStep, ConsumeStep, VerifyOtpStep DEF RequestLink
<1>2. ASSUME NEW r \in Request,
             \/ Provision(r) \/ CheckActive(r) \/ CheckCooldown(r) \/ Withdraw(r)
             \/ Store(r) \/ Send(r) \/ ClaimOtp(r)
      PROVE  IInv'
  BY <1>2, ProvisionStep, CheckActiveStep, CheckCooldownStep, WithdrawStep, StoreStep, SendStep,
     ClaimOtpStep
<1>3. ASSUME NEW r \in Request,
             \/ Resolve(r) \/ ResolveByEmail(r) \/ Recreate(r) \/ MarkVerified(r)
             \/ Complete(r) \/ Issue(r)
      PROVE  IInv'
  BY <1>3, ResolveStep, ResolveByEmailStep, RecreateStep, MarkVerifiedStep, CompleteStep
<1>4. ASSUME NEW r \in Request, Fail(r) \/ Abort(r)
      PROVE  IInv'
  BY <1>4, ThrownStep, EndStep DEF Fail, Abort
<1>5. ASSUME NEW u \in User, DeleteUser(u) \/ \E e \in Email : UpdateUser(u, e)
      PROVE  IInv'
  BY <1>5, DeleteUserStep, UpdateUserStep
<1>6. CASE DeleteExpired \/ \E t \in Token : Age(t)
  BY <1>6, DeleteExpiredStep, AgeStep
<1>7. CASE UNCHANGED vars
  BY <1>7, StutterStep
<1>. QED
  BY <1>1, <1>2, <1>3, <1>4, <1>5, <1>6, <1>7 DEF Next

LEMMA SpecIInv == Spec => []IInv
  BY InitIInv, NextIInv, PTL DEF Spec

\* Every reachable state of MagicLinks is well typed; in particular every
\* token has its user, and what was mailed is in the table.
THEOREM SpecTypeOK == Spec => []TypeOK
<1>1. IInv => TypeOK
  BY DEF IInv
<1>. QED
  BY <1>1, SpecIInv, PTL

\* A link or code signs in the user it was requested for, or one found by its
\* address once that user is gone (plugin.ts:763-788).
THEOREM SpecLinkSignsInItsUser == Spec => []LinkSignsInItsUser
<1>1. IInv => LinkSignsInItsUser
  BY DEF IInv
<1>. QED
  BY <1>1, SpecIInv, PTL

\* An address is marked verified only once a token sent to it came back, save
\* for users whose address was changed (plugin.ts:802-807).
THEOREM SpecVerifiedWasProven == Spec => []VerifiedWasProven
<1>1. IInv => VerifiedWasProven
  BY DEF IInv
<1>. QED
  BY <1>1, SpecIInv, PTL

-----------------------------------------------------------------------------
(* A link that is good stays.                                              *)

LEMMA GoodLinkKept ==
  ASSUME IInv, [Next]_vars,
         NEW t \in Token, Usable(t), tokens'[t] = NoToken, tokens[t].email \notin overlapped
  PROVE  \E u \in User : DeleteUser(u)
<1>. USE DEF IInv
<1>1. tokens[t] # NoToken /\ tokens[t] \in TokenRow /\ tokens[t].age # "expired" /\ Drawn(t)
  BY DEF Usable, TypeOK, TokensSound
<1>2. tokens' # tokens
  BY <1>1
<1>3. ASSUME NEW r \in Request, Withdraw(r)
      PROVE  FALSE
  <2>1. requests[r].email = tokens[t].email
    BY <1>1, <1>3 DEF Withdraw, Withdrawn, TokensOf
  <2>2. ActiveTokens(requests[r].email) = {}
    BY <1>3, <2>1 DEF PastNoneGood, PastLook, Withdraw
  <2>. QED
    BY <2>1, <2>2 DEF ActiveTokens
<1>4. ASSUME NEW x \in Token, tokens' = [tokens EXCEPT ![x].used = TRUE]
      PROVE  FALSE
  <2>1. tokens'[t] \in TokenRow
    BY <1>1, <1>4 DEF TypeOK, TokenRow
  <2>. QED
    BY <2>1
<1>5. ASSUME NEW x \in Token, Age(x)
      PROVE  FALSE
  <2>1. tokens'[t] \in TokenRow
    BY <1>1, <1>5 DEF Age, TypeOK, TokenRow
  <2>. QED
    BY <2>1
<1>6. ASSUME NEW r \in Request, Store(r)
      PROVE  FALSE
  BY <1>1, <1>6 DEF Store, TypeOK, Drawn, Reads
<1>7. ASSUME DeleteExpired
      PROVE  FALSE
  BY <1>1, <1>7 DEF DeleteExpired
<1>8. ASSUME NEW r \in Request,
             \/ \E e \in Email : RequestLink(r, e)
             \/ \E u \in User : SignIn(r, u)
             \/ \E x \in Token : Consume(r, x) \/ VerifyOtp(r, x)
      PROVE  FALSE
  <2>1. ASSUME NEW x \in Token, Consume(r, x)
        PROVE  FALSE
    BY <1>4, <2>1 DEF Consume, Claim
  <2>. QED
    BY <1>2, <1>8, <2>1 DEF RequestLink, BeginRequest, SignIn, VerifyOtp, Reads
<1>9. ASSUME NEW r \in Request, Provision(r) \/ CheckActive(r) \/ CheckCooldown(r) \/ Send(r)
                                \/ Fail(r) \/ Abort(r)
      PROVE  FALSE
  BY <1>2, <1>9 DEF Provision, CheckActive, CheckCooldown, Send, Fail, Abort, Reads
<1>10. ASSUME NEW r \in Request, ClaimOtp(r)
       PROVE  FALSE
  <2>1. requests[r].token \in Token
    BY <1>10 DEF ClaimOtp, FlowsSound, FlowSound, Holding
  <2>. QED
    BY <1>2, <1>4, <1>10, <2>1 DEF ClaimOtp, Claim, Reads
<1>11. ASSUME NEW r \in Request, \/ Resolve(r) \/ ResolveByEmail(r) \/ Recreate(r)
                                 \/ MarkVerified(r) \/ Complete(r) \/ Issue(r)
       PROVE  FALSE
  BY <1>2, <1>11 DEF Resolve, ResolveByEmail, Recreate, MarkVerified, Complete, Issue, Reads
<1>12. ASSUME NEW u \in User, NEW e \in Email, UpdateUser(u, e)
       PROVE  FALSE
  BY <1>2, <1>12 DEF UpdateUser
<1>13. CASE UNCHANGED vars
  BY <1>2, <1>13 DEF vars
<1>. QED
  BY <1>3, <1>5, <1>6, <1>7, <1>8, <1>9, <1>10, <1>11, <1>12, <1>13 DEF Next

\* A link or code that is still good goes only with its user, or when two
\* requests were both past the look for a good one (plugin.ts:614-622, 648).
THEOREM SpecGoodLinksStay == Spec => GoodLinksStay
<1>1. IInv /\ [Next]_vars =>
         [ \A t \in Token :
              Usable(t) /\ tokens'[t] = NoToken /\ tokens[t].email \notin overlapped =>
                  \E u \in User : DeleteUser(u) ]_vars
  BY GoodLinkKept
<1>. QED
  BY <1>1, SpecIInv, PTL DEF Spec, GoodLinksStay

-----------------------------------------------------------------------------
(* Links and codes implement Tickets.                                      *)

LEMMA HoldersAre ==
  ASSUME NEW t
  PROVE  /\ HoldersOf(t) = {r \in Request : requests[r].pc \in Holding /\ requests[r].token = t}
         /\ HoldersOf(t)' = {r \in Request : requests'[r].pc \in Holding /\ requests'[r].token = t}
  BY DEF HoldersOf, Holding

LEMMA HoldersStay ==
  ASSUME NEW t,
         \A p \in Request : requests'[p].pc \in Holding /\ requests'[p].token = t <=>
            requests[p].pc \in Holding /\ requests[p].token = t
  PROVE  HoldersOf(t)' = HoldersOf(t)
  BY HoldersAre

\* What the standing of a ticket says of the store, and the other way round.
LEMMA StandingSound ==
  ASSUME IInv, NEW t \in Token
  PROVE  /\ t \in redeemed => HoldersOf(t) = {} /\ Drawn(t) /\ ~Unused(t)
         /\ HoldersOf(t) # {} => Drawn(t) /\ ~Unused(t)
         /\ Unused(t) => Drawn(t)
<1>. USE DEF IInv
<1>1. t \in redeemed => HoldersOf(t) = {} /\ Drawn(t) /\ ~Unused(t)
  BY HoldersAre DEF HeldNotRedeemed, RedeemedSpent, Unused
<1>2. HoldersOf(t) # {} => Drawn(t) /\ ~Unused(t)
  BY HoldersAre DEF FlowsSound, FlowSound, Holding, Unused
<1>3. Unused(t) => Drawn(t)
  BY DEF TokensSound, Unused
<1>. QED
  BY <1>1, <1>2, <1>3

LEMMA SoleHolderOf ==
  ASSUME IInv, NEW r \in Request, requests[r].pc \in Holding
  PROVE  /\ requests[r].token \in Token /\ HoldersOf(requests[r].token) = {r}
         /\ State(requests[r].token) = "taken"
<1>. USE DEF IInv
<1>1. requests[r].token \in Token
  BY DEF FlowsSound, FlowSound
<1>2. HoldersOf(requests[r].token) = {r}
  BY HoldersAre DEF SoleHolder
<1>3. requests[r].token \notin redeemed
  BY DEF HeldNotRedeemed
<1>. QED
  BY <1>1, <1>2, <1>3 DEF State

\* The standing of every ticket but t after a step.
LEMMA OthersStand ==
  ASSUME NEW t \in Token,
         \A x \in Token \ {t} :
            /\ x \in redeemed' <=> x \in redeemed
            /\ HoldersOf(x)' = HoldersOf(x)
            /\ tokens'[x] = tokens[x]
            /\ Drawn(x)' <=> Drawn(x),
         NEW v, NEW H, State(t)' = v, HoldersOf(t)' = H
  PROVE  /\ [x \in Token |-> State(x)]' = [[x \in Token |-> State(x)] EXCEPT ![t] = v]
         /\ [x \in Token |-> HoldersOf(x)]' = [[x \in Token |-> HoldersOf(x)] EXCEPT ![t] = H]
<1>1. \A x \in Token \ {t} : State(x)' = State(x)
  BY DEF State
<1>. QED
  BY <1>1

\* No flow claims or lets go of a token, and none is drawn.
LEMMA WithdrawTickets ==
  ASSUME IInv, redeemed' = redeemed, drawn' = drawn,
         \A t \in Token : HoldersOf(t)' = HoldersOf(t) /\ (Unused(t)' => Unused(t))
  PROVE  Ticketing!Withdraw
<1>1. ASSUME NEW t \in Token
      PROVE  /\ State(t)' = State(t) \/ (State(t) = "open" /\ State(t)' = "void")
             /\ State(t)' \in Ticketing!Standing
  <2>1. Drawn(t)' <=> Drawn(t)
    BY DEF Drawn
  <2>. QED
    BY <2>1, StandingSound DEF State, Unused, Ticketing!Standing
<1>2. /\ [t \in Token |-> State(t)]' \in [Token -> Ticketing!Standing]
      /\ [t \in Token |-> HoldersOf(t)]' = [t \in Token |-> HoldersOf(t)]
  BY <1>1
<1>. QED
  BY <1>1, <1>2 DEF Ticketing!Withdraw

\* A flow goes on, or gives up the token it holds.
LEMMA FlowTickets ==
  ASSUME IInv, NEW r \in Request, NEW q, Goto(r, q),
         UNCHANGED <<tokens, drawn, redeemed>>,
         q.pc \in Holding => requests[r].pc \in Holding /\ q.token = requests[r].token
  PROVE  Ticketing!Next
<1>1. requests'[r] = q /\ \A x \in Request : x # r => requests'[x] = requests[x]
  BY Landed DEF IInv
<1>2. CASE requests[r].pc \in Holding => q.pc \in Holding
  <2>1. ASSUME NEW x \in Token
        PROVE  HoldersOf(x)' = HoldersOf(x) /\ (Unused(x)' => Unused(x))
    <3>1. \A p \in Request : requests'[p].pc \in Holding /\ requests'[p].token = x <=>
             requests[p].pc \in Holding /\ requests[p].token = x
      BY <1>1, <1>2
    <3>. QED
      BY <3>1, HoldersStay DEF Unused
  <2>. QED
    BY <2>1, WithdrawTickets DEF Ticketing!Next
<1>3. CASE requests[r].pc \in Holding /\ q.pc \notin Holding
  <2>1. PICK t \in Token :
           t = requests[r].token /\ HoldersOf(t) = {r} /\ State(t) = "taken"
    BY <1>3, SoleHolderOf
  <2>2. t \notin redeemed /\ Drawn(t) /\ ~Unused(t)
    BY <2>1, StandingSound DEF State
  <2>3. HoldersOf(t)' = {}
    BY <1>1, <1>3, <2>1, HoldersAre
  <2>4. ASSUME NEW x \in Token \ {t}
        PROVE  HoldersOf(x)' = HoldersOf(x)
    <3>1. \A p \in Request : requests'[p].pc \in Holding /\ requests'[p].token = x <=>
             requests[p].pc \in Holding /\ requests[p].token = x
      BY <1>1, <1>3, <2>1
    <3>. QED
      BY <3>1, HoldersStay
  <2>5. State(t)' = "void"
    BY <2>2, <2>3 DEF State, Drawn, Unused
  <2>6. \A x \in Token : Drawn(x)' <=> Drawn(x)
    BY DEF Drawn
  <2>7. /\ [x \in Token |-> State(x)]' = [[x \in Token |-> State(x)] EXCEPT ![t] = "void"]
        /\ [x \in Token |-> HoldersOf(x)]' = [[x \in Token |-> HoldersOf(x)] EXCEPT ![t] = {}]
    BY <2>3, <2>4, <2>5, <2>6, OthersStand
  <2>8. Ticketing!GiveUp(t, r)
    BY <2>1, <2>7 DEF Ticketing!GiveUp
  <2>. QED
    BY <2>1, <2>8 DEF Ticketing!Next
<1>. QED
  BY <1>2, <1>3

\* A flow claims a token.
LEMMA TakeTickets ==
  ASSUME IInv, IInv', NEW r \in Request, NEW t \in Token, NEW q, Claim(r, t, q),
         requests[r].pc \notin Holding, q.pc \in Holding, q.token = t, Unused(t)
  PROVE  Ticketing!Next
<1>1. /\ requests'[r] = q /\ \A x \in Request : x # r => requests'[x] = requests[x]
      /\ tokens' = [tokens EXCEPT ![t].used = TRUE]
      /\ redeemed' = redeemed /\ drawn' = drawn
  BY Landed DEF IInv, Claim
<1>2. t \notin redeemed /\ HoldersOf(t) = {} /\ State(t) = "open"
  BY StandingSound DEF State, Unused
<1>3. HoldersOf(t)' = {r}
  BY <1>1, <1>2, HoldersAre
<1>4. ASSUME NEW x \in Token \ {t}
      PROVE  HoldersOf(x)' = HoldersOf(x) /\ tokens'[x] = tokens[x]
  <2>1. \A p \in Request : requests'[p].pc \in Holding /\ requests'[p].token = x <=>
           requests[p].pc \in Holding /\ requests[p].token = x
    BY <1>1
  <2>2. HoldersOf(x)' = HoldersOf(x)
    BY <2>1, HoldersStay
  <2>3. tokens'[x] = tokens[x]
    BY <1>1 DEF IInv, TypeOK
  <2>. QED
    BY <2>2, <2>3
<1>5. State(t)' = "taken"
  BY <1>1, <1>2, <1>3 DEF State
<1>6. \A x \in Token : Drawn(x)' <=> Drawn(x)
  BY <1>1 DEF Drawn
<1>7. /\ [x \in Token |-> State(x)]' = [[x \in Token |-> State(x)] EXCEPT ![t] = "taken"]
      /\ [x \in Token |-> HoldersOf(x)]' = [[x \in Token |-> HoldersOf(x)] EXCEPT ![t] = {r}]
  <2>1. \A x \in Token \ {t} :
           /\ x \in redeemed' <=> x \in redeemed
           /\ HoldersOf(x)' = HoldersOf(x)
           /\ tokens'[x] = tokens[x]
           /\ Drawn(x)' <=> Drawn(x)
    BY <1>1, <1>4, <1>6
  <2>. QED
    BY <1>3, <1>5, <2>1, OthersStand
<1>8. Ticketing!Take(t, r)
  BY <1>2, <1>7 DEF Ticketing!Take
<1>. QED
  BY <1>8 DEF Ticketing!Next

LEMMA AdmitTickets ==
  ASSUME IInv, IInv', NEW r \in Request, Complete(r), Exists(requests[r].user)
  PROVE  Ticketing!Next
<1>1. requests[r].pc \in Holding /\ requests'[r] = Idle
  BY Landed DEF IInv, Complete, Holding, Finish
<1>2. PICK t \in Token : t = requests[r].token /\ HoldersOf(t) = {r} /\ State(t) = "taken"
  BY <1>1, SoleHolderOf
<1>3. /\ \A x \in Request : x # r => requests'[x] = requests[x]
      /\ tokens' = tokens /\ drawn' = drawn /\ redeemed' = redeemed \cup {t}
  BY <1>2, Landed DEF IInv, Complete, Finish
<1>4. HoldersOf(t)' = {}
  BY <1>1, <1>2, <1>3, IdleTyped, HoldersAre DEF Holding
<1>5. ASSUME NEW x \in Token \ {t}
      PROVE  HoldersOf(x)' = HoldersOf(x)
  <2>1. \A p \in Request : requests'[p].pc \in Holding /\ requests'[p].token = x <=>
           requests[p].pc \in Holding /\ requests[p].token = x
    BY <1>1, <1>2, <1>3, IdleTyped DEF Holding
  <2>. QED
    BY <2>1, HoldersStay
<1>6. State(t)' = "used"
  BY <1>3 DEF State
<1>7. \A x \in Token : Drawn(x)' <=> Drawn(x)
  BY <1>3 DEF Drawn
<1>8. /\ [x \in Token |-> State(x)]' = [[x \in Token |-> State(x)] EXCEPT ![t] = "used"]
      /\ [x \in Token |-> HoldersOf(x)]' = [[x \in Token |-> HoldersOf(x)] EXCEPT ![t] = {}]
  BY <1>3, <1>4, <1>5, <1>6, <1>7, OthersStand
<1>9. Ticketing!Admit(t, r)
  BY <1>2, <1>8 DEF Ticketing!Admit
<1>. QED
  BY <1>2, <1>9 DEF Ticketing!Next

LEMMA DrawTickets ==
  ASSUME IInv, IInv', NEW r \in Request, Store(r), Exists(requests[r].user)
  PROVE  Ticketing!Next
<1>. USE DEF IInv
<1>1. PICK t \in Token :
         /\ ~Drawn(t)
         /\ tokens' = [tokens EXCEPT ![t] = NewToken(requests[r])]
         /\ drawn' = Append(drawn, t)
         /\ Goto(r, [requests[r] EXCEPT !.pc = "send", !.token = t])
         /\ redeemed' = redeemed
  BY DEF Store, Drawn
<1>2. /\ requests[r].pc \notin Holding /\ requests'[r].pc = "send"
      /\ \A x \in Request : x # r => requests'[x] = requests[x]
  <2>1. requests[r] \in Local /\ requests[r].pc = "store"
    BY DEF Store, TypeOK
  <2>2. [requests[r] EXCEPT !.pc = "send", !.token = t].pc = "send"
    BY <2>1 DEF Local
  <2>3. /\ requests'[r] = [requests[r] EXCEPT !.pc = "send", !.token = t]
        /\ \A x \in Request : x # r => requests'[x] = requests[x]
    BY <1>1, Landed
  <2>. QED
    BY <2>1, <2>2, <2>3 DEF Holding
<1>3. /\ tokens'[t] = NewToken(requests[r])
      /\ \A x \in Token \ {t} : tokens'[x] = tokens[x]
  BY <1>1 DEF TypeOK
<1>4. ASSUME NEW x \in Token
      PROVE  HoldersOf(x)' = HoldersOf(x)
  <2>1. \A p \in Request : requests'[p].pc \in Holding /\ requests'[p].token = x <=>
           requests[p].pc \in Holding /\ requests[p].token = x
    BY <1>2 DEF Holding
  <2>. QED
    BY <2>1, HoldersStay
<1>5. t \notin redeemed /\ HoldersOf(t) = {} /\ State(t) = "none"
  BY <1>1, StandingSound DEF State, Unused
<1>6. State(t)' = "open"
  <2>1. NewToken(requests[r]) # NoToken /\ ~NewToken(requests[r]).used
    <3>1. requests[r].email \in Email /\ requests[r].user \in User
      BY DEF Store, FlowsSound, FlowSound, TypeOK
    <3>2. NewToken(requests[r]) \in TokenRow /\ ~NewToken(requests[r]).used
      BY <3>1 DEF NewToken, TokenRow
    <3>. QED
      BY <3>2
  <2>. QED
    BY <1>1, <1>3, <1>4, <1>5, <2>1 DEF State
<1>7. \A x \in Token \ {t} : Drawn(x)' <=> Drawn(x)
  BY <1>1 DEF Drawn
<1>8. /\ [x \in Token |-> State(x)]' = [[x \in Token |-> State(x)] EXCEPT ![t] = "open"]
      /\ [x \in Token |-> HoldersOf(x)]' = [[x \in Token |-> HoldersOf(x)] EXCEPT ![t] = {}]
  BY <1>1, <1>3, <1>4, <1>5, <1>6, <1>7, OthersStand
<1>9. [x \in Token |-> HoldersOf(x)]' = [x \in Token |-> HoldersOf(x)]
  BY <1>4
<1>10. Ticketing!Draw(t)
  BY <1>5, <1>8, <1>9 DEF Ticketing!Draw
<1>. QED
  BY <1>10 DEF Ticketing!Next

LEMMA InitTickets == Init => Ticketing!Init
<1>. SUFFICES ASSUME Init PROVE Ticketing!Init
  OBVIOUS
<1>1. \A r \in Request : requests[r].pc \notin Holding
  BY IdleTyped DEF Init, Holding
<1>2. \A t \in Token : HoldersOf(t) = {} /\ State(t) = "none"
  BY <1>1, HoldersAre DEF Init, State, Drawn
<1>. QED
  BY <1>2 DEF Ticketing!Init

\* The flows and the store leave the tokens' standing alone, or withdraw some.
LEMMA QuietTickets ==
  ASSUME IInv, redeemed' = redeemed, drawn' = drawn,
         \A x \in Request : requests'[x].pc \in Holding \/ requests[x].pc \in Holding =>
            requests'[x] = requests[x],
         \A t \in Token : Unused(t)' => Unused(t)
  PROVE  Ticketing!Next
<1>1. ASSUME NEW t \in Token
      PROVE  HoldersOf(t)' = HoldersOf(t)
  <2>1. \A p \in Request : requests'[p].pc \in Holding /\ requests'[p].token = t <=>
           requests[p].pc \in Holding /\ requests[p].token = t
    OBVIOUS
  <2>. QED
    BY <2>1, HoldersStay
<1>. QED
  BY <1>1, WithdrawTickets DEF Ticketing!Next

LEMMA RequestTickets ==
  ASSUME IInv, NEW r \in Request,
         \/ \E e \in Email : RequestLink(r, e)
         \/ \E u \in User : SignIn(r, u)
         \/ Provision(r) \/ CheckActive(r) \/ CheckCooldown(r) \/ Send(r) \/ Fail(r)
         \/ Withdraw(r) \/ Issue(r) \/ (Store(r) /\ ~Exists(requests[r].user))
  PROVE  Ticketing!Next
<1>. USE DEF IInv
<1>1. ASSUME NEW q, Goto(r, q), q.pc \notin Holding, UNCHANGED <<tokens, drawn, redeemed>>
      PROVE  Ticketing!Next
  BY <1>1, FlowTickets
<1>2. requests[r] \in Local
  BY DEF TypeOK
<1>3. Thrown(requests[r]).pc \notin Holding
  BY <1>2, IdleTyped DEF Thrown, Idle, Holding
<1>4. ASSUME NEW e \in Email, NEW signIn \in BOOLEAN, BeginRequest(r, e, signIn)
      PROVE  Ticketing!Next
  <2>1. ASSUME NEW u \in User
        PROVE  [Idle EXCEPT !.pc = "active", !.user = u, !.email = e, !.signIn = signIn].pc = "active"
    BY DEF Idle
  <2>2. [Idle EXCEPT !.pc = "provision", !.email = e].pc = "provision"
    BY DEF Idle
  <2>. QED
    BY <1>1, <1>4, <2>1, <2>2 DEF BeginRequest, Reads, history, Holding
<1>5. ASSUME NEW u \in User, SignIn(r, u)
      PROVE  Ticketing!Next
  <2>1. CASE BeginRequest(r, users[u].email, TRUE)
    <3>1. users[u].email \in Email
      BY <1>5 DEF SignIn, Exists, TypeOK, UserRow
    <3>. QED
      BY <1>4, <2>1, <3>1
  <2>2. CASE Goto(r, Thrown([Idle EXCEPT !.user = u, !.signIn = TRUE])) /\ Reads
    <3>1. Thrown([Idle EXCEPT !.user = u, !.signIn = TRUE]).pc = "issue"
      BY DEF Thrown, Idle
    <3>. QED
      BY <1>1, <2>2, <3>1 DEF Reads, history, Holding
  <2>. QED
    BY <1>5, <2>1, <2>2 DEF SignIn
<1>6. CASE Provision(r) \/ CheckActive(r) \/ CheckCooldown(r) \/ Fail(r) \/ Issue(r)
           \/ (Store(r) /\ ~Exists(requests[r].user))
  <2>1. /\ \A x \in PC : [requests[r] EXCEPT !.pc = x].pc = x
        /\ \A u \in User : [requests[r] EXCEPT !.pc = "active", !.user = u].pc = "active"
    BY <1>2 DEF Local
  <2>. QED
    BY <1>1, <1>3, <1>6, <2>1, IdleTyped
       DEF Provision, CheckActive, CheckCooldown, Fail, Issue, Store, Finish, Reads, history,
           Holding, PC
<1>7. CASE Withdraw(r) \/ Send(r)
  <2>1. ASSUME NEW q, Goto(r, q), q.pc \notin Holding
        PROVE  \A x \in Request : requests'[x].pc \in Holding \/ requests[x].pc \in Holding =>
                  requests'[x] = requests[x]
    BY <1>7, <2>1, Landed DEF Withdraw, Send, Holding
  <2>2. [requests[r] EXCEPT !.pc = "store"].pc = "store"
    BY <1>2 DEF Local
  <2>3. \A t \in Token : Unused(t)' => Unused(t)
    BY <1>7 DEF Withdraw, Withdrawn, Send, Unused
  <2>. QED
    BY <1>7, <2>1, <2>2, <2>3, IdleTyped, QuietTickets DEF Withdraw, Send, Finish, history, Holding
<1>. QED
  BY <1>4, <1>5, <1>6, <1>7 DEF RequestLink

LEMMA UseTickets ==
  ASSUME IInv, IInv', NEW r \in Request,
         \/ \E t \in Token : Consume(r, t) \/ VerifyOtp(r, t)
         \/ ClaimOtp(r) \/ Resolve(r) \/ ResolveByEmail(r) \/ Recreate(r) \/ MarkVerified(r)
         \/ Complete(r) \/ Abort(r)
  PROVE  Ticketing!Next
<1>. USE DEF IInv
<1>1. requests[r] \in Local
  BY DEF TypeOK
<1>2. ASSUME NEW t \in Token, Consume(r, t)
      PROVE  Ticketing!Next
  <2>. DEFINE q == [Idle EXCEPT !.pc = "resolve", !.user = tokens[t].user,
                                !.email = tokens[t].email, !.token = t, !.owner = tokens[t].user]
  <2>1. q.pc = "resolve" /\ q.token = t /\ requests[r].pc = "idle" /\ Unused(t)
    BY <1>2, IdleTyped DEF Idle, Consume, Unused, Usable
  <2>2. Claim(r, t, q)
    BY <1>2 DEF Consume
  <2>. HIDE DEF q
  <2>. QED
    BY <2>1, <2>2, TakeTickets DEF Holding
<1>3. ASSUME NEW t \in Token, VerifyOtp(r, t)
      PROVE  Ticketing!Next
  <2>. DEFINE q == [Idle EXCEPT !.pc = "claim", !.user = tokens[t].user,
                                !.email = tokens[t].email, !.token = t, !.owner = tokens[t].user]
  <2>1. q.pc = "claim"
    BY DEF Idle
  <2>2. Goto(r, q) /\ UNCHANGED <<tokens, drawn, redeemed>>
    BY <1>3 DEF VerifyOtp, Reads, history
  <2>. HIDE DEF q
  <2>. QED
    BY <2>1, <2>2, FlowTickets DEF Holding
<1>4. ASSUME ClaimOtp(r), Unused(requests[r].token)
      PROVE  Ticketing!Next
  <2>. DEFINE q == [requests[r] EXCEPT !.pc = "resolve"]
  <2>1. q.pc = "resolve" /\ q.token = requests[r].token /\ requests[r].pc = "claim"
    BY <1>1, <1>4 DEF Local, ClaimOtp
  <2>2. Claim(r, requests[r].token, q) /\ requests[r].token \in Token
    BY <1>4 DEF ClaimOtp, FlowsSound, FlowSound
  <2>. HIDE DEF q
  <2>. QED
    BY <1>4, <2>1, <2>2, TakeTickets DEF Holding
<1>5. CASE \/ (ClaimOtp(r) /\ ~Unused(requests[r].token))
           \/ Resolve(r) \/ ResolveByEmail(r) \/ Recreate(r) \/ MarkVerified(r)
           \/ (Complete(r) /\ ~Exists(requests[r].user)) \/ Abort(r)
  <2>1. /\ \A x \in PC : [requests[r] EXCEPT !.pc = x].token = requests[r].token
        /\ \A u \in User :
              [requests[r] EXCEPT !.pc = "verify", !.user = u].token = requests[r].token
    BY <1>1 DEF Local
  <2>2. UNCHANGED <<tokens, drawn, redeemed>>
    BY <1>5 DEF ClaimOtp, Resolve, ResolveByEmail, Recreate, MarkVerified, Complete, Abort,
       Reads, history
  <2>3. \E q : /\ Goto(r, q)
               /\ q.pc \in Holding => requests[r].pc \in Holding /\ q.token = requests[r].token
    BY <1>5, <2>1, IdleTyped
       DEF ClaimOtp, Resolve, ResolveByEmail, Recreate, MarkVerified, Complete, Abort, Finish,
           Holding, PC
  <2>. QED
    BY <2>2, <2>3, FlowTickets
<1>6. CASE Complete(r) /\ Exists(requests[r].user)
  BY <1>6, AdmitTickets
<1>. QED
  BY <1>2, <1>3, <1>4, <1>5, <1>6 DEF ClaimOtp

LEMMA NextTickets == IInv /\ IInv' /\ [Next]_vars => [Ticketing!Next]_(Ticketing!vars)
<1>. SUFFICES ASSUME IInv, IInv', [Next]_vars PROVE Ticketing!Next
  OBVIOUS
<1>1. ASSUME NEW t \in Token, Age(t)
      PROVE  Ticketing!Next
  <2>1. tokens[t] \in TokenRow /\ tokens' = [tokens EXCEPT ![t].age = IF @ = "new" THEN "settled" ELSE "expired"]
    BY <1>1 DEF Age, IInv, TypeOK
  <2>2. \A x \in Token : Unused(x)' => Unused(x)
    BY <2>1 DEF Unused, IInv, TypeOK, TokenRow
  <2>. QED
    BY <1>1, <2>2, QuietTickets DEF Age, history
<1>2. CASE DeleteExpired
  BY <1>2, QuietTickets DEF DeleteExpired, history, Unused
<1>3. ASSUME NEW u \in User, DeleteUser(u) \/ \E e \in Email : UpdateUser(u, e)
      PROVE  Ticketing!Next
  BY <1>3, QuietTickets DEF DeleteUser, TokensWithout, UpdateUser, history, Unused
<1>4. CASE UNCHANGED vars
  BY <1>4, QuietTickets DEF vars, history, Unused
<1>5. ASSUME NEW r \in Request, Store(r), Exists(requests[r].user)
      PROVE  Ticketing!Next
  BY <1>5, DrawTickets
<1>. QED
  BY <1>1, <1>2, <1>3, <1>4, <1>5, RequestTickets, UseTickets DEF Next

\* Links and codes implement Tickets: a token is taken by one flow, only while
\* its row was there and unused, completes one sign-in, and what was burned or
\* withdrawn comes to nothing (plugin.ts:681-697, 732-741, 763-788,
\* magic-link-drizzle/src/pg/index.ts:128-178).
THEOREM SpecImplementsTickets == Spec => ImplementsTickets
  BY InitTickets, NextTickets, SpecIInv, PTL DEF Spec, ImplementsTickets, Ticketing!Spec

=============================================================================
