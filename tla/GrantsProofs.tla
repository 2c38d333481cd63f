---------------------------- MODULE GrantsProofs ----------------------------
(***************************************************************************)
(* For every set of users, apps, codes, tokens, families and scopes: the   *)
(* type invariant of Grants; that a code opens one family; that a refresh  *)
(* token never exceeds what its code granted; that a public client's       *)
(* families were opened with the PKCE verifier; that a family forks only   *)
(* by overlapping refreshes; and that a condemned family lets none of the  *)
(* tokens it then had back in.                                             *)
(*                                                                         *)
(* None but the first stands alone: a flow stores what it read some steps  *)
(* before, when the code, the user and the app may be gone.  The proof     *)
(* carries a flow's right to act along (Granted), which either still is    *)
(* that of its code's row or can no longer be used, because the foreign    *)
(* keys refuse what it would store.                                        *)
(***************************************************************************)
EXTENDS Grants, TLAPS

\* c is a code spent on behalf of user u and app a for the scope S at least;
\* once its row is gone nothing can be stored for them any more.
Granted(u, a, S, c) ==
    /\ c \in Code /\ codes[c] # Unused
    /\ codes[c] = Gone => ~Referable(u, a)
    /\ StoredCode(c) => /\ codes[c].user = u /\ codes[c].app = a /\ S \subseteq codes[c].scope
                        /\ codes[c].consumed
    /\ a \in Public => c \in proved

TokenSound(t) ==
    Stored(t) =>
        LET row == tokens[t] IN
        Referable(row.user, row.app) /\ Granted(row.user, row.app, row.scope, origin[row.family])

FlowSound(r) ==
    LET q == requests[r] IN
    /\ q.pc = "mint" => q.user \in User /\ q.app \in App /\ Granted(q.user, q.app, q.scope, q.code)
    /\ q.pc \in {"mark", "create"} =>
          /\ q.user \in User /\ q.app \in App /\ q.family \in Family
          /\ Granted(q.user, q.app, q.scope, origin[q.family])
    /\ q.pc = "mark" => q.tok \in Token
    /\ q.pc = "create" => q.tok \in Token
    /\ q.pc = "condemn" => q.family \in Family /\ origin[q.family] # Nil

TokensSound == \A t \in Token : TokenSound(t)

FlowsSound == \A r \in Request : FlowSound(r)

\* The code of a flow about to open a family has opened none, and is no other
\* flow's.
MintsFresh ==
    \A r \in Request : requests[r].pc = "mint" =>
        /\ \A f \in Family : origin[f] # requests[r].code
        /\ \A s \in Request : requests[s].pc = "mint" /\ requests[s].code = requests[r].code => s = r

\* A code that opened a family is spent.
OriginsSpent ==
    \A f \in Family : origin[f] # Nil =>
        codes[origin[f]] # Unused /\ (StoredCode(origin[f]) => codes[origin[f]].consumed)

\* Condemned families are in use; what is live in them came late.
CondemnedSound ==
    /\ \A f \in condemned : origin[f] # Nil
    /\ \A t \in Token : Live(t) /\ tokens[t].family \in condemned => t \in late

IInv ==
    /\ TypeOK
    /\ CodeOpensOneFamily
    /\ TokensSound
    /\ FlowsSound
    /\ MintsFresh
    /\ OriginsSpent
    /\ CondemnedSound

-----------------------------------------------------------------------------

USE ScopeAssumption, SentinelAssumption

LEMMA IdleTyped == Idle \in Local
  BY DEF Idle, Local, PC

LEMMA InitIInv == Init => IInv
  BY IdleTyped DEF Init, IInv, TypeOK, AppRow, CodeOpensOneFamily, TokensSound, TokenSound, Stored,
     FlowsSound, FlowSound, Idle, MintsFresh, OriginsSpent, CondemnedSound, Live

-----------------------------------------------------------------------------
(* How the tables may change under a flow that waits.                      *)

\* Code rows are never reused and keep what they grant; when one goes, its
\* user or its app is gone; users and apps do not come back.
CodesEvolve ==
    \A c \in Code : codes[c] # Unused =>
        /\ codes'[c] # Unused
        /\ codes[c] = Gone => codes'[c] = Gone
        /\ codes[c] # Gone /\ codes'[c] # Gone =>
              /\ codes'[c].user = codes[c].user /\ codes'[c].app = codes[c].app
              /\ codes'[c].scope = codes[c].scope
              /\ codes[c].consumed => codes'[c].consumed
        /\ codes[c] # Gone /\ codes'[c] = Gone =>
              codes[c].user \notin users' \/ apps'[codes[c].app] = Gone

OwnersOnlyGo ==
    /\ users' \subseteq users
    /\ \A a \in App : apps[a] = Gone => apps'[a] = Gone

OriginsStay == \A f \in Family : origin[f] # Nil => origin'[f] = origin[f]

Evolves == CodesEvolve /\ OwnersOnlyGo /\ OriginsStay /\ proved \subseteq proved'

\* A grant is kept as the tables evolve.
LEMMA GrantedKept ==
  ASSUME TypeOK, TypeOK', Evolves,
         NEW u \in User, NEW a \in App, NEW S, NEW c, Granted(u, a, S, c)
  PROVE  Granted(u, a, S, c)'
<1>. USE DEF Granted, Evolves, StoredCode
<1>1. CASE codes[c] = Gone
  <2>1. codes'[c] = Gone
    BY <1>1 DEF CodesEvolve
  <2>2. ~Referable(u, a)'
    BY <1>1 DEF OwnersOnlyGo, Referable
  <2>. QED
    BY <2>1, <2>2
<1>2. CASE codes[c] # Gone
  <2>1. codes[c].user = u /\ codes[c].app = a
    BY <1>2
  <2>2. codes'[c] = Gone => ~Referable(u, a)'
    BY <1>2, <2>1 DEF CodesEvolve, Referable
  <2>. QED
    BY <1>2, <2>2 DEF CodesEvolve
<1>. QED
  BY <1>1, <1>2

LEMMA FlowKept ==
  ASSUME TypeOK, TypeOK', Evolves, NEW r \in Request, FlowSound(r), UNCHANGED requests[r]
  PROVE  FlowSound(r)'
<1>. DEFINE q == requests[r]
<1>1. ASSUME q.user \in User, q.app \in App, NEW c, Granted(q.user, q.app, q.scope, c)
      PROVE  Granted(q.user, q.app, q.scope, c)'
  BY <1>1, GrantedKept
<1>2. q.pc = "mint" => Granted(q.user, q.app, q.scope, q.code)'
  BY <1>1 DEF FlowSound
<1>3. q.pc \in {"mark", "create"} => Granted(q.user, q.app, q.scope, origin[q.family])'
  <2>. SUFFICES ASSUME q.pc \in {"mark", "create"}
                PROVE  Granted(q.user, q.app, q.scope, origin[q.family])'
    OBVIOUS
  <2>1. q.family \in Family /\ origin[q.family] \in Code
    BY DEF FlowSound, Granted
  <2>2. origin'[q.family] = origin[q.family]
    BY <2>1 DEF Evolves, OriginsStay
  <2>. QED
    BY <1>1, <2>2 DEF FlowSound, Granted
<1>. QED
  BY <1>2, <1>3 DEF FlowSound, Evolves, OriginsStay

\* A token only loses standing, and goes with its user or app.
Fades(t) ==
    tokens'[t] \notin {Unused, Gone} =>
        /\ Stored(t)
        /\ tokens'[t].user = tokens[t].user /\ tokens'[t].app = tokens[t].app
        /\ tokens'[t].family = tokens[t].family /\ tokens'[t].scope = tokens[t].scope
        /\ tokens[t].revoked => tokens'[t].revoked
        /\ tokens[t].user \in users' /\ apps'[tokens[t].app] # Gone

LEMMA TokenKept ==
  ASSUME IInv, TypeOK', Evolves, NEW t \in Token, Fades(t)
  PROVE  TokenSound(t)'
<1>. SUFFICES ASSUME Stored(t)'
              PROVE  TokenSound(t)'
  BY DEF TokenSound
<1>. USE DEF IInv
<1>1. /\ Stored(t)
      /\ tokens'[t].user = tokens[t].user /\ tokens'[t].app = tokens[t].app
      /\ tokens'[t].family = tokens[t].family /\ tokens'[t].scope = tokens[t].scope
      /\ tokens[t].user \in users' /\ apps'[tokens[t].app] # Gone
  BY DEF Fades, Stored
<1>2. tokens[t].user \in User /\ tokens[t].app \in App /\ tokens[t].family \in Family
  BY <1>1 DEF TypeOK, Stored, TokenRow
<1>3. Granted(tokens[t].user, tokens[t].app, tokens[t].scope, origin[tokens[t].family])
  BY <1>1 DEF TokensSound, TokenSound
<1>4. origin'[tokens[t].family] = origin[tokens[t].family]
  BY <1>2, <1>3 DEF Evolves, OriginsStay, Granted
<1>5. Granted(tokens[t].user, tokens[t].app, tokens[t].scope, origin[tokens[t].family])'
  <2>1. PICK u \in User, a \in App, S \in SUBSET Scope, c \in Code :
           /\ u = tokens[t].user /\ a = tokens[t].app /\ S = tokens[t].scope
           /\ c = origin[tokens[t].family]
    BY <1>1, <1>2, <1>3 DEF TypeOK, Stored, TokenRow, Granted
  <2>2. Granted(u, a, S, c)
    BY <2>1, <1>3 DEF Granted
  <2>3. Granted(u, a, S, c)'
    BY <2>2, GrantedKept
  <2>. QED
    BY <2>1, <2>3, <1>1, <1>4 DEF Granted, StoredCode, Referable
<1>6. Referable(tokens[t].user, tokens[t].app)'
  BY <1>1 DEF Referable
<1>. QED
  BY <1>1, <1>5, <1>6 DEF TokenSound

LEMMA OriginsKept ==
  ASSUME IInv, Evolves, UNCHANGED origin
  PROVE  OriginsSpent' /\ CodeOpensOneFamily'
  BY DEF IInv, Evolves, CodesEvolve, OriginsSpent, CodeOpensOneFamily, StoredCode, TypeOK

\* A step on one flow that opens no right to mint.
LEMMA OneFlow ==
  ASSUME IInv, TypeOK', Evolves, UNCHANGED origin, NEW r \in Request,
         requests' = [requests EXCEPT ![r] = requests'[r]],
         requests'[r].pc # "mint", FlowSound(r)'
  PROVE  FlowsSound' /\ MintsFresh'
<1>1. \A x \in Request : x # r => requests'[x] = requests[x]
  BY DEF IInv, TypeOK
<1>2. \A x \in Request : FlowSound(x)'
  BY <1>1, FlowKept DEF IInv, FlowsSound
<1>3. MintsFresh'
  BY <1>1 DEF IInv, MintsFresh
<1>. QED
  BY <1>2, <1>3 DEF FlowsSound

LEMMA NoFlow ==
  ASSUME IInv, TypeOK', Evolves, UNCHANGED <<requests, origin>>
  PROVE  FlowsSound' /\ MintsFresh'
<1>1. \A x \in Request : FlowSound(x)'
  BY FlowKept DEF IInv, FlowsSound
<1>. QED
  BY <1>1 DEF IInv, FlowsSound, MintsFresh

\* A step that stores no token and condemns no family.
LEMMA TablesFade ==
  ASSUME IInv, TypeOK', Evolves, \A t \in Token : Fades(t), UNCHANGED <<origin, condemned, late>>
  PROVE  TokensSound' /\ OriginsSpent' /\ CodeOpensOneFamily' /\ CondemnedSound'
<1>1. TokensSound'
  BY TokenKept DEF TokensSound
<1>2. CondemnedSound'
  BY DEF IInv, CondemnedSound, Fades, Live, Stored
<1>. QED
  BY <1>1, <1>2, OriginsKept

\* Tables untouched.
LEMMA SameTables ==
  ASSUME IInv, UNCHANGED <<tables, origin, proved>>
  PROVE  Evolves /\ \A t \in Token : Fades(t)
<1>1. \A t \in Token : Stored(t) => tokens[t].user \in users /\ apps[tokens[t].app] # Gone
  BY DEF IInv, TokensSound, TokenSound, Referable
<1>. QED
  BY <1>1 DEF tables, Evolves, CodesEvolve, OwnersOnlyGo, OriginsStay, Fades, Stored, StoredCode

\* Revocation of any set of tokens.
LEMMA RevokeRowsFade ==
  ASSUME IInv, NEW S, tokens' = RevokeRows(S), UNCHANGED <<users, apps, codes, origin, proved>>
  PROVE  /\ Evolves /\ (\A t \in Token : Fades(t))
         /\ tokens' \in [Token -> TokenRow \cup {Unused, Gone}]
         /\ \A t \in Token : t \in S /\ Stored(t) => tokens'[t].revoked
<1>. USE DEF IInv
<1>1. ASSUME NEW t \in Token, Stored(t)
      PROVE  /\ tokens[t] \in TokenRow
             /\ tokens[t].user \in users /\ apps[tokens[t].app] # Gone
  BY <1>1 DEF TypeOK, Stored, TokensSound, TokenSound, Referable
<1>2. ASSUME NEW t \in Token, t \in S, Stored(t)
      PROVE  /\ tokens'[t] \in TokenRow /\ tokens'[t].revoked
             /\ tokens'[t].user = tokens[t].user /\ tokens'[t].app = tokens[t].app
             /\ tokens'[t].family = tokens[t].family /\ tokens'[t].scope = tokens[t].scope
  <2>1. tokens'[t] = [tokens[t] EXCEPT !.revoked = TRUE]
    BY <1>2 DEF RevokeRows
  <2>. QED
    BY <2>1, <1>1, <1>2 DEF TokenRow
<1>3. ASSUME NEW t \in Token, ~(t \in S /\ Stored(t))
      PROVE  tokens'[t] = tokens[t]
  BY <1>3 DEF RevokeRows
<1>4. \A t \in Token : Fades(t)
  BY <1>1, <1>2, <1>3 DEF Fades, Stored
<1>5. tokens' \in [Token -> TokenRow \cup {Unused, Gone}]
  <2>1. \A t \in Token : tokens'[t] \in TokenRow \cup {Unused, Gone}
    BY <1>2, <1>3 DEF TypeOK
  <2>. QED
    BY <2>1 DEF RevokeRows
<1>6. Evolves
  BY DEF Evolves, CodesEvolve, OwnersOnlyGo, OriginsStay, StoredCode
<1>. QED
  BY <1>2, <1>4, <1>5, <1>6

-----------------------------------------------------------------------------
(* One lemma per action.                                                   *)

LEMMA IssueCodeStep ==
  ASSUME IInv, NEW u \in User, NEW a \in App, NEW S \in SUBSET Scope, NEW ch \in BOOLEAN,
         IssueCode(u, a, S, ch)
  PROVE  IInv'
<1>. USE DEF IInv
<1>1. PICK c \in Code :
        /\ codes[c] = Unused
        /\ codes' = [codes EXCEPT ![c] = [app |-> a, user |-> u, scope |-> S,
                                          challenge |-> ch, consumed |-> FALSE]]
  BY DEF IssueCode
<1>2. UNCHANGED <<users, apps, tokens, requests, proved, origin, parent, raced, condemned, late>>
  BY DEF IssueCode, history
<1>3. TypeOK'
  BY <1>1, <1>2 DEF TypeOK, CodeRow
<1>4. Evolves
  BY <1>1, <1>2 DEF TypeOK, Evolves, CodesEvolve, OwnersOnlyGo, OriginsStay
<1>5. \A t \in Token : Fades(t)
  BY <1>2 DEF TokensSound, TokenSound, Referable, Fades, Stored
<1>. QED
  BY <1>2, <1>3, <1>4, <1>5, NoFlow, TablesFade

LEMMA ExchangeStep ==
  ASSUME IInv, NEW r \in Request, NEW a \in App, NEW c \in Code,
         NEW uri \in BOOLEAN, NEW verifier \in BOOLEAN,
         Exchange(r, a, c, uri, verifier)
  PROVE  IInv'
<1>. USE DEF IInv
<1>. DEFINE q == [Idle EXCEPT !.pc = "mint", !.app = a, !.user = codes[c].user,
                              !.scope = codes[c].scope, !.code = c]
<1>1. /\ UNCHANGED <<users, apps, tokens, origin, parent, raced, condemned, late>>
      /\ codes[c] \in CodeRow /\ ~codes[c].consumed /\ StoredCode(c)
      /\ codes' = [codes EXCEPT ![c].consumed = TRUE]
  BY DEF Exchange, Claimable, StoredCode, TypeOK
<1>2. /\ codes'[c] \in CodeRow /\ codes'[c].consumed
      /\ codes'[c].user = codes[c].user /\ codes'[c].app = codes[c].app
      /\ codes'[c].scope = codes[c].scope
      /\ \A d \in Code : d # c => codes'[d] = codes[d]
  BY <1>1 DEF TypeOK, CodeRow
<1>3. codes' \in [Code -> CodeRow \cup {Unused, Gone}]
  BY <1>1, <1>2 DEF TypeOK
<1>4. q \in Local /\ q.pc = "mint" /\ q.code = c /\ q.app = a
      /\ q.user = codes[c].user /\ q.scope = codes[c].scope /\ q.user \in User
  BY <1>1 DEF Idle, Local, PC, CodeRow
<1>. HIDE DEF q
<1>. codes'[c] \notin {Unused, Gone}
  BY <1>2
<1>5. requests' \in [Request -> Local] /\ proved \subseteq proved' /\ proved' \subseteq Code
  BY <1>4 DEF Exchange, TypeOK, q
<1>6. TypeOK'
  BY <1>1, <1>3, <1>5 DEF TypeOK
<1>7. Evolves
  BY <1>1, <1>2, <1>5 DEF Evolves, CodesEvolve, OwnersOnlyGo, OriginsStay
<1>8. \A t \in Token : Fades(t)
  BY <1>1 DEF TokensSound, TokenSound, Referable, Fades, Stored
<1>9. TokensSound' /\ OriginsSpent' /\ CodeOpensOneFamily' /\ CondemnedSound'
  BY <1>1, <1>6, <1>7, <1>8, TablesFade
<1>10. CASE Accepts(a, c, uri, verifier)
  <2>1. /\ requests' = [requests EXCEPT ![r] = q]
        /\ proved' = IF codes[c].challenge THEN proved \cup {c} ELSE proved
    BY <1>10 DEF Exchange, q
  <2>2. requests'[r] = q /\ \A x \in Request : x # r => requests'[x] = requests[x]
    BY <2>1 DEF TypeOK
  <2>3. a \in Public => c \in proved'
    BY <1>10, <2>1 DEF Accepts, NeedsPkce
  <2>4. FlowSound(r)'
    BY <1>1, <1>2, <1>4, <1>10, <2>2, <2>3 DEF FlowSound, Granted, StoredCode, Accepts
  <2>5. FlowsSound'
    BY <2>2, <2>4, <1>6, <1>7, FlowKept DEF FlowsSound
  <2>6. \A f \in Family : origin[f] # c
    BY <1>1, SentinelAssumption DEF OriginsSpent, StoredCode
  <2>7. \A x \in Request : requests[x].pc = "mint" => requests[x].code # c
    BY <1>1 DEF FlowsSound, FlowSound, Granted, StoredCode
  <2>8. MintsFresh'
    <3>1. ASSUME NEW x \in Request, NEW y \in Request, x # y,
                 requests'[x].pc = "mint", requests'[y].pc = "mint"
          PROVE  requests'[x].code # requests'[y].code
      <4>1. CASE x = r
        BY <4>1, <3>1, <1>4, <2>2, <2>7
      <4>2. CASE y = r
        BY <4>2, <3>1, <1>4, <2>2, <2>7
      <4>3. CASE x # r /\ y # r
        BY <4>3, <3>1, <2>2 DEF MintsFresh
      <4>. QED
        BY <4>1, <4>2, <4>3
    <3>2. ASSUME NEW x \in Request, requests'[x].pc = "mint"
          PROVE  \A f \in Family : origin'[f] # requests'[x].code
      BY <3>2, <1>1, <1>4, <2>2, <2>6 DEF MintsFresh
    <3>. QED
      BY <3>1, <3>2 DEF MintsFresh
  <2>. QED
    BY <1>6, <1>9, <2>5, <2>8
<1>11. CASE ~Accepts(a, c, uri, verifier)
  <2>1. UNCHANGED <<requests, origin>>
    BY <1>1, <1>11 DEF Exchange
  <2>. QED
    BY <2>1, <1>6, <1>7, <1>9, NoFlow
<1>. QED
  BY <1>10, <1>11

LEMMA MintStep ==
  ASSUME IInv, NEW r \in Request, Mint(r)
  PROVE  IInv'
<1>. USE DEF IInv
<1>. DEFINE q == requests[r]
<1>1. /\ UNCHANGED <<users, apps, codes, proved, parent, raced, condemned, late>>
      /\ requests' = [requests EXCEPT ![r] = Idle] /\ requests[r].pc = "mint"
  BY DEF Mint, Finish
<1>2. requests'[r] = Idle /\ \A x \in Request : x # r => requests'[x] = requests[x]
  BY <1>1 DEF TypeOK
<1>3. FlowSound(r)' /\ requests'[r].pc # "mint"
  BY <1>2 DEF FlowSound, Idle
<1>4. CASE UNCHANGED <<tokens, origin>>
  <2>1. TypeOK'
    BY <1>1, <1>4, IdleTyped DEF TypeOK
  <2>2. Evolves /\ \A t \in Token : Fades(t)
    BY <1>1, <1>4, SameTables DEF tables
  <2>. QED
    BY <1>1, <1>2, <1>3, <1>4, <2>1, <2>2, OneFlow, TablesFade
<1>5. CASE /\ OfflineAccess \in q.scope /\ Referable(q.user, q.app)
           /\ \E t \in Token, f \in Family :
                /\ tokens[t] = Unused /\ origin[f] = Nil
                /\ tokens' = [tokens EXCEPT ![t] = [app |-> q.app, user |-> q.user, family |-> f,
                                                    scope |-> q.scope, revoked |-> FALSE]]
                /\ origin' = [origin EXCEPT ![f] = q.code]
  <2>1. PICK t \in Token, f \in Family :
                /\ tokens[t] = Unused /\ origin[f] = Nil
                /\ tokens' = [tokens EXCEPT ![t] = [app |-> q.app, user |-> q.user, family |-> f,
                                                    scope |-> q.scope, revoked |-> FALSE]]
                /\ origin' = [origin EXCEPT ![f] = q.code]
    BY <1>5
  <2>2. /\ q.user \in User /\ q.app \in App /\ q.scope \in SUBSET Scope /\ q.code \in Code
        /\ Granted(q.user, q.app, q.scope, q.code)
    BY <1>1 DEF FlowsSound, FlowSound, Granted, TypeOK, Local
  <2>3. TypeOK'
    BY <1>1, <2>1, <2>2, IdleTyped DEF TypeOK, TokenRow
  <2>4. /\ tokens'[t] = [app |-> q.app, user |-> q.user, family |-> f,
                         scope |-> q.scope, revoked |-> FALSE]
        /\ \A s \in Token : s # t => tokens'[s] = tokens[s]
        /\ origin'[f] = q.code /\ \A g \in Family : g # f => origin'[g] = origin[g]
    BY <2>1 DEF TypeOK
  <2>5. Evolves
    BY <1>1, <2>1, <2>4 DEF Evolves, CodesEvolve, OwnersOnlyGo, OriginsStay
  <2>6. TokenSound(t)'
    BY <1>1, <1>5, <2>2, <2>4 DEF TokenSound, Granted, Referable, StoredCode
  <2>7. ASSUME NEW s \in Token, s # t
        PROVE  TokenSound(s)'
    BY <2>7, <2>3, <2>4, <2>5, <1>1, TokenKept
       DEF Fades, TokensSound, TokenSound, Stored, Referable
  <2>8. ASSUME NEW x \in Request
        PROVE  FlowSound(x)'
    BY <1>2, <1>3, <2>3, <2>5, FlowKept DEF FlowsSound
  <2>9. MintsFresh'
    <3>1. ASSUME NEW x \in Request, requests'[x].pc = "mint"
          PROVE  x # r /\ requests[x] = requests'[x] /\ requests[x].code # q.code
      BY <3>1, <1>1, <1>2, <1>3 DEF MintsFresh
    <3>. QED
      BY <3>1, <2>4 DEF MintsFresh
  <2>10. OriginsSpent'
    BY <1>1, <2>2, <2>4 DEF OriginsSpent, Granted, StoredCode
  <2>11. CodeOpensOneFamily'
    BY <1>1, <2>4 DEF CodeOpensOneFamily, MintsFresh
  <2>12. CondemnedSound'
    BY <1>1, <2>1, <2>2, <2>4, SentinelAssumption DEF CondemnedSound, Live, Stored
  <2>. QED
    BY <2>3, <2>6, <2>7, <2>8, <2>9, <2>10, <2>11, <2>12 DEF TokensSound, FlowsSound
<1>. QED
  BY <1>4, <1>5 DEF Mint

LEMMA RefreshStep ==
  ASSUME IInv, NEW r \in Request, NEW a \in App, NEW t \in Token, NEW S \in SUBSET Scope,
         Refresh(r, a, t, S)
  PROVE  IInv'
<1>. USE DEF IInv
<1>1. /\ UNCHANGED <<tables, history>> /\ Stored(t) /\ tokens[t] \in TokenRow
  BY DEF Refresh, TypeOK, Stored
<1>2. Granted(tokens[t].user, tokens[t].app, tokens[t].scope, origin[tokens[t].family])
  BY <1>1 DEF TokensSound, TokenSound
<1>3. Narrow(S, tokens[t].scope) \subseteq tokens[t].scope
  BY DEF Narrow
<1>4. \A x \in Request : x # r => requests'[x] = requests[x]
  BY DEF Refresh, TypeOK
<1>5. requests' = [requests EXCEPT ![r] = requests'[r]]
  BY DEF Refresh, TypeOK
<1>6. ASSUME Verdict(a, t) = "condemn"
      PROVE  FlowSound(r)' /\ requests'[r].pc # "mint" /\ requests'[r] \in Local
  <2>1. requests'[r] = [Idle EXCEPT !.pc = "condemn", !.family = tokens[t].family]
    BY <1>6 DEF Refresh, TypeOK
  <2>2. requests'[r] \in Local
    BY <2>1, <1>1 DEF Idle, Local, PC, TokenRow
  <2>3. tokens[t].family \in Family /\ origin[tokens[t].family] # Nil
    BY <1>1, <1>2 DEF TokenRow, Granted
  <2>4. FlowSound(r)' /\ requests'[r].pc # "mint"
    BY <2>1, <2>3, <1>1 DEF FlowSound, Idle, history
  <2>. QED
    BY <2>2, <2>4
<1>7. ASSUME Verdict(a, t) # "condemn"
      PROVE  FlowSound(r)' /\ requests'[r].pc # "mint" /\ requests'[r] \in Local
  <2>1. /\ requests'[r] = [Idle EXCEPT !.pc = "mark", !.app = a, !.user = tokens[t].user, !.tok = t,
                            !.family = tokens[t].family, !.scope = Narrow(S, tokens[t].scope)]
        /\ tokens[t].app = a
    BY <1>7 DEF Refresh, TypeOK, Verdict
  <2>2. requests'[r] \in Local
    BY <2>1, <1>1, <1>3 DEF Idle, Local, PC, TokenRow
  <2>3. tokens[t].user \in User /\ tokens[t].family \in Family
    BY <1>1 DEF TokenRow
  <2>4. FlowSound(r)' /\ requests'[r].pc # "mint"
    BY <2>1, <2>3, <1>1, <1>2, <1>3
       DEF FlowSound, Idle, Granted, history, tables, Referable, StoredCode
  <2>. QED
    BY <2>2, <2>4
<1>8. FlowSound(r)' /\ requests'[r].pc # "mint" /\ requests'[r] \in Local
  BY <1>6, <1>7
<1>9. TypeOK'
  <2>1. requests' \in [Request -> Local]
    BY <1>4, <1>5, <1>8 DEF TypeOK
  <2>. QED
    BY <2>1, <1>1 DEF TypeOK, tables, history
<1>10. Evolves /\ \A s \in Token : Fades(s)
  BY <1>1, SameTables DEF history
<1>. QED
  BY <1>1, <1>5, <1>8, <1>9, <1>10, OneFlow, TablesFade DEF history

LEMMA AbortStep ==
  ASSUME IInv, NEW r \in Request, Abort(r)
  PROVE  IInv'
<1>. USE DEF IInv
<1>1. UNCHANGED <<tables, history>> /\ requests' = [requests EXCEPT ![r] = Idle]
  BY DEF Abort, Finish
<1>2. TypeOK'
  BY <1>1, IdleTyped DEF TypeOK, tables, history
<1>3. requests'[r] = Idle
  BY <1>1 DEF TypeOK
<1>4. FlowSound(r)' /\ requests'[r].pc # "mint"
  BY <1>3 DEF FlowSound, Idle
<1>5. Evolves /\ \A t \in Token : Fades(t)
  BY <1>1, SameTables DEF history
<1>. QED
  BY <1>1, <1>2, <1>3, <1>4, <1>5, OneFlow, TablesFade DEF history

LEMMA CondemnFamilyStep ==
  ASSUME IInv, NEW r \in Request, CondemnFamily(r)
  PROVE  IInv'
<1>. USE DEF IInv
<1>. DEFINE f == requests[r].family
<1>1. /\ tokens' = RevokeRows(RowsOfFamily(f))
      /\ condemned' = condemned \cup {f}
      /\ requests' = [requests EXCEPT ![r] = Idle]
      /\ UNCHANGED <<users, apps, codes, proved, origin, parent, raced, late>>
  BY DEF CondemnFamily, Finish
<1>2. f \in Family /\ origin[f] # Nil
  BY DEF CondemnFamily, FlowsSound, FlowSound
<1>3. /\ Evolves /\ (\A t \in Token : Fades(t))
      /\ tokens' \in [Token -> TokenRow \cup {Unused, Gone}]
      /\ \A t \in Token : t \in RowsOfFamily(f) /\ Stored(t) => tokens'[t].revoked
  BY <1>1, RevokeRowsFade
<1>4. TypeOK'
  BY <1>1, <1>2, <1>3, IdleTyped DEF TypeOK
<1>5. requests'[r] = Idle
  BY <1>1 DEF TypeOK
<1>6. FlowSound(r)' /\ requests'[r].pc # "mint"
  BY <1>5 DEF FlowSound, Idle
<1>7. FlowsSound' /\ MintsFresh'
  BY <1>1, <1>3, <1>4, <1>5, <1>6, OneFlow
<1>8. TokensSound'
  BY <1>3, <1>4, TokenKept DEF TokensSound
<1>9. CondemnedSound'
  BY <1>1, <1>2, <1>3 DEF CondemnedSound, Fades, Live, Stored, RowsOfFamily
<1>. QED
  BY <1>1, <1>3, <1>4, <1>7, <1>8, <1>9, OriginsKept

LEMMA MarkRevokedStep ==
  ASSUME IInv, NEW r \in Request, MarkRevoked(r)
  PROVE  IInv'
<1>. USE DEF IInv
<1>1. /\ tokens' = RevokeRows({requests[r].tok})
      /\ requests' = [requests EXCEPT ![r].pc = "create"] /\ requests[r].pc = "mark"
      /\ UNCHANGED <<users, apps, codes, proved, origin, parent, raced, condemned, late>>
  BY DEF MarkRevoked, history
<1>2. /\ Evolves /\ (\A t \in Token : Fades(t))
      /\ tokens' \in [Token -> TokenRow \cup {Unused, Gone}]
  BY <1>1, RevokeRowsFade
<1>3. requests'[r] = [requests[r] EXCEPT !.pc = "create"] /\ requests[r] \in Local
  BY <1>1 DEF TypeOK
<1>4. requests'[r] \in Local /\ requests'[r].pc = "create"
  BY <1>3 DEF Local, PC
<1>5. TypeOK'
  BY <1>1, <1>2, <1>4 DEF TypeOK
<1>6. /\ requests'[r].user = requests[r].user /\ requests'[r].app = requests[r].app
      /\ requests'[r].scope = requests[r].scope /\ requests'[r].family = requests[r].family
      /\ requests'[r].tok = requests[r].tok
  BY <1>3 DEF Local
<1>7. FlowSound(r)'
  BY <1>1, <1>4, <1>6 DEF FlowsSound, FlowSound, Granted, Referable, StoredCode
<1>8. requests' = [requests EXCEPT ![r] = requests'[r]]
  BY <1>1, <1>3
<1>. QED
  BY <1>1, <1>2, <1>4, <1>5, <1>7, <1>8, OneFlow, TablesFade

LEMMA CreateNextStep ==
  ASSUME IInv, NEW r \in Request, CreateNext(r)
  PROVE  IInv'
<1>. USE DEF IInv
<1>. DEFINE q == requests[r]
<1>1. /\ UNCHANGED <<users, apps, codes, proved, origin, condemned>>
      /\ requests' = [requests EXCEPT ![r] = Idle] /\ q.pc = "create"
  BY DEF CreateNext, Finish
<1>2. requests'[r] = Idle
  BY <1>1 DEF TypeOK
<1>3. FlowSound(r)' /\ requests'[r].pc # "mint"
  BY <1>2 DEF FlowSound, Idle
<1>4. CASE UNCHANGED <<tokens, parent, raced, late>>
  <2>1. TypeOK'
    BY <1>1, <1>4, IdleTyped DEF TypeOK
  <2>2. Evolves /\ \A t \in Token : Fades(t)
    BY <1>1, <1>4, SameTables DEF tables
  <2>. QED
    BY <1>1, <1>2, <1>3, <1>4, <2>1, <2>2, OneFlow, TablesFade
<1>5. CASE /\ Referable(q.user, q.app)
           /\ \E t \in Token :
                /\ tokens[t] = Unused
                /\ tokens' = [tokens EXCEPT ![t] = [app |-> q.app, user |-> q.user,
                                 family |-> q.family, scope |-> q.scope, revoked |-> FALSE]]
                /\ parent' = [parent EXCEPT ![t] = q.tok]
                /\ raced' = IF Rotating(q.tok) # {r} THEN raced \cup {q.tok} ELSE raced
                /\ late' = IF q.family \in condemned THEN late \cup {t} ELSE late
  <2>1. PICK t \in Token :
                /\ tokens[t] = Unused
                /\ tokens' = [tokens EXCEPT ![t] = [app |-> q.app, user |-> q.user,
                                 family |-> q.family, scope |-> q.scope, revoked |-> FALSE]]
                /\ parent' = [parent EXCEPT ![t] = q.tok]
                /\ raced' = IF Rotating(q.tok) # {r} THEN raced \cup {q.tok} ELSE raced
                /\ late' = IF q.family \in condemned THEN late \cup {t} ELSE late
    BY <1>5
  <2>2. /\ q.user \in User /\ q.app \in App /\ q.scope \in SUBSET Scope
        /\ q.family \in Family /\ q.tok \in Token
        /\ Granted(q.user, q.app, q.scope, origin[q.family])
    BY <1>1 DEF FlowsSound, FlowSound, TypeOK, Local
  <2>3. TypeOK'
    BY <1>1, <2>1, <2>2, IdleTyped DEF TypeOK, TokenRow
  <2>4. /\ tokens'[t] = [app |-> q.app, user |-> q.user, family |-> q.family,
                         scope |-> q.scope, revoked |-> FALSE]
        /\ \A s \in Token : s # t => tokens'[s] = tokens[s]
    BY <2>1 DEF TypeOK
  <2>5. Evolves
    BY <1>1 DEF Evolves, CodesEvolve, OwnersOnlyGo, OriginsStay
  <2>6. TokenSound(t)'
    BY <1>1, <1>5, <2>2, <2>4 DEF TokenSound, Granted, Referable, StoredCode
  <2>7. ASSUME NEW s \in Token, s # t
        PROVE  TokenSound(s)'
    BY <2>7, <2>3, <2>4, <2>5, <1>1, TokenKept
       DEF Fades, TokensSound, TokenSound, Stored, Referable
  <2>8. FlowsSound' /\ MintsFresh'
    BY <1>1, <1>2, <1>3, <2>3, <2>5, OneFlow
  <2>9. CondemnedSound'
    BY <1>1, <2>1, <2>4 DEF CondemnedSound, Live, Stored
  <2>. QED
    BY <1>1, <2>3, <2>5, <2>6, <2>7, <2>8, <2>9, OriginsKept DEF TokensSound
<1>. QED
  BY <1>4, <1>5 DEF CreateNext

LEMMA RevocationStep ==
  ASSUME IInv, NEW S, tokens' = RevokeRows(S), UNCHANGED <<users, apps, codes, requests, history>>
  PROVE  IInv'
<1>. USE DEF IInv, history
<1>1. /\ Evolves /\ (\A t \in Token : Fades(t))
      /\ tokens' \in [Token -> TokenRow \cup {Unused, Gone}]
  BY RevokeRowsFade
<1>2. TypeOK'
  BY <1>1 DEF TypeOK
<1>. QED
  BY <1>1, <1>2, NoFlow, TablesFade

LEMMA CascadeStep ==
  ASSUME IInv, NEW us \in SUBSET users, NEW as \in [App -> AppRow \cup {Gone}],
         \A a \in App : apps[a] = Gone => as[a] = Gone,
         Cascade(us, as), UNCHANGED <<requests, history>>
  PROVE  IInv'
<1>. USE DEF IInv, history
<1>1. users' = us /\ apps' = as
  BY DEF Cascade
<1>2. \A c \in Code : codes'[c] =
         IF StoredCode(c) /\ ~(codes[c].user \in us /\ as[codes[c].app] # Gone) THEN Gone ELSE codes[c]
  BY DEF Cascade
<1>3. \A t \in Token : tokens'[t] =
         IF Stored(t) /\ ~(tokens[t].user \in us /\ as[tokens[t].app] # Gone) THEN Gone ELSE tokens[t]
  BY DEF Cascade
<1>4. TypeOK'
  <2>1. codes' \in [Code -> CodeRow \cup {Unused, Gone}]
    <3>1. \A c \in Code : codes'[c] \in CodeRow \cup {Unused, Gone}
      BY <1>2 DEF TypeOK
    <3>. QED
      BY <3>1 DEF Cascade
  <2>2. tokens' \in [Token -> TokenRow \cup {Unused, Gone}]
    <3>1. \A t \in Token : tokens'[t] \in TokenRow \cup {Unused, Gone}
      BY <1>3 DEF TypeOK
    <3>. QED
      BY <3>1 DEF Cascade
  <2>. QED
    BY <1>1, <2>1, <2>2 DEF TypeOK
<1>5. Evolves
  BY <1>1, <1>2 DEF Evolves, CodesEvolve, OwnersOnlyGo, OriginsStay, StoredCode
<1>6. \A t \in Token : Fades(t)
  BY <1>1, <1>3 DEF Fades, Stored
<1>. QED
  BY <1>4, <1>5, <1>6, NoFlow, TablesFade

LEMMA UpdateAppStep ==
  ASSUME IInv, NEW a \in App, NEW row \in AppRow, UpdateApp(a, row)
  PROVE  IInv'
<1>. USE DEF IInv, history
<1>1. /\ UNCHANGED <<users, codes, tokens, requests, history>>
      /\ apps' = [apps EXCEPT ![a] = row] /\ row # Gone /\ apps[a] # Gone
  BY SentinelAssumption DEF UpdateApp
<1>2. \A b \in App : apps'[b] = Gone <=> apps[b] = Gone
  BY <1>1 DEF TypeOK
<1>3. TypeOK'
  BY <1>1 DEF TypeOK
<1>4. Evolves
  BY <1>1, <1>2 DEF Evolves, CodesEvolve, OwnersOnlyGo, OriginsStay
<1>5. \A t \in Token : Fades(t)
  BY <1>1, <1>2 DEF TokensSound, TokenSound, Referable, Fades, Stored, TypeOK, TokenRow
<1>. QED
  BY <1>1, <1>3, <1>4, <1>5, NoFlow, TablesFade

-----------------------------------------------------------------------------
(* The invariant, and what follows from it.                                *)

LEMMA NextStep ==
  ASSUME IInv, [Next]_vars
  PROVE  IInv'
<1>1. ASSUME NEW r \in Request,
             \/ \E a \in App, c \in Code, uri, verifier \in BOOLEAN : Exchange(r, a, c, uri, verifier)
             \/ Mint(r)
             \/ \E a \in App, t \in Token, S \in SUBSET Scope : Refresh(r, a, t, S)
             \/ CondemnFamily(r) \/ MarkRevoked(r) \/ CreateNext(r) \/ Abort(r)
      PROVE  IInv'
  BY <1>1, ExchangeStep, MintStep, RefreshStep, CondemnFamilyStep, MarkRevokedStep,
     CreateNextStep, AbortStep
<1>2. ASSUME NEW u \in User, NEW a \in App, NEW S \in SUBSET Scope, NEW ch \in BOOLEAN,
             IssueCode(u, a, S, ch)
      PROVE  IInv'
  BY <1>2, IssueCodeStep
<1>3. ASSUME NEW t \in Token, Revoke(t)
      PROVE  IInv'
  BY <1>3, RevocationStep DEF Revoke
<1>4. ASSUME NEW a \in App, RevokeAllForApp(a)
      PROVE  IInv'
  BY <1>4, RevocationStep DEF RevokeAllForApp
<1>5. ASSUME NEW u \in User, RevokeAllForUser(u)
      PROVE  IInv'
  BY <1>5, RevocationStep DEF RevokeAllForUser
<1>6. ASSUME NEW u \in User, DropUser(u)
      PROVE  IInv'
  <2>1. apps \in [App -> AppRow \cup {Gone}] /\ users \ {u} \in SUBSET users
    BY DEF IInv, TypeOK
  <2>. QED
    BY <1>6, <2>1, CascadeStep DEF DropUser
<1>7. ASSUME NEW a \in App, DeleteApp(a)
      PROVE  IInv'
  <2>1. /\ [apps EXCEPT ![a] = Gone] \in [App -> AppRow \cup {Gone}]
        /\ \A b \in App : apps[b] = Gone => [apps EXCEPT ![a] = Gone][b] = Gone
    BY DEF IInv, TypeOK
  <2>. QED
    BY <1>7, <2>1, CascadeStep DEF DeleteApp
<1>8. ASSUME NEW a \in App, NEW row \in AppRow, UpdateApp(a, row)
      PROVE  IInv'
  BY <1>8, UpdateAppStep
<1>9. ASSUME UNCHANGED vars
      PROVE  IInv'
  <2>1. UNCHANGED <<tables, requests, history>> /\ TypeOK'
    BY <1>9 DEF vars, tables, history, IInv, TypeOK
  <2>2. UNCHANGED <<requests, origin, proved, condemned, late>>
    BY <2>1 DEF history
  <2>. QED
    BY <2>1, <2>2, SameTables, NoFlow, TablesFade DEF IInv
<1>. QED
  BY <1>1, <1>2, <1>3, <1>4, <1>5, <1>6, <1>7, <1>8, <1>9 DEF Next

LEMMA SpecIInv == Spec => []IInv
<1>1. Init => IInv
  BY InitIInv
<1>2. IInv /\ [Next]_vars => IInv'
  BY NextStep
<1>. QED
  BY <1>1, <1>2, PTL DEF Spec

\* Type correctness of the provider's tables and flows.
THEOREM SpecTypeOK == Spec => []TypeOK
  BY SpecIInv, PTL DEF IInv

\* A code opens one family at most, for any number of racing exchanges.
THEOREM SpecCodeOpensOneFamily == Spec => []CodeOpensOneFamily
  BY SpecIInv, PTL DEF IInv

\* What is stored is granted: a stored token has a live user and app, so the
\* row of its code is still there.
LEMMA StoredGranted ==
  ASSUME IInv, NEW t \in Token, Stored(t)
  PROVE  LET c == origin[tokens[t].family] IN
         Granted(tokens[t].user, tokens[t].app, tokens[t].scope, c) /\ c # Nil /\ StoredCode(c)
  BY DEF IInv, TokensSound, TokenSound, Granted, StoredCode

\* No refresh token exceeds what its code granted, whatever rotations and
\* deletions there were.
THEOREM SpecGrantBounded == Spec => []GrantBounded
<1>1. IInv => GrantBounded
  BY StoredGranted DEF GrantBounded, Granted, StoredCode
<1>. QED
  BY <1>1, SpecIInv, PTL

\* The families of public clients were opened with the PKCE verifier.
THEOREM SpecPublicClientsProve == Spec => []PublicClientsProve
<1>1. IInv => PublicClientsProve
  BY StoredGranted DEF PublicClientsProve, Granted
<1>. QED
  BY <1>1, SpecIInv, PTL

\* Only a refresh whose token passed the checks makes a flow rotate.
LEMMA OnlyRefreshEnters ==
  ASSUME TypeOK, Next, NEW r \in Request, requests[r].pc = "idle", requests'[r].pc = "mark"
  PROVE  \E a \in App, t \in Token, S \in SUBSET Scope : Refresh(r, a, t, S)
<1>1. requests' # requests
  OBVIOUS
<1>2. ASSUME NEW x \in Request, requests' = [requests EXCEPT ![x] = Idle]
      PROVE  FALSE
  BY <1>2 DEF TypeOK, Idle
<1>3. ASSUME NEW x \in Request, Mint(x) \/ CondemnFamily(x) \/ CreateNext(x) \/ Abort(x)
      PROVE  FALSE
  BY <1>3, <1>2 DEF Mint, CondemnFamily, CreateNext, Abort, Finish
<1>4. ASSUME NEW x \in Request, MarkRevoked(x)
      PROVE  FALSE
  <2>1. x # r /\ requests' = [requests EXCEPT ![x].pc = "create"]
    BY <1>4 DEF MarkRevoked
  <2>. QED
    BY <2>1 DEF TypeOK
<1>5. ASSUME NEW x \in Request, NEW a \in App, NEW c \in Code, NEW uri \in BOOLEAN,
             NEW verifier \in BOOLEAN, Exchange(x, a, c, uri, verifier)
      PROVE  FALSE
  <2>1. requests' = [requests EXCEPT ![x] =
                       [Idle EXCEPT !.pc = "mint", !.app = a, !.user = codes[c].user,
                                    !.scope = codes[c].scope, !.code = c]]
    BY <1>1, <1>5 DEF Exchange
  <2>2. CASE x = r
    BY <2>1, <2>2 DEF TypeOK, Idle
  <2>3. CASE x # r
    BY <2>1, <2>3 DEF TypeOK
  <2>. QED
    BY <2>2, <2>3
<1>6. ASSUME NEW x \in Request, NEW a \in App, NEW t \in Token, NEW S \in SUBSET Scope,
             Refresh(x, a, t, S)
      PROVE  x = r
  BY <1>6 DEF Refresh, TypeOK
<1>7. ASSUME \/ \E u \in User, a \in App, S \in SUBSET Scope, ch \in BOOLEAN : IssueCode(u, a, S, ch)
             \/ \E t \in Token : Revoke(t)
             \/ \E a \in App : RevokeAllForApp(a) \/ DeleteApp(a)
             \/ \E a \in App, row \in AppRow : UpdateApp(a, row)
             \/ \E u \in User : RevokeAllForUser(u) \/ DropUser(u)
      PROVE  FALSE
  BY <1>1, <1>7 DEF IssueCode, Revoke, RevokeAllForApp, DeleteApp, UpdateApp, RevokeAllForUser, DropUser
<1>. QED
  BY <1>3, <1>4, <1>5, <1>6, <1>7 DEF Next

\* In a condemned family only what was stored afterwards is live.
LEMMA RefreshedLate ==
  ASSUME IInv, NEW r \in Request, NEW a \in App, NEW t \in Token, NEW S \in SUBSET Scope,
         Refresh(r, a, t, S), requests'[r].pc = "mark", requests'[r].family \in condemned
  PROVE  requests'[r].tok \in late
<1>1. requests'[r] =
        IF Verdict(a, t) = "condemn"
        THEN [Idle EXCEPT !.pc = "condemn", !.family = tokens[t].family]
        ELSE [Idle EXCEPT !.pc = "mark", !.app = a, !.user = tokens[t].user, !.tok = t,
                          !.family = tokens[t].family, !.scope = Narrow(S, tokens[t].scope)]
  BY DEF Refresh, IInv, TypeOK
<1>2. Verdict(a, t) # "condemn"
  BY <1>1 DEF Idle
<1>3. Live(t) /\ requests'[r].tok = t /\ requests'[r].family = tokens[t].family
  BY <1>1, <1>2 DEF Refresh, Verdict, Live, Idle
<1>. QED
  BY <1>3 DEF IInv, CondemnedSound

\* A condemned family lets in nothing that was stored when it was condemned.
THEOREM SpecCondemnedTokensStayOut == Spec => CondemnedTokensStayOut
<1>1. ASSUME IInv, Next, NEW r \in Request,
             requests[r].pc = "idle", requests'[r].pc = "mark", requests'[r].family \in condemned
      PROVE  requests'[r].tok \in late
  BY <1>1, OnlyRefreshEnters, RefreshedLate DEF IInv
<1>2. IInv /\ [Next]_vars =>
        [\A r \in Request :
            requests[r].pc = "idle" /\ requests'[r].pc = "mark" /\ requests'[r].family \in condemned
                => requests'[r].tok \in late]_vars
  BY <1>1
<1>. QED
  BY <1>2, SpecIInv, PTL DEF Spec, CondemnedTokensStayOut

-----------------------------------------------------------------------------
(* Chains of rotations.  In a family without siblings one token at most    *)
(* has no successor, and a token that has one is revoked, so one at most   *)
(* is live.                                                                *)

Siblings(f) ==
    \E a, b \in Token : a # b /\ parent[a] # Nil /\ parent[a] = parent[b]
                        /\ Stored(a) /\ tokens[a].family = f

Last(t) == Stored(t) /\ \A a \in Token : ~(Stored(a) /\ parent[a] = t)

ParentsRevoked ==
    \A a \in Token : Stored(a) /\ parent[a] # Nil =>
        /\ Stored(parent[a]) /\ tokens[parent[a]].revoked
        /\ tokens[parent[a]].family = tokens[a].family

UnusedUnrelated ==
    \A t \in Token : tokens[t] = Unused => parent[t] = Nil /\ \A a \in Token : parent[a] # t

OneLast ==
    \A s, t \in Token :
        Last(s) /\ Last(t) /\ tokens[s].family = tokens[t].family /\ ~Siblings(tokens[s].family) => s = t

FlowChain(r) ==
    LET q == requests[r] IN
    /\ q.pc \in {"mark", "create"} =>
          /\ q.tok \in Token /\ tokens[q.tok] # Unused
          /\ tokens[q.tok] = Gone => ~Referable(q.user, q.app)
          /\ Stored(q.tok) => /\ tokens[q.tok].user = q.user /\ tokens[q.tok].app = q.app
                              /\ tokens[q.tok].family = q.family
    /\ q.pc = "create" => (Stored(q.tok) => tokens[q.tok].revoked)

FlowChains == \A r \in Request : FlowChain(r)

\* A token with a successor is live no more; when it has two, or another
\* refresh is still to store one, the refreshes overlapped.
RaceSound(a) ==
    parent[a] # Nil =>
        /\ ~Live(parent[a])
        /\ \A b \in Token : b # a /\ parent[b] = parent[a] => parent[a] \in raced
        /\ Rotating(parent[a]) # {} => parent[a] \in raced

RacesSound == \A a \in Token : RaceSound(a)

Chains == ParentsRevoked /\ UnusedUnrelated /\ OneLast /\ FlowChains /\ RacesSound

LEMMA InitChains == Init => Chains
  BY DEF Init, Chains, ParentsRevoked, UnusedUnrelated, OneLast, FlowChains, FlowChain,
     RacesSound, RaceSound, Last, Stored, Idle

\* Token rows are never reused and lose standing only; when one goes, its user
\* or its app is gone.
TokenEvolves(t) ==
    /\ tokens[t] # Unused => tokens'[t] # Unused
    /\ tokens[t] = Gone => tokens'[t] = Gone
    /\ Stored(t) /\ tokens'[t] # Gone =>
          /\ tokens'[t].user = tokens[t].user /\ tokens'[t].app = tokens[t].app
          /\ tokens'[t].family = tokens[t].family
          /\ tokens[t].revoked => tokens'[t].revoked
    /\ Stored(t) /\ tokens'[t] = Gone =>
          tokens[t].user \notin users' \/ apps'[tokens[t].app] = Gone

LEMMA FlowChainKept ==
  ASSUME IInv, OwnersOnlyGo, \A t \in Token : TokenEvolves(t),
         NEW r \in Request, FlowChain(r), UNCHANGED requests[r]
  PROVE  FlowChain(r)'
<1>. DEFINE q == requests[r]
<1>. SUFFICES ASSUME q.pc \in {"mark", "create"}
              PROVE  FlowChain(r)'
  BY DEF FlowChain
<1>1. q.tok \in Token /\ tokens[q.tok] # Unused /\ TokenEvolves(q.tok)
  BY DEF FlowChain
<1>2. q.app \in App
  BY DEF IInv, FlowsSound, FlowSound
<1>3. ~Referable(q.user, q.app) => ~Referable(q.user, q.app)'
  BY <1>2 DEF OwnersOnlyGo, Referable
<1>4. CASE tokens[q.tok] = Gone
  BY <1>1, <1>3, <1>4 DEF FlowChain, TokenEvolves, Stored
<1>5. CASE Stored(q.tok)
  BY <1>1, <1>5 DEF FlowChain, TokenEvolves, Stored, Referable
<1>. QED
  BY <1>1, <1>4, <1>5 DEF Stored

\* A step that stores no token: rows of one family have one user and one app,
\* so they stay or go together.
LEMMA ChainsKept ==
  ASSUME IInv, ParentsRevoked, UnusedUnrelated, OneLast, UNCHANGED parent,
         \A t \in Token : TokenEvolves(t) /\ Fades(t) /\ (tokens'[t] = Unused => tokens[t] = Unused)
  PROVE  ParentsRevoked' /\ UnusedUnrelated' /\ OneLast'
<1>1. ASSUME NEW s \in Token, NEW t \in Token, Stored(s), Stored(t), Stored(s)',
             tokens[s].family = tokens[t].family
      PROVE  Stored(t)'
  <2>1. tokens[s].user = tokens[t].user /\ tokens[s].app = tokens[t].app
    BY <1>1, StoredGranted DEF Granted, StoredCode
  <2>2. tokens[s].user \in users' /\ apps'[tokens[s].app] # Gone
    BY <1>1 DEF Fades, Stored
  <2>. QED
    BY <1>1, <2>1, <2>2 DEF TokenEvolves, Stored
<1>2. ASSUME NEW t \in Token, Stored(t)'
      PROVE  Stored(t) /\ tokens'[t].family = tokens[t].family
  BY <1>2 DEF Fades, Stored
<1>3. ParentsRevoked'
  <2>1. ASSUME NEW a \in Token, Stored(a)', parent[a] # Nil
        PROVE  /\ Stored(parent[a])' /\ tokens'[parent[a]].revoked
               /\ tokens'[parent[a]].family = tokens'[a].family
    <3>1. /\ Stored(a) /\ tokens'[a].family = tokens[a].family
          /\ Stored(parent[a]) /\ tokens[parent[a]].revoked
          /\ tokens[parent[a]].family = tokens[a].family /\ parent[a] \in Token
      BY <2>1, <1>2 DEF ParentsRevoked, IInv, TypeOK
    <3>2. Stored(parent[a])'
      BY <2>1, <3>1, <1>1
    <3>. QED
      BY <3>1, <3>2 DEF TokenEvolves, Stored
  <2>. QED
    BY <2>1 DEF ParentsRevoked, Stored
<1>4. UnusedUnrelated'
  BY DEF UnusedUnrelated
<1>5. OneLast'
  <2>. SUFFICES ASSUME NEW s \in Token, NEW t \in Token, Last(s)', Last(t)',
                       tokens'[s].family = tokens'[t].family, ~Siblings(tokens[s].family)'
                PROVE  s = t
    BY DEF OneLast
  <2>1. /\ Stored(s) /\ Stored(t) /\ Stored(s)' /\ Stored(t)'
        /\ tokens'[s].family = tokens[s].family /\ tokens'[t].family = tokens[t].family
    BY <1>2 DEF Last
  <2>2. ASSUME NEW u \in Token, u \in {s, t}
        PROVE  Last(u)
    <3>. SUFFICES ASSUME NEW a \in Token, Stored(a), parent[a] = u
                  PROVE  FALSE
      BY <2>1, <2>2 DEF Last
    <3>1. parent[a] # Nil /\ tokens[u].family = tokens[a].family
      BY SentinelAssumption DEF ParentsRevoked
    <3>2. Stored(a)'
      BY <2>1, <2>2, <3>1, <1>1
    <3>. QED
      BY <3>2, <2>2 DEF Last
  <2>3. ~Siblings(tokens[s].family)
    <3>. SUFFICES ASSUME Siblings(tokens[s].family)
                  PROVE  Siblings(tokens[s].family)'
      OBVIOUS
    <3>1. PICK a \in Token, b \in Token :
             a # b /\ parent[a] # Nil /\ parent[a] = parent[b]
             /\ Stored(a) /\ tokens[a].family = tokens[s].family
      BY DEF Siblings
    <3>2. Stored(a)' /\ tokens'[a].family = tokens'[s].family
      BY <3>1, <2>1, <1>1, <1>2
    <3>. QED
      BY <3>1, <3>2 DEF Siblings
  <2>. QED
    BY <2>1, <2>2, <2>3 DEF OneLast
<1>. QED
  BY <1>3, <1>4, <1>5

\* A step that stores no token, and puts no flow past the checks.
LEMMA RacesKept ==
  ASSUME IInv, RacesSound, UNCHANGED <<parent, raced>>, \A t \in Token : Fades(t),
         \A x \in Request : requests'[x].pc \in {"mark", "create"} =>
             requests[x].pc \in {"mark", "create"} /\ requests[x].tok = requests'[x].tok
  PROVE  RacesSound'
<1>1. \A t \in Token : Live(t)' => Live(t)
  BY DEF Fades, Live, Stored
<1>2. \A t \in Token : Rotating(t)' # {} => Rotating(t) # {}
  BY DEF Rotating
<1>3. \A a \in Token : parent[a] # Nil => parent[a] \in Token
  BY DEF IInv, TypeOK
<1>. QED
  BY <1>1, <1>2, <1>3 DEF RacesSound, RaceSound

\* A step on no flow, or that leaves the flow it is on idle, minting or
\* condemning, stores no token and touches no parent.
LEMMA QuietStep ==
  ASSUME IInv, Chains, OwnersOnlyGo, UNCHANGED <<parent, raced>>,
         \A t \in Token : TokenEvolves(t) /\ Fades(t) /\ (tokens'[t] = Unused => tokens[t] = Unused),
         \A x \in Request : requests'[x] = requests[x] \/ requests'[x].pc \notin {"mark", "create"}
  PROVE  Chains'
<1>1. ASSUME NEW x \in Request
      PROVE  FlowChain(x)'
  <2>1. CASE requests'[x] = requests[x]
    BY <2>1, FlowChainKept DEF Chains, FlowChains
  <2>2. CASE requests'[x].pc \notin {"mark", "create"}
    BY <2>2 DEF FlowChain
  <2>. QED
    BY <1>1, <2>1, <2>2
<1>2. RacesSound'
  <2>1. \A x \in Request : requests'[x].pc \in {"mark", "create"} =>
             requests[x].pc \in {"mark", "create"} /\ requests[x].tok = requests'[x].tok
    OBVIOUS
  <2>. QED
    BY <2>1, RacesKept DEF Chains
<1>. QED
  BY <1>1, <1>2, ChainsKept DEF Chains, FlowChains

\* The same tables evolve.
LEMMA SameTokens ==
  ASSUME IInv, UNCHANGED <<users, apps, tokens>>
  PROVE  /\ OwnersOnlyGo
         /\ \A t \in Token : TokenEvolves(t) /\ Fades(t) /\ (tokens'[t] = Unused => tokens[t] = Unused)
  BY DEF IInv, TokensSound, TokenSound, Referable, OwnersOnlyGo, TokenEvolves, Fades, Stored

LEMMA RevokedTokens ==
  ASSUME IInv, NEW S, tokens' = RevokeRows(S), UNCHANGED <<users, apps>>
  PROVE  /\ OwnersOnlyGo
         /\ \A t \in Token : TokenEvolves(t) /\ Fades(t) /\ (tokens'[t] = Unused => tokens[t] = Unused)
         /\ \A t \in Token : t \in S /\ Stored(t) => tokens'[t].revoked /\ Stored(t)'
<1>1. ASSUME NEW t \in Token, Stored(t)
      PROVE  tokens[t] \in TokenRow /\ tokens[t].user \in users /\ apps[tokens[t].app] # Gone
  BY <1>1 DEF IInv, TypeOK, Stored, TokensSound, TokenSound, Referable
<1>2. ASSUME NEW t \in Token, t \in S, Stored(t)
      PROVE  /\ tokens'[t] \notin {Unused, Gone} /\ tokens'[t].revoked
             /\ tokens'[t].user = tokens[t].user /\ tokens'[t].app = tokens[t].app
             /\ tokens'[t].family = tokens[t].family /\ tokens'[t].scope = tokens[t].scope
  <2>1. tokens'[t] = [tokens[t] EXCEPT !.revoked = TRUE]
    BY <1>2 DEF RevokeRows
  <2>2. tokens'[t] \in TokenRow
    BY <2>1, <1>1, <1>2 DEF TokenRow
  <2>3. tokens'[t] \notin {Unused, Gone}
    BY <2>2, SentinelAssumption
  <2>. QED
    BY <2>1, <2>3, <1>1, <1>2 DEF TokenRow
<1>3. ASSUME NEW t \in Token, ~(t \in S /\ Stored(t))
      PROVE  tokens'[t] = tokens[t]
  BY <1>3 DEF RevokeRows
<1>4. OwnersOnlyGo
  BY DEF OwnersOnlyGo
<1>5. ASSUME NEW t \in Token
      PROVE  TokenEvolves(t) /\ Fades(t) /\ (tokens'[t] = Unused => tokens[t] = Unused)
  <2>1. CASE t \in S /\ Stored(t)
    BY <2>1, <1>1, <1>2 DEF TokenEvolves, Fades, Stored
  <2>2. CASE ~(t \in S /\ Stored(t))
    BY <2>2, <1>1, <1>3 DEF TokenEvolves, Fades, Stored
  <2>. QED
    BY <2>1, <2>2
<1>. QED
  BY <1>2, <1>4, <1>5 DEF Stored

LEMMA CascadedTokens ==
  ASSUME IInv, NEW us \in SUBSET users, NEW as, \A a \in App : apps[a] = Gone => as[a] = Gone,
         Cascade(us, as)
  PROVE  /\ OwnersOnlyGo
         /\ \A t \in Token : TokenEvolves(t) /\ Fades(t) /\ (tokens'[t] = Unused => tokens[t] = Unused)
<1>1. users' = us /\ apps' = as
  BY DEF Cascade
<1>2. \A t \in Token : tokens'[t] =
         IF Stored(t) /\ ~(tokens[t].user \in us /\ as[tokens[t].app] # Gone) THEN Gone ELSE tokens[t]
  BY DEF Cascade
<1>. QED
  BY <1>1, <1>2, SentinelAssumption DEF OwnersOnlyGo, TokenEvolves, Fades, Stored

LEMMA MintChains ==
  ASSUME IInv, Chains, NEW r \in Request, Mint(r)
  PROVE  Chains'
<1>. DEFINE q == requests[r]
<1>1. /\ UNCHANGED <<users, apps, parent, raced>>
      /\ \A x \in Request : x # r => requests'[x] = requests[x]
      /\ requests'[r] = Idle
  BY DEF Mint, Finish, IInv, TypeOK
<1>2. \A x \in Request : requests'[x] = requests[x] \/ requests'[x].pc \notin {"mark", "create"}
  BY <1>1 DEF Idle
<1>3. CASE UNCHANGED tokens
  BY <1>1, <1>2, <1>3, SameTokens, QuietStep
<1>4. ASSUME NEW t \in Token, NEW f \in Family, tokens[t] = Unused, origin[f] = Nil,
             tokens' = [tokens EXCEPT ![t] = [app |-> q.app, user |-> q.user, family |-> f,
                                              scope |-> q.scope, revoked |-> FALSE]]
      PROVE  Chains'
  <2>1. /\ tokens'[t].family = f
        /\ \A s \in Token : s # t => tokens'[s] = tokens[s]
    BY <1>4 DEF IInv, TypeOK
  <2>2. tokens'[t] \notin {Unused, Gone}
    <3>1. tokens'[t] \in TokenRow
      BY <1>4 DEF IInv, TypeOK, TokenRow, Mint, FlowsSound, FlowSound, Local
    <3>. QED
      BY <3>1, SentinelAssumption
  <2>3. parent[t] = Nil /\ \A a \in Token : parent[a] # t
    BY <1>4 DEF Chains, UnusedUnrelated
  <2>4. \A s \in Token : Stored(s) => tokens[s].family # f
    BY <1>4, StoredGranted DEF Granted
  <2>5. \A s \in Token : TokenEvolves(s)
    BY <1>1, <1>4, <2>1, <2>2, <2>3, SentinelAssumption DEF TokenEvolves, Stored, IInv, TokensSound, TokenSound
  <2>6. ParentsRevoked' /\ UnusedUnrelated'
    <3>1. ASSUME NEW a \in Token, Stored(a)', parent[a] # Nil
          PROVE  /\ Stored(parent[a])' /\ tokens'[parent[a]].revoked
                 /\ tokens'[parent[a]].family = tokens'[a].family
      <4>1. a # t /\ parent[a] # t /\ parent[a] \in Token /\ Stored(a)
        BY <3>1, <2>1, <2>3 DEF IInv, TypeOK, Stored
      <4>. QED
        BY <4>1, <3>1, <2>1, <1>1 DEF Chains, ParentsRevoked, Stored
    <3>2. UnusedUnrelated'
      BY <1>1, <2>1, <2>2 DEF Chains, UnusedUnrelated
    <3>. QED
      BY <1>1, <3>1, <3>2 DEF ParentsRevoked, Stored
  <2>7. \A g \in Family : g # f => (Siblings(g) => Siblings(g)')
    BY <1>1, <1>4, <2>1 DEF Siblings, Stored
  <2>8. \A s \in Token : s # t /\ Last(s)' => Last(s)
    BY <1>1, <2>1, <2>2, <2>3, <1>4 DEF Last, Stored
  <2>9. OneLast'
    <3>. SUFFICES ASSUME NEW s \in Token, NEW u \in Token, Last(s)', Last(u)',
                         tokens'[s].family = tokens'[u].family, ~Siblings(tokens[s].family)'
                  PROVE  s = u
      BY DEF OneLast
    <3>1. CASE s = t \/ u = t
      BY <3>1, <2>1, <2>4, <2>8 DEF Last
    <3>2. CASE s # t /\ u # t
      <4>1. Last(s) /\ Last(u) /\ tokens'[s] = tokens[s] /\ tokens'[u] = tokens[u]
        BY <3>2, <2>1, <2>8
      <4>2. tokens[s].family \in Family /\ tokens[s].family # f
        BY <4>1, <2>4 DEF Last, Stored, IInv, TypeOK, TokenRow
      <4>3. ~Siblings(tokens[s].family)
        BY <4>1, <4>2, <2>7
      <4>. QED
        BY <4>1, <4>3 DEF Chains, OneLast
    <3>. QED
      BY <3>1, <3>2
  <2>10. ASSUME NEW x \in Request
         PROVE  FlowChain(x)'
    <3>1. OwnersOnlyGo
      BY <1>1 DEF OwnersOnlyGo
    <3>2. CASE x # r
      BY <3>1, <3>2, <1>1, <2>5, FlowChainKept DEF Chains, FlowChains
    <3>3. CASE x = r
      BY <3>3, <1>1 DEF FlowChain, Idle
    <3>. QED
      BY <3>2, <3>3
  <2>11. RacesSound'
    <3>1. \A a \in Token : parent[a] # Nil =>
             parent[a] \in Token /\ parent[a] # t /\ tokens'[parent[a]] = tokens[parent[a]]
      BY <2>1, <2>3 DEF IInv, TypeOK
    <3>2. \A x \in Token : Rotating(x)' # {} => Rotating(x) # {}
      BY <1>2 DEF Rotating
    <3>. QED
      BY <1>1, <3>1, <3>2 DEF Chains, RacesSound, RaceSound, Live, Stored
  <2>. QED
    BY <2>6, <2>9, <2>10, <2>11 DEF Chains, FlowChains
<1>. QED
  BY <1>3, <1>4 DEF Mint

LEMMA CreateNextChains ==
  ASSUME IInv, Chains, NEW r \in Request, CreateNext(r)
  PROVE  Chains'
<1>. DEFINE q == requests[r]
<1>. PICK f \in Family, p \in Token : f = q.family /\ p = q.tok
  BY DEF CreateNext, IInv, FlowsSound, FlowSound
<1>1. /\ UNCHANGED <<users, apps>> /\ q.pc = "create"
      /\ \A x \in Request : x # r => requests'[x] = requests[x]
      /\ requests'[r] = Idle
  BY DEF CreateNext, Finish, IInv, TypeOK
<1>2. \A x \in Request : requests'[x] = requests[x] \/ requests'[x].pc \notin {"mark", "create"}
  BY <1>1 DEF Idle
<1>3. CASE UNCHANGED <<tokens, parent, raced>>
  BY <1>1, <1>2, <1>3, SameTokens, QuietStep
<1>4. ASSUME NEW t \in Token, tokens[t] = Unused, Referable(q.user, q.app),
             tokens' = [tokens EXCEPT ![t] = [app |-> q.app, user |-> q.user,
                              family |-> q.family, scope |-> q.scope, revoked |-> FALSE]],
             parent' = [parent EXCEPT ![t] = q.tok],
             raced' = IF Rotating(q.tok) # {r} THEN raced \cup {q.tok} ELSE raced
      PROVE  Chains'
  <2>1. /\ tokens'[t].family = f /\ parent'[t] = p
        /\ \A s \in Token : s # t => tokens'[s] = tokens[s] /\ parent'[s] = parent[s]
    BY <1>4 DEF IInv, TypeOK
  <2>2. tokens'[t] \notin {Unused, Gone}
    <3>1. tokens'[t] \in TokenRow
      BY <1>1, <1>4 DEF IInv, TypeOK, TokenRow, FlowsSound, FlowSound, Local
    <3>. QED
      BY <3>1, SentinelAssumption
  <2>3. p \in Token /\ Stored(p) /\ tokens[p].revoked /\ tokens[p].family = f /\ p # t /\ p # Nil
    BY <1>1, <1>4, SentinelAssumption DEF Chains, FlowChains, FlowChain, Stored
  <2>4. parent[t] = Nil /\ \A a \in Token : parent[a] # t
    BY <1>4 DEF Chains, UnusedUnrelated
  <2>5. \A s \in Token : TokenEvolves(s)
    BY <1>1, <1>4, <2>1, <2>2, SentinelAssumption
       DEF TokenEvolves, Stored, IInv, TokensSound, TokenSound
  <2>6. ParentsRevoked'
    <3>1. ASSUME NEW a \in Token, Stored(a)', parent'[a] # Nil
          PROVE  /\ Stored(parent[a])' /\ tokens'[parent'[a]].revoked
                 /\ tokens'[parent'[a]].family = tokens'[a].family
      <4>1. CASE a = t
        BY <4>1, <2>1, <2>3 DEF Stored
      <4>2. CASE a # t
        <5>1. parent'[a] = parent[a] /\ parent[a] # t /\ parent[a] \in Token /\ Stored(a)
          BY <3>1, <4>2, <2>1, <2>4 DEF IInv, TypeOK, Stored
        <5>. QED
          BY <5>1, <4>2, <3>1, <2>1 DEF Chains, ParentsRevoked, Stored
      <4>. QED
        BY <4>1, <4>2
    <3>. QED
      BY <3>1 DEF ParentsRevoked
  <2>7. UnusedUnrelated'
    BY <2>1, <2>2, <2>3 DEF Chains, UnusedUnrelated, Stored
  <2>8. \A g \in Family : Siblings(g) => Siblings(g)'
    <3>. SUFFICES ASSUME NEW g \in Family, Siblings(g)
                  PROVE  Siblings(g)'
      OBVIOUS
    <3>1. PICK a \in Token, b \in Token :
             a # b /\ parent[a] # Nil /\ parent[a] = parent[b] /\ Stored(a) /\ tokens[a].family = g
      BY DEF Siblings
    <3>2. a # t /\ b # t
      BY <3>1, <2>4
    <3>. QED
      BY <3>1, <3>2, <2>1 DEF Siblings, Stored
  <2>9. \A s \in Token : s # t /\ Last(s)' => Last(s) /\ s # p
    BY <2>1, <2>2, <2>3, <2>4, <1>4 DEF Last, Stored
  <2>10. ~Siblings(f)' => Last(p)
    <3>. SUFFICES ASSUME NEW a \in Token, Stored(a), parent[a] = p
                  PROVE  Siblings(f)'
      BY <2>3 DEF Last
    <3>1. a # t /\ tokens[a].family = f
      BY <1>4, <2>3 DEF Chains, ParentsRevoked, Stored
    <3>. QED
      BY <3>1, <2>1, <2>2, <2>3 DEF Siblings, Stored
  <2>11. OneLast'
    <3>. SUFFICES ASSUME NEW s \in Token, NEW u \in Token, Last(s)', Last(u)',
                         tokens'[s].family = tokens'[u].family, ~Siblings(tokens[s].family)'
                  PROVE  s = u
      BY DEF OneLast
    <3>1. ASSUME NEW v \in Token, v # t, Last(v)', tokens'[v].family = f, ~Siblings(f)'
          PROVE  FALSE
      <4>1. Last(v) /\ v # p /\ tokens[v].family = f
        BY <3>1, <2>1, <2>9
      <4>2. Last(p) /\ ~Siblings(f)
        BY <3>1, <2>8, <2>10, <4>1 DEF Last, Stored, IInv, TypeOK, TokenRow
      <4>. QED
        BY <4>1, <4>2, <2>3 DEF Chains, OneLast
    <3>2. CASE s = t \/ u = t
      BY <3>1, <3>2, <2>1
    <3>3. CASE s # t /\ u # t
      <4>1. Last(s) /\ Last(u) /\ tokens'[s] = tokens[s] /\ tokens'[u] = tokens[u]
        BY <3>3, <2>1, <2>9
      <4>2. tokens[s].family \in Family
        BY <4>1 DEF Last, Stored, IInv, TypeOK, TokenRow
      <4>3. ~Siblings(tokens[s].family)
        BY <4>1, <4>2, <2>8
      <4>. QED
        BY <4>1, <4>3 DEF Chains, OneLast
    <3>. QED
      BY <3>2, <3>3
  <2>12. ASSUME NEW x \in Request
         PROVE  FlowChain(x)'
    <3>1. OwnersOnlyGo
      BY <1>1 DEF OwnersOnlyGo
    <3>2. CASE x # r
      BY <3>1, <3>2, <1>1, <2>5, FlowChainKept DEF Chains, FlowChains
    <3>3. CASE x = r
      BY <3>3, <1>1 DEF FlowChain, Idle
    <3>. QED
      BY <3>2, <3>3
  <2>13. r \in Rotating(p)
    BY <1>1 DEF Rotating
  <2>14. ASSUME NEW x \in Token, x \notin raced', Rotating(x)' # {}
         PROVE  Rotating(x) # {} /\ x # p
    <3>1. PICK y \in Request : y \in Rotating(x)'
      BY <2>14 DEF Rotating
    <3>2. y # r /\ y \in Rotating(x)
      BY <3>1, <1>1 DEF Rotating, Idle
    <3>. QED
      BY <3>2, <2>14, <1>4
  <2>15. RaceSound(t)'
    <3>1. ~Live(p)'
      BY <2>1, <2>3 DEF Live, Stored
    <3>2. ASSUME NEW b \in Token, b # t, parent'[b] = p
          PROVE  p \in raced'
      BY <3>2, <2>1, <2>3, <2>13, <1>4 DEF Chains, RacesSound, RaceSound
    <3>3. Rotating(p)' # {} => p \in raced'
      BY <2>14
    <3>. QED
      BY <2>1, <3>1, <3>2, <3>3 DEF RaceSound
  <2>16. ASSUME NEW a \in Token, a # t
         PROVE  RaceSound(a)'
    <3>. SUFFICES ASSUME parent[a] # Nil
                  PROVE  RaceSound(a)'
      BY <2>1, <2>16 DEF RaceSound
    <3>. PICK x \in Token : x = parent[a]
      BY DEF IInv, TypeOK
    <3>1. x # t /\ parent'[a] = x /\ RaceSound(a)
      BY <2>1, <2>4, <2>16 DEF Chains, RacesSound
    <3>2. ~Live(x)'
      BY <3>1, <2>1 DEF RaceSound, Live, Stored
    <3>3. ASSUME NEW b \in Token, b # a, parent'[b] = x
          PROVE  x \in raced'
      BY <3>1, <3>3, <2>1, <2>13, <1>4 DEF RaceSound
    <3>4. Rotating(x)' # {} => x \in raced'
      BY <3>1, <2>14, <1>4 DEF RaceSound
    <3>. QED
      BY <3>1, <3>2, <3>3, <3>4 DEF RaceSound
  <2>. QED
    BY <2>6, <2>7, <2>11, <2>12, <2>15, <2>16 DEF Chains, FlowChains, RacesSound
<1>. QED
  BY <1>3, <1>4 DEF CreateNext

LEMMA RefreshChains ==
  ASSUME IInv, Chains, NEW r \in Request, NEW a \in App, NEW t \in Token, NEW S \in SUBSET Scope,
         Refresh(r, a, t, S)
  PROVE  Chains'
<1>1. /\ UNCHANGED <<users, apps, tokens, parent, raced>> /\ Stored(t)
      /\ \A x \in Request : x # r => requests'[x] = requests[x]
  BY DEF Refresh, tables, history, IInv, TypeOK
<1>2. requests'[r] =
        IF Verdict(a, t) = "condemn"
        THEN [Idle EXCEPT !.pc = "condemn", !.family = tokens[t].family]
        ELSE [Idle EXCEPT !.pc = "mark", !.app = a, !.user = tokens[t].user, !.tok = t,
                          !.family = tokens[t].family, !.scope = Narrow(S, tokens[t].scope)]
  BY DEF Refresh, IInv, TypeOK
<1>3. FlowChain(r)'
  <2>1. CASE Verdict(a, t) = "condemn"
    BY <2>1, <1>2 DEF FlowChain, Idle
  <2>2. CASE Verdict(a, t) # "condemn"
    <3>1. tokens[t].app = a
      BY <2>2 DEF Verdict
    <3>. QED
      BY <3>1, <2>2, <1>1, <1>2 DEF FlowChain, Idle, Stored
  <2>. QED
    BY <2>1, <2>2
<1>4. \A x \in Request : x # r => FlowChain(x)'
  BY <1>1, SameTokens, FlowChainKept DEF Chains, FlowChains
<1>5. ParentsRevoked' /\ UnusedUnrelated' /\ OneLast'
  BY <1>1, SameTokens, ChainsKept DEF Chains
<1>6. RacesSound'
  <2>1. ASSUME NEW x \in Token, Rotating(x)' # {}
        PROVE  Rotating(x) # {} \/ Live(x)
    <3>1. PICK y \in Request : y \in Rotating(x)'
      BY <2>1 DEF Rotating
    <3>2. CASE y # r
      BY <3>1, <3>2, <1>1 DEF Rotating
    <3>3. CASE y = r
      <4>1. Verdict(a, t) # "condemn" /\ x = t
        BY <3>1, <3>3, <1>2 DEF Rotating, Idle
      <4>. QED
        BY <4>1, <1>1 DEF Verdict, Live
    <3>. QED
      BY <3>2, <3>3
  <2>2. \A b \in Token : parent[b] # Nil => parent[b] \in Token
    BY DEF IInv, TypeOK
  <2>. QED
    BY <2>1, <2>2, <1>1 DEF Chains, RacesSound, RaceSound, Live, Stored
<1>. QED
  BY <1>3, <1>4, <1>5, <1>6 DEF Chains, FlowChains

LEMMA MarkRevokedChains ==
  ASSUME IInv, Chains, NEW r \in Request, MarkRevoked(r)
  PROVE  Chains'
<1>. DEFINE q == requests[r]
<1>. PICK t \in Token : t = q.tok
  BY DEF MarkRevoked, IInv, FlowsSound, FlowSound
<1>1. /\ tokens' = RevokeRows({t}) /\ UNCHANGED <<users, apps, parent, raced>>
      /\ requests' = [requests EXCEPT ![r].pc = "create"] /\ q.pc = "mark"
      /\ \A x \in Request : x # r => requests'[x] = requests[x]
  BY DEF MarkRevoked, history, IInv, TypeOK
<1>2. /\ OwnersOnlyGo
      /\ \A s \in Token : TokenEvolves(s) /\ Fades(s) /\ (tokens'[s] = Unused => tokens[s] = Unused)
      /\ Stored(t) => tokens'[t].revoked /\ Stored(t)'
  BY <1>1, RevokedTokens
<1>3. /\ requests'[r].pc = "create" /\ requests'[r].tok = t /\ requests'[r].user = q.user
      /\ requests'[r].app = q.app /\ requests'[r].family = q.family
  BY <1>1 DEF IInv, TypeOK, Local
<1>4. FlowChain(r)'
  <2>1. FlowChain(r) /\ TokenEvolves(t) /\ Fades(t)
    BY <1>2 DEF Chains, FlowChains
  <2>2. UNCHANGED <<users, apps>> /\ q.pc = "mark"
    BY <1>1
  <2>3. tokens[t] # Unused /\ tokens'[t] # Unused
    BY <2>1, <2>2 DEF FlowChain, TokenEvolves
  <2>4. CASE tokens[t] = Gone
    BY <2>1, <2>2, <2>3, <2>4, <1>3 DEF FlowChain, TokenEvolves, Stored, Referable
  <2>5. CASE Stored(t)
    BY <2>1, <2>2, <2>5, <1>2, <1>3 DEF FlowChain, TokenEvolves, Stored
  <2>. QED
    BY <2>3, <2>4, <2>5 DEF Stored
<1>5. \A x \in Request : x # r => FlowChain(x)'
  BY <1>1, <1>2, FlowChainKept DEF Chains, FlowChains
<1>6. ParentsRevoked' /\ UnusedUnrelated' /\ OneLast'
  BY <1>1, <1>2, ChainsKept DEF Chains
<1>7. RacesSound'
  <2>1. \A x \in Request : requests'[x].pc \in {"mark", "create"} =>
             requests[x].pc \in {"mark", "create"} /\ requests[x].tok = requests'[x].tok
    BY <1>1, <1>3
  <2>. QED
    BY <2>1, <1>1, <1>2, RacesKept DEF Chains
<1>. QED
  BY <1>4, <1>5, <1>6, <1>7 DEF Chains, FlowChains

LEMMA ChainsStep ==
  ASSUME IInv, Chains, [Next]_vars
  PROVE  Chains'
<1>1. ASSUME NEW r \in Request, Abort(r) \/ (\E a \in App, c \in Code, uri, verifier \in BOOLEAN :
                                               Exchange(r, a, c, uri, verifier))
      PROVE  Chains'
  <2>1. UNCHANGED <<users, apps, tokens, parent, raced>>
    BY <1>1 DEF Abort, Exchange, tables, history
  <2>2. \A x \in Request : requests'[x] = requests[x] \/ requests'[x].pc \notin {"mark", "create"}
    <3>1. CASE Abort(r)
      BY <3>1 DEF Abort, Finish, Idle, IInv, TypeOK
    <3>2. ASSUME NEW a \in App, NEW c \in Code, NEW uri \in BOOLEAN, NEW verifier \in BOOLEAN,
                 Exchange(r, a, c, uri, verifier)
          PROVE  \A x \in Request : requests'[x] = requests[x] \/ requests'[x].pc \notin {"mark", "create"}
      <4>1. \/ requests' = [requests EXCEPT ![r] =
                               [Idle EXCEPT !.pc = "mint", !.app = a, !.user = codes[c].user,
                                            !.scope = codes[c].scope, !.code = c]]
            \/ requests' = requests
        BY <3>2 DEF Exchange
      <4>2. [Idle EXCEPT !.pc = "mint", !.app = a, !.user = codes[c].user,
                         !.scope = codes[c].scope, !.code = c].pc = "mint"
        BY DEF Idle
      <4>. QED
        BY <4>1, <4>2 DEF IInv, TypeOK
    <3>. QED
      BY <1>1, <3>1, <3>2
  <2>. QED
    BY <2>1, <2>2, SameTokens, QuietStep
<1>2. ASSUME NEW r \in Request, CondemnFamily(r)
      PROVE  Chains'
  <2>1. \A x \in Request : requests'[x] = requests[x] \/ requests'[x].pc \notin {"mark", "create"}
    BY <1>2 DEF CondemnFamily, Finish, Idle, IInv, TypeOK
  <2>. QED
    BY <1>2, <2>1, RevokedTokens, QuietStep DEF CondemnFamily
<1>3. ASSUME NEW S, tokens' = RevokeRows(S), UNCHANGED <<users, apps, codes, requests, history>>
      PROVE  Chains'
  BY <1>3, RevokedTokens, QuietStep DEF history
<1>4. ASSUME \/ \E t \in Token : Revoke(t)
             \/ \E a \in App : RevokeAllForApp(a)
             \/ \E u \in User : RevokeAllForUser(u)
      PROVE  Chains'
  BY <1>3, <1>4 DEF Revoke, RevokeAllForApp, RevokeAllForUser
<1>5. ASSUME NEW u \in User, DropUser(u)
      PROVE  Chains'
  <2>1. UNCHANGED <<requests, parent, raced>> /\ users \ {u} \in SUBSET users /\ Cascade(users \ {u}, apps)
    BY <1>5 DEF DropUser, history
  <2>. QED
    BY <2>1, CascadedTokens, QuietStep
<1>6. ASSUME NEW a \in App, DeleteApp(a)
      PROVE  Chains'
  <2>1. /\ UNCHANGED <<requests, parent, raced>> /\ Cascade(users, [apps EXCEPT ![a] = Gone])
        /\ \A b \in App : apps[b] = Gone => [apps EXCEPT ![a] = Gone][b] = Gone
    BY <1>6 DEF DeleteApp, history, IInv, TypeOK
  <2>. QED
    BY <2>1, CascadedTokens, QuietStep
<1>7. ASSUME NEW a \in App, NEW row \in AppRow, UpdateApp(a, row)
      PROVE  Chains'
  <2>1. UNCHANGED <<users, tokens, requests, parent, raced>> /\ \A b \in App : apps'[b] = Gone <=> apps[b] = Gone
    BY <1>7, SentinelAssumption DEF UpdateApp, history, IInv, TypeOK
  <2>2. /\ OwnersOnlyGo
        /\ \A t \in Token : TokenEvolves(t) /\ Fades(t) /\ (tokens'[t] = Unused => tokens[t] = Unused)
    BY <2>1 DEF IInv, TypeOK, TokenRow, TokensSound, TokenSound, Referable, OwnersOnlyGo,
       TokenEvolves, Fades, Stored
  <2>. QED
    BY <2>1, <2>2, QuietStep
<1>8. ASSUME NEW u \in User, NEW a \in App, NEW S \in SUBSET Scope, NEW ch \in BOOLEAN,
             IssueCode(u, a, S, ch)
      PROVE  Chains'
  BY <1>8, SameTokens, QuietStep DEF IssueCode, history
<1>9. ASSUME UNCHANGED vars
      PROVE  Chains'
  BY <1>9, SameTokens, QuietStep DEF vars, tables, history
<1>. QED
  BY <1>1, <1>2, <1>4, <1>5, <1>6, <1>7, <1>8, <1>9,
     MintChains, RefreshChains, MarkRevokedChains, CreateNextChains DEF Next

\* Two live tokens of one family come only of two refreshes of one token, one of
\* which stored its successor while the other was past the checks, in families
\* of any size.
THEOREM SpecForksOnlyByRace == Spec => []ForksOnlyByRace
<1>1. Init => Chains
  BY InitChains
<1>2. IInv /\ Chains /\ [Next]_vars => Chains'
  BY ChainsStep
<1>3. ASSUME Chains
      PROVE  ForksOnlyByRace
  <2>. SUFFICES ASSUME NEW s \in Token, NEW t \in Token, Live(s), Live(t), s # t,
                       tokens[s].family = tokens[t].family
                PROVE  \E a, b \in Token :
                          a # b /\ parent[a] = parent[b] /\ parent[a] \in raced
                          /\ Stored(a) /\ tokens[a].family = tokens[s].family
    BY DEF ForksOnlyByRace
  <2>1. ASSUME NEW x \in Token, Live(x)
        PROVE  Last(x)
    BY <2>1, <1>3, SentinelAssumption DEF Chains, ParentsRevoked, Last, Live
  <2>2. Siblings(tokens[s].family)
    BY <2>1, <1>3 DEF Chains, OneLast
  <2>. QED
    BY <2>2, <1>3 DEF Siblings, Chains, RacesSound, RaceSound
<1>. QED
  BY <1>1, <1>2, <1>3, SpecIInv, PTL DEF Spec

=============================================================================
