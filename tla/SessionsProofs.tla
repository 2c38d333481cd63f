--------------------------- MODULE SessionsProofs ---------------------------
(***************************************************************************)
(* For every set of users, sessions, families, tokens and flows: the type  *)
(* invariant of Sessions, that a row's digest belongs to a token speaking  *)
(* of that row, that a family in which reuse was detected stays dead and   *)
(* admits no new rotation, that the alarm of reuse is never raised for a   *)
(* session none of whose tokens was replayed, and that Sessions implements *)
(* SessionLifecycle.                                                       *)
(*                                                                         *)
(* None of these is inductive.  A rotation writes what its lookup found    *)
(* some steps before, so the proof needs what a flow may rely on across    *)
(* its awaits (FlowsSound), that one session id never gets two users or    *)
(* families (OneOwner), and that condemned families are in use already, so *)
(* that no new session can be opened in one (DetectedInUse).  That the     *)
(* alarm is never false needs in addition that, while no token of a        *)
(* session was presented twice, its rotations go one after another         *)
(* (QuietInOrder).                                                         *)
(***************************************************************************)
EXTENDS Sessions, TLAPS

\* c is a value of claims: the flow's tokens stay signed as claims grows.
SignedIn(t, c) == t \in Token /\ c[t] # NoClaims

\* Tokens of one session agree on its user and family, and no family holds
\* two sessions.
OneOwner ==
    \A a, b \in Token : Signed(a) /\ Signed(b) =>
        (claims[a].sid = claims[b].sid <=> claims[a].fam = claims[b].fam)
        /\ (claims[a].sid = claims[b].sid => claims[a].sub = claims[b].sub)

DeliveredSigned == \A t \in delivered : Signed(t)

DetectedInUse == \A f \in detected : ~FreshFamily(f)

FlowSound(q, c) ==
    /\ q.pc = "respond" => SignedIn(q.new, c)
    /\ q.pc = "rotate" => /\ SignedIn(q.tok, c)
                          /\ c[q.tok] = [sid |-> q.sid, sub |-> q.user, fam |-> q.family]
    /\ q.pc \in {"reuse", "expire"} => SignedIn(q.tok, c) /\ c[q.tok].fam = q.family

FlowsSound == \A r \in Request : FlowSound(requests[r], claims)

IInv ==
    /\ TypeOK
    /\ HashBinding
    /\ DetectedFamilyDead
    /\ OneOwner
    /\ DeliveredSigned
    /\ DetectedInUse
    /\ FlowsSound

-----------------------------------------------------------------------------

USE SentinelAssumption

LEMMA IdleTyped == Idle \in Local
  BY DEF Idle, Local, PC

LEMMA InitIInv == Init => IInv
  BY IdleTyped DEF Init, IInv, TypeOK, HashBinding, DetectedFamilyDead, OneOwner,
     DeliveredSigned, DetectedInUse, FlowsSound, FlowSound, Exists, Live, Signed, Idle

\* A step that changes neither claims nor detected, and only takes standing
\* away from rows, keeps what is said of rows.
LEMMA RowsOnlyLose ==
  ASSUME TypeOK, HashBinding, DetectedFamilyDead,
         UNCHANGED <<claims, detected>>,
         sessions' \in [Session -> Row \cup {NoRow}],
         \A s \in Session : \/ sessions'[s] = NoRow
                            \/ /\ Exists(s)
                               /\ sessions'[s].user = sessions[s].user
                               /\ sessions'[s].family = sessions[s].family
                               /\ sessions'[s].hash = sessions[s].hash
                               /\ sessions[s].revoked => sessions'[s].revoked
  PROVE  HashBinding' /\ DetectedFamilyDead'
  BY DEF HashBinding, DetectedFamilyDead, Exists, Live, TypeOK, Row

LEMMA RevokeRowsTyped ==
  ASSUME TypeOK, NEW S \in SUBSET Session
  PROVE  /\ RevokeRows(S) \in [Session -> Row \cup {NoRow}]
         /\ \A s \in Session : \/ RevokeRows(S)[s] = NoRow
                               \/ /\ Exists(s)
                                  /\ RevokeRows(S)[s].user = sessions[s].user
                                  /\ RevokeRows(S)[s].family = sessions[s].family
                                  /\ RevokeRows(S)[s].hash = sessions[s].hash
                                  /\ sessions[s].revoked => RevokeRows(S)[s].revoked
                                  /\ s \in S => RevokeRows(S)[s].revoked
<1>1. ASSUME NEW s \in Session, Exists(s)
      PROVE  sessions[s] \in Row /\ [sessions[s] EXCEPT !.revoked = TRUE] \in Row
  <2>1. sessions[s] \in Row
    BY <1>1 DEF TypeOK, Exists
  <2>. QED
    BY <2>1 DEF Row
<1>2. ASSUME NEW s \in Session, s \in S, Exists(s)
      PROVE  /\ RevokeRows(S)[s] \in Row
             /\ RevokeRows(S)[s].user = sessions[s].user
             /\ RevokeRows(S)[s].family = sessions[s].family
             /\ RevokeRows(S)[s].hash = sessions[s].hash
             /\ RevokeRows(S)[s].revoked
  <2>1. RevokeRows(S)[s] = [sessions[s] EXCEPT !.revoked = TRUE]
    BY <1>2 DEF RevokeRows
  <2>. QED
    BY <2>1, <1>1, <1>2 DEF Row
<1>3. ASSUME NEW s \in Session, ~(s \in S /\ Exists(s))
      PROVE  RevokeRows(S)[s] = sessions[s]
  BY <1>3 DEF RevokeRows
<1>4. RevokeRows(S) \in [Session -> Row \cup {NoRow}]
  <2>1. \A s \in Session : RevokeRows(S)[s] \in Row \cup {NoRow}
    BY <1>2, <1>3 DEF TypeOK
  <2>. QED
    BY <2>1 DEF RevokeRows
<1>. QED
  BY <1>2, <1>3, <1>4 DEF Exists

LEMMA DeleteRowsTyped ==
  ASSUME TypeOK, NEW S \in SUBSET Session
  PROVE  /\ DeleteRows(S) \in [Session -> Row \cup {NoRow}]
         /\ \A s \in Session : \/ DeleteRows(S)[s] = NoRow
                               \/ Exists(s) /\ DeleteRows(S)[s] = sessions[s]
  BY DEF DeleteRows, TypeOK, Row, Exists


-----------------------------------------------------------------------------
(* Signing only adds to claims.                                            *)

LEMMA FlowKept ==
  ASSUME NEW c, NEW d, NEW q, FlowSound(q, c),
         \A t \in Token : c[t] # NoClaims => d[t] = c[t]
  PROVE  FlowSound(q, d)
  BY DEF FlowSound, SignedIn

LEMMA IdleSound ==
  ASSUME NEW c
  PROVE  FlowSound(Idle, c)
  BY DEF FlowSound, Idle

\* What a step that signs no token and condemns no family must show.
LEMMA ClaimsUnchanged ==
  ASSUME OneOwner, DeliveredSigned, DetectedInUse,
         UNCHANGED <<claims, detected>>,
         \A t \in delivered' : t \in delivered \/ SignedIn(t, claims)
  PROVE  OneOwner' /\ DeliveredSigned' /\ DetectedInUse'
  BY DEF OneOwner, DeliveredSigned, DetectedInUse, Signed, SignedIn, FreshFamily

\* What a step on one flow must show of it.
LEMMA OneFlow ==
  ASSUME TypeOK, FlowsSound, NEW r \in Request,
         UNCHANGED claims,
         requests' = [requests EXCEPT ![r] = requests'[r]],
         requests'[r] \in Local, FlowSound(requests'[r], claims)
  PROVE  requests' \in [Request -> Local] /\ FlowsSound'
<1>1. \A x \in Request : x # r => requests'[x] = requests[x]
  BY DEF TypeOK
<1>. QED
  BY <1>1 DEF TypeOK, FlowsSound

-----------------------------------------------------------------------------
(* One lemma per action.                                                   *)

LEMMA BeginSignInStep ==
  ASSUME IInv, NEW r \in Request, NEW u \in User, BeginSignIn(r, u)
  PROVE  IInv'
<1>. USE DEF IInv
<1>1. requests'[r] = [Idle EXCEPT !.pc = "issue", !.user = u]
  BY DEF BeginSignIn, TypeOK
<1>2. requests'[r] \in Local /\ FlowSound(requests'[r], claims)
  BY <1>1 DEF Idle, Local, PC, FlowSound
<1>3. requests' \in [Request -> Local] /\ FlowsSound'
  BY <1>2, OneFlow DEF BeginSignIn
<1>4. OneOwner' /\ DeliveredSigned' /\ DetectedInUse'
  BY ClaimsUnchanged DEF BeginSignIn, history
<1>5. HashBinding' /\ DetectedFamilyDead'
  BY DEF BeginSignIn, history, HashBinding, DetectedFamilyDead, Exists, Live
<1>6. TypeOK'
  BY <1>3 DEF BeginSignIn, history, TypeOK
<1>. QED
  BY <1>3, <1>4, <1>5, <1>6

LEMMA RespondStep ==
  ASSUME IInv, NEW r \in Request, Respond(r)
  PROVE  IInv'
<1>. USE DEF IInv
<1>1. requests'[r] = Idle
  BY DEF Respond, TypeOK
<1>2. SignedIn(requests[r].new, claims)
  BY DEF Respond, FlowsSound, FlowSound
<1>3. requests' \in [Request -> Local] /\ FlowsSound'
  BY <1>1, OneFlow, IdleTyped, IdleSound DEF Respond
<1>4. OneOwner' /\ DeliveredSigned' /\ DetectedInUse'
  BY <1>2, ClaimsUnchanged DEF Respond, history
<1>5. HashBinding' /\ DetectedFamilyDead'
  BY DEF Respond, history, HashBinding, DetectedFamilyDead, Exists, Live
<1>6. TypeOK'
  BY <1>2, <1>3 DEF Respond, history, TypeOK, SignedIn
<1>. QED
  BY <1>3, <1>4, <1>5, <1>6

LEMMA AbortStep ==
  ASSUME IInv, NEW r \in Request, Abort(r)
  PROVE  IInv'
<1>. USE DEF IInv
<1>1. requests'[r] = Idle
  BY DEF Abort, TypeOK
<1>3. requests' \in [Request -> Local] /\ FlowsSound'
  BY <1>1, OneFlow, IdleTyped, IdleSound DEF Abort
<1>4. OneOwner' /\ DeliveredSigned' /\ DetectedInUse'
  BY ClaimsUnchanged DEF Abort, history
<1>5. HashBinding' /\ DetectedFamilyDead'
  BY DEF Abort, history, HashBinding, DetectedFamilyDead, Exists, Live
<1>6. TypeOK'
  BY <1>3 DEF Abort, history, TypeOK
<1>. QED
  BY <1>3, <1>4, <1>5, <1>6

LEMMA SignOutStep ==
  ASSUME IInv, NEW t \in Token, SignOut(t)
  PROVE  IInv'
<1>. USE DEF IInv
<1>1. {claims[t].sid} \in SUBSET Session
  BY DEF SignOut, TypeOK, Claims, DeliveredSigned, Signed
<1>2. HashBinding' /\ DetectedFamilyDead' /\ sessions' \in [Session -> Row \cup {NoRow}]
  BY <1>1, DeleteRowsTyped, RowsOnlyLose DEF SignOut, history, Row
<1>3. OneOwner' /\ DeliveredSigned' /\ DetectedInUse'
  BY ClaimsUnchanged DEF SignOut, history
<1>4. TypeOK' /\ FlowsSound'
  BY <1>2 DEF SignOut, history, TypeOK, FlowsSound
<1>. QED
  BY <1>2, <1>3, <1>4

LEMMA RevokeAllForUserStep ==
  ASSUME IInv, NEW u \in User, RevokeAllForUser(u)
  PROVE  IInv'
<1>. USE DEF IInv
<1>1. RowsOfUser(u) \in SUBSET Session
  BY DEF RowsOfUser
<1>2. HashBinding' /\ DetectedFamilyDead' /\ sessions' \in [Session -> Row \cup {NoRow}]
  BY <1>1, RevokeRowsTyped, RowsOnlyLose DEF RevokeAllForUser, history
<1>3. OneOwner' /\ DeliveredSigned' /\ DetectedInUse'
  BY ClaimsUnchanged DEF RevokeAllForUser, history
<1>4. TypeOK' /\ FlowsSound'
  BY <1>2 DEF RevokeAllForUser, history, TypeOK, FlowsSound
<1>. QED
  BY <1>2, <1>3, <1>4

LEMMA BeginDeleteUserStep ==
  ASSUME IInv, NEW r \in Request, NEW u \in User, BeginDeleteUser(r, u)
  PROVE  IInv'
<1>. USE DEF IInv
<1>1. RowsOfUser(u) \in SUBSET Session
  BY DEF RowsOfUser
<1>2. HashBinding' /\ DetectedFamilyDead' /\ sessions' \in [Session -> Row \cup {NoRow}]
  BY <1>1, RevokeRowsTyped, RowsOnlyLose DEF BeginDeleteUser, history
<1>3. requests'[r] = [Idle EXCEPT !.pc = "drop", !.user = u]
  BY DEF BeginDeleteUser, TypeOK
<1>4. requests'[r] \in Local /\ FlowSound(requests'[r], claims)
  BY <1>3 DEF Idle, Local, PC, FlowSound
<1>5. requests' \in [Request -> Local] /\ FlowsSound'
  BY <1>4, OneFlow DEF BeginDeleteUser
<1>6. OneOwner' /\ DeliveredSigned' /\ DetectedInUse'
  BY ClaimsUnchanged DEF BeginDeleteUser, history
<1>7. TypeOK'
  BY <1>2, <1>5 DEF BeginDeleteUser, history, TypeOK
<1>. QED
  BY <1>2, <1>5, <1>6, <1>7

LEMMA DropUserStep ==
  ASSUME IInv, NEW r \in Request, DropUser(r)
  PROVE  IInv'
<1>. USE DEF IInv
<1>1. RowsOfUser(requests[r].user) \in SUBSET Session
  BY DEF RowsOfUser
<1>2. HashBinding' /\ DetectedFamilyDead' /\ sessions' \in [Session -> Row \cup {NoRow}]
  BY <1>1, DeleteRowsTyped, RowsOnlyLose DEF DropUser, history, Row
<1>3. requests'[r] = Idle
  BY DEF DropUser, TypeOK
<1>4. requests' \in [Request -> Local] /\ FlowsSound'
  BY <1>3, OneFlow, IdleTyped, IdleSound DEF DropUser
<1>5. OneOwner' /\ DeliveredSigned' /\ DetectedInUse'
  BY ClaimsUnchanged DEF DropUser, history
<1>6. TypeOK'
  BY <1>2, <1>4 DEF DropUser, history, TypeOK
<1>. QED
  BY <1>2, <1>4, <1>5, <1>6

LEMMA LapseStep ==
  ASSUME IInv, NEW s \in Session, Lapse(s)
  PROVE  IInv'
<1>. USE DEF IInv
<1>1. sessions[s] \in Row
  BY DEF Lapse, TypeOK, Exists
<1>2. sessions' = [sessions EXCEPT ![s] = [sessions[s] EXCEPT !.lapsed = TRUE]]
  BY DEF Lapse
<1>3. /\ sessions'[s] = [sessions[s] EXCEPT !.lapsed = TRUE]
      /\ \A x \in Session : x # s => sessions'[x] = sessions[x]
  BY <1>2 DEF TypeOK
<1>4. sessions'[s] \in Row
  BY <1>1, <1>3 DEF Row
<1>5. sessions' \in [Session -> Row \cup {NoRow}]
  BY <1>2, <1>3, <1>4 DEF TypeOK
<1>6. /\ sessions'[s].user = sessions[s].user
      /\ sessions'[s].family = sessions[s].family
      /\ sessions'[s].hash = sessions[s].hash
      /\ sessions'[s].revoked = sessions[s].revoked
  BY <1>1, <1>3 DEF Row
<1>7. HashBinding' /\ DetectedFamilyDead'
  BY <1>3, <1>5, <1>6, RowsOnlyLose DEF Lapse, history, Exists
<1>8. OneOwner' /\ DeliveredSigned' /\ DetectedInUse'
  BY ClaimsUnchanged DEF Lapse, history
<1>9. TypeOK' /\ FlowsSound'
  BY <1>5 DEF Lapse, history, TypeOK, FlowsSound
<1>. QED
  BY <1>7, <1>8, <1>9

LEMMA LookupStep ==
  ASSUME IInv, NEW r \in Request, NEW t \in Token, Lookup(r, t)
  PROVE  IInv'
<1>. USE DEF IInv
<1>1. Signed(t) /\ claims[t] \in Claims
  BY DEF Lookup, DeliveredSigned, Signed, TypeOK
<1>2. requests'[r] \in Local /\ FlowSound(requests'[r], claims)
  <2>1. CASE Verdict(t) = "rotate"
    <3>1. PICK s \in ByHash(t) :
             requests'[r] = [pc |-> "rotate", user |-> sessions[s].user, sid |-> s,
                             family |-> sessions[s].family, tok |-> t, new |-> Nil]
      BY <2>1 DEF Lookup, TypeOK
    <3>2. s \in Session /\ sessions[s] \in Row /\ sessions[s].hash = t
      BY DEF ByHash, Exists, TypeOK
    <3>3. claims[t] = [sid |-> s, sub |-> sessions[s].user, fam |-> sessions[s].family]
      BY <3>2 DEF HashBinding, ByHash
    <3>. QED
      BY <1>1, <3>1, <3>2, <3>3 DEF Row, Local, PC, FlowSound, SignedIn, Signed
  <2>2. CASE Verdict(t) # "rotate"
    <3>1. /\ Verdict(t) \in {"reuse", "expire"}
          /\ requests'[r] = [Idle EXCEPT !.pc = Verdict(t), !.family = claims[t].fam, !.tok = t]
      BY <2>2 DEF Lookup, TypeOK
    <3>. QED
      BY <1>1, <3>1 DEF Claims, Idle, Local, PC, FlowSound, SignedIn, Signed
  <2>. QED
    BY <2>1, <2>2
<1>3. requests' = [requests EXCEPT ![r] = requests'[r]]
  BY DEF Lookup, TypeOK
<1>4. requests' \in [Request -> Local] /\ FlowsSound'
  BY <1>2, <1>3, OneFlow DEF Lookup
<1>5. OneOwner' /\ DeliveredSigned' /\ DetectedInUse'
  BY ClaimsUnchanged DEF Lookup
<1>6. HashBinding' /\ DetectedFamilyDead'
  BY DEF Lookup, HashBinding, DetectedFamilyDead, Exists, Live
<1>7. TypeOK'
  BY <1>4 DEF Lookup, TypeOK
<1>. QED
  BY <1>4, <1>5, <1>6, <1>7

LEMMA RevokeFamilyStep ==
  ASSUME IInv, NEW r \in Request, RevokeFamily(r)
  PROVE  IInv'
<1>. USE DEF IInv
<1>. DEFINE f == requests[r].family
<1>1. SignedIn(requests[r].tok, claims) /\ claims[requests[r].tok].fam = f
  BY DEF RevokeFamily, FlowsSound, FlowSound
<1>2. f \in Family /\ ~FreshFamily(f)
  BY <1>1 DEF SignedIn, TypeOK, Claims, FreshFamily, Signed
<1>3. RowsOfFamily(f) \in SUBSET Session
  BY DEF RowsOfFamily
<1>4. sessions' \in [Session -> Row \cup {NoRow}]
  BY <1>3, RevokeRowsTyped DEF RevokeFamily
<1>5. HashBinding'
  BY <1>3, RevokeRowsTyped DEF RevokeFamily, HashBinding, Exists
<1>6. DetectedFamilyDead'
  <2>1. SUFFICES ASSUME NEW s \in Session, Live(s)', sessions'[s].family \in detected'
                 PROVE  FALSE
    BY DEF DetectedFamilyDead
  <2>2. /\ Live(s)
        /\ sessions'[s].family = sessions[s].family
        /\ s \notin RowsOfFamily(f)
    <3>1. sessions' = RevokeRows(RowsOfFamily(f))
      BY DEF RevokeFamily
    <3>. QED
      BY <1>3, <2>1, <3>1, RevokeRowsTyped DEF Live, Exists
  <2>3. sessions[s].family # f
    BY <2>2 DEF RowsOfFamily, Live
  <2>4. sessions[s].family \in detected
    BY <2>1, <2>2, <2>3 DEF RevokeFamily
  <2>. QED
    BY <2>2, <2>4 DEF DetectedFamilyDead
<1>7. OneOwner' /\ DeliveredSigned'
  BY DEF RevokeFamily, OneOwner, DeliveredSigned, Signed
<1>8. DetectedInUse'
  BY <1>2 DEF RevokeFamily, DetectedInUse, FreshFamily, Signed
<1>9. requests'[r] = Idle
  BY DEF RevokeFamily, TypeOK
<1>10. requests' \in [Request -> Local] /\ FlowsSound'
  BY <1>9, OneFlow, IdleTyped, IdleSound DEF RevokeFamily
<1>11. TypeOK'
  BY <1>2, <1>4, <1>10 DEF RevokeFamily, TypeOK
<1>. QED
  BY <1>5, <1>6, <1>7, <1>8, <1>10, <1>11

\* A step that signs n for session s and leaves every other row alone.
LEMMA SigningKeepsFlows ==
  ASSUME TypeOK, FlowsSound, NEW r \in Request, NEW n \in Token, NEW c \in Claims,
         ~Signed(n), claims' = [claims EXCEPT ![n] = c],
         requests' = [requests EXCEPT ![r] = [Idle EXCEPT !.pc = "respond", !.new = n]]
  PROVE  /\ claims' \in [Token -> Claims \cup {NoClaims}]
         /\ \A t \in Token : Signed(t) => claims'[t] = claims[t]
         /\ claims'[n] = c /\ SignedIn(n, claims')
         /\ requests' \in [Request -> Local]
         /\ FlowsSound'
<1>1. /\ claims' \in [Token -> Claims \cup {NoClaims}]
      /\ \A t \in Token : t # n => claims'[t] = claims[t]
      /\ claims'[n] = c
  BY DEF TypeOK
<1>2. \A t \in Token : Signed(t) => claims'[t] = claims[t]
  BY <1>1 DEF Signed
<1>3. SignedIn(n, claims')
  BY <1>1 DEF SignedIn
<1>4. /\ requests'[r] = [Idle EXCEPT !.pc = "respond", !.new = n]
      /\ \A x \in Request : x # r => requests'[x] = requests[x]
  BY DEF TypeOK
<1>5. [Idle EXCEPT !.pc = "respond", !.new = n] \in Local
  BY DEF Idle, Local, PC
<1>6. requests' \in [Request -> Local]
  BY <1>5 DEF TypeOK
<1>7. FlowSound([Idle EXCEPT !.pc = "respond", !.new = n], claims')
  BY <1>3 DEF Idle, FlowSound
<1>8. \A x \in Request : FlowSound(requests[x], claims')
  BY <1>2, FlowKept DEF FlowsSound, Signed
<1>9. FlowsSound'
  BY <1>4, <1>7, <1>8 DEF FlowsSound
<1>. QED
  BY <1>1, <1>2, <1>3, <1>6, <1>9

LEMMA IssueSessionStep ==
  ASSUME IInv, NEW r \in Request, IssueSession(r)
  PROVE  IInv'
<1>. USE DEF IInv
<1>1. CASE requests[r].user \notin users
  <2>1. requests'[r] = Idle
    BY <1>1 DEF IssueSession, TypeOK
  <2>2. requests' \in [Request -> Local] /\ FlowsSound'
    BY <1>1, <2>1, OneFlow, IdleTyped, IdleSound DEF IssueSession
  <2>3. OneOwner' /\ DeliveredSigned' /\ DetectedInUse'
    BY <1>1, ClaimsUnchanged DEF IssueSession, history
  <2>4. HashBinding' /\ DetectedFamilyDead'
    BY <1>1 DEF IssueSession, history, HashBinding, DetectedFamilyDead, Exists, Live
  <2>5. TypeOK'
    BY <1>1, <2>2 DEF IssueSession, history, TypeOK
  <2>. QED
    BY <2>2, <2>3, <2>4, <2>5
<1>2. CASE requests[r].user \in users
  <2>. DEFINE u == requests[r].user
  <2>1. PICK s \in Session, f \in Family, t \in Token :
           /\ FreshSession(s) /\ FreshFamily(f) /\ ~Signed(t)
           /\ claims' = [claims EXCEPT ![t] = [sid |-> s, sub |-> u, fam |-> f]]
           /\ sessions' = [sessions EXCEPT ![s] = NewRow(u, f, t)]
           /\ requests' = [requests EXCEPT ![r] = [Idle EXCEPT !.pc = "respond", !.new = t]]
    BY <1>2 DEF IssueSession
  <2>2. u \in User /\ UNCHANGED <<users, delivered, parent, presented, replayed, detected>>
    BY <1>2 DEF IssueSession, TypeOK, history
  <2>. DEFINE c == [sid |-> s, sub |-> u, fam |-> f]
  <2>3. c \in Claims
    BY <2>2 DEF Claims
  <2>. HIDE DEF c
  <2>4. /\ claims' \in [Token -> Claims \cup {NoClaims}]
        /\ \A x \in Token : Signed(x) => claims'[x] = claims[x]
        /\ claims'[t] = c /\ SignedIn(t, claims')
        /\ requests' \in [Request -> Local]
        /\ FlowsSound'
    BY <2>1, <2>3, SigningKeepsFlows DEF c
  <2>5. \A x \in Token : Signed(x)' => x = t \/ Signed(x)
    BY <2>1 DEF Signed, TypeOK
  <2>6. NewRow(u, f, t) \in Row
    BY <2>2 DEF NewRow, Row
  <2>7. /\ sessions' \in [Session -> Row \cup {NoRow}]
        /\ sessions'[s] = NewRow(u, f, t)
        /\ \A x \in Session : x # s => sessions'[x] = sessions[x]
    BY <2>1, <2>6 DEF TypeOK
  <2>8. HashBinding'
    <3>1. ASSUME NEW x \in Session, x # s, Exists(x)'
          PROVE  claims'[sessions'[x].hash] =
                   [sid |-> x, sub |-> sessions'[x].user, fam |-> sessions'[x].family]
      <4>1. Exists(x) /\ sessions'[x] = sessions[x] /\ sessions[x] \in Row
        BY <2>7, <3>1 DEF Exists, TypeOK
      <4>2. claims[sessions[x].hash] =
              [sid |-> x, sub |-> sessions[x].user, fam |-> sessions[x].family]
        BY <4>1 DEF HashBinding
      <4>3. claims[sessions[x].hash] \in Claims /\ sessions[x].hash \in Token
        BY <4>1, <4>2 DEF Row, Claims
      <4>. QED
        BY <2>4, <4>1, <4>2, <4>3 DEF Signed
    <3>2. claims'[sessions'[s].hash] =
            [sid |-> s, sub |-> sessions'[s].user, fam |-> sessions'[s].family]
      BY <2>4, <2>7 DEF NewRow, c
    <3>. QED
      BY <3>1, <3>2 DEF HashBinding
  <2>9. DetectedFamilyDead'
    <3>1. f \notin detected
      BY <2>1 DEF DetectedInUse
    <3>. QED
      BY <2>2, <2>7, <3>1 DEF DetectedFamilyDead, Live, Exists, NewRow
  <2>10. OneOwner'
    <3>1. ASSUME NEW x \in Token, Signed(x)
          PROVE  claims[x].sid # s /\ claims[x].fam # f
      BY <2>1, <3>1 DEF FreshSession, FreshFamily
    <3>2. c.sid = s /\ c.fam = f
      BY DEF c
    <3>. QED
      BY <2>4, <2>5, <3>1, <3>2 DEF OneOwner
  <2>11. DeliveredSigned'
    BY <2>2, <2>4 DEF DeliveredSigned, Signed, TypeOK
  <2>12. DetectedInUse'
    BY <2>2, <2>4 DEF DetectedInUse, FreshFamily, Signed
  <2>13. TypeOK'
    BY <2>2, <2>4, <2>7 DEF TypeOK
  <2>. QED
    BY <2>4, <2>8, <2>9, <2>10, <2>11, <2>12, <2>13
<1>. QED
  BY <1>1, <1>2

LEMMA RotateStep ==
  ASSUME IInv, NEW r \in Request, Rotate(r)
  PROVE  IInv'
<1>. USE DEF IInv
<1>. DEFINE q == requests[r]
<1>1. CASE ~Exists(q.sid)
  <2>1. requests'[r] = Idle
    BY <1>1 DEF Rotate, TypeOK
  <2>2. requests' \in [Request -> Local] /\ FlowsSound'
    BY <1>1, <2>1, OneFlow, IdleTyped, IdleSound DEF Rotate
  <2>3. OneOwner' /\ DeliveredSigned' /\ DetectedInUse'
    BY <1>1, ClaimsUnchanged DEF Rotate
  <2>4. HashBinding' /\ DetectedFamilyDead'
    BY <1>1 DEF Rotate, HashBinding, DetectedFamilyDead, Exists, Live
  <2>5. TypeOK'
    BY <1>1, <2>2 DEF Rotate, TypeOK
  <2>. QED
    BY <2>2, <2>3, <2>4, <2>5
<1>2. CASE Exists(q.sid)
  <2>. DEFINE c == [sid |-> q.sid, sub |-> q.user, fam |-> q.family]
  <2>1. PICK n \in Token :
           /\ ~Signed(n)
           /\ claims' = [claims EXCEPT ![n] = c]
           /\ sessions' = [sessions EXCEPT ![q.sid] = RotatedRow(sessions[q.sid], n)]
           /\ parent' = [parent EXCEPT ![n] = q.tok]
           /\ requests' = [requests EXCEPT ![r] = [Idle EXCEPT !.pc = "respond", !.new = n]]
    BY <1>2 DEF Rotate
  <2>2. /\ SignedIn(q.tok, claims) /\ claims[q.tok] = c
        /\ UNCHANGED <<users, delivered, presented, replayed, detected>>
    BY DEF Rotate, FlowsSound, FlowSound
  <2>3. c \in Claims /\ q.sid \in Session /\ Signed(q.tok)
    BY <2>2 DEF SignedIn, TypeOK, Claims, Signed
  <2>. DEFINE row == sessions[q.sid]
  <2>4. row \in Row
    BY <1>2, <2>3 DEF TypeOK, Exists
  \* The row is the one the lookup found: ids are never used twice.
  <2>5. row.user = q.user /\ row.family = q.family
    <3>1. claims[row.hash] = [sid |-> q.sid, sub |-> row.user, fam |-> row.family]
      BY <1>2, <2>3 DEF HashBinding
    <3>2. row.hash \in Token /\ claims[row.hash] \in Claims
      BY <2>4, <3>1, <2>3 DEF Row, Claims
    <3>3. Signed(row.hash)
      BY <3>2 DEF Signed
    <3>4. /\ claims[row.hash].sid = q.sid /\ claims[q.tok].sid = q.sid
          /\ claims[row.hash].sub = row.user /\ claims[q.tok].sub = q.user
          /\ claims[row.hash].fam = row.family /\ claims[q.tok].fam = q.family
      BY <3>1, <2>2
    <3>5. q.tok \in Token
      BY <2>2 DEF SignedIn
    <3>. HIDE DEF row, q, c
    <3>. QED
      BY <2>3, <3>2, <3>3, <3>4, <3>5 DEF OneOwner
  <2>6. /\ claims' \in [Token -> Claims \cup {NoClaims}]
        /\ \A x \in Token : Signed(x) => claims'[x] = claims[x]
        /\ claims'[n] = c /\ SignedIn(n, claims')
        /\ requests' \in [Request -> Local]
        /\ FlowsSound'
    <3>. HIDE DEF c
    <3>. QED
      BY <2>1, <2>3, SigningKeepsFlows
  <2>7. /\ RotatedRow(row, n) \in Row
        /\ RotatedRow(row, n).user = q.user
        /\ RotatedRow(row, n).family = q.family
        /\ RotatedRow(row, n).hash = n
        /\ RotatedRow(row, n).revoked = row.revoked
    BY <2>4, <2>5 DEF RotatedRow, Row
  <2>8. /\ sessions' \in [Session -> Row \cup {NoRow}]
        /\ sessions'[q.sid] = RotatedRow(row, n)
        /\ \A x \in Session : x # q.sid => sessions'[x] = sessions[x]
    BY <2>1, <2>3, <2>7 DEF TypeOK
  <2>9. HashBinding'
    <3>1. ASSUME NEW x \in Session, x # q.sid, Exists(x)'
          PROVE  claims'[sessions'[x].hash] =
                   [sid |-> x, sub |-> sessions'[x].user, fam |-> sessions'[x].family]
      <4>1. Exists(x) /\ sessions'[x] = sessions[x] /\ sessions[x] \in Row
        BY <2>8, <3>1 DEF Exists, TypeOK
      <4>2. claims[sessions[x].hash] =
              [sid |-> x, sub |-> sessions[x].user, fam |-> sessions[x].family]
        BY <4>1 DEF HashBinding
      <4>3. claims[sessions[x].hash] \in Claims /\ sessions[x].hash \in Token
        BY <4>1, <4>2 DEF Row, Claims
      <4>. QED
        BY <2>6, <4>1, <4>2, <4>3 DEF Signed
    <3>2. claims'[sessions'[q.sid].hash] =
            [sid |-> q.sid, sub |-> sessions'[q.sid].user, fam |-> sessions'[q.sid].family]
      BY <2>6, <2>7, <2>8
    <3>. QED
      BY <3>1, <3>2 DEF HashBinding
  <2>10. DetectedFamilyDead'
    <3>1. ASSUME NEW x \in Session, Live(x)'
          PROVE  sessions'[x].family \notin detected'
      <4>1. CASE x = q.sid
        <5>1. Live(x) /\ sessions'[x].family = sessions[x].family
          BY <1>2, <2>5, <2>7, <2>8, <3>1, <4>1 DEF Live, Exists
        <5>. QED
          BY <2>2, <5>1 DEF DetectedFamilyDead
      <4>2. CASE x # q.sid
        BY <2>2, <2>8, <3>1, <4>2 DEF DetectedFamilyDead, Live, Exists
      <4>. QED
        BY <4>1, <4>2
    <3>. QED
      BY <3>1 DEF DetectedFamilyDead
  <2>11. OneOwner'
    <3>1. \A x \in Token : Signed(x)' => x = n \/ Signed(x)
      BY <2>1 DEF Signed, TypeOK
    <3>2. claims'[n] = claims[q.tok]
      BY <2>2, <2>6
    <3>3. q.tok \in Token /\ Signed(q.tok)
      BY <2>2, <2>3 DEF SignedIn
    <3>. HIDE DEF q, c
    <3>. QED
      BY <2>6, <3>1, <3>2, <3>3 DEF OneOwner
  <2>12. DeliveredSigned'
    BY <2>2, <2>6 DEF DeliveredSigned, Signed, TypeOK
  <2>13. DetectedInUse'
    BY <2>2, <2>6 DEF DetectedInUse, FreshFamily, Signed
  <2>14. parent' \in [Token -> Token \cup {Nil}]
    BY <2>1, <2>2 DEF TypeOK, SignedIn
  <2>15. TypeOK'
    BY <2>2, <2>6, <2>8, <2>14 DEF TypeOK
  <2>. QED
    BY <2>6, <2>9, <2>10, <2>11, <2>12, <2>13, <2>15
<1>. QED
  BY <1>1, <1>2

-----------------------------------------------------------------------------

LEMMA StutterStep ==
  ASSUME IInv, UNCHANGED vars
  PROVE  IInv'
  BY DEF IInv, vars, history, TypeOK, HashBinding, DetectedFamilyDead, OneOwner,
     DeliveredSigned, DetectedInUse, FlowsSound, Exists, Live, Signed, FreshFamily

LEMMA NextIInv == IInv /\ [Next]_vars => IInv'
<1>. SUFFICES ASSUME IInv, [Next]_vars PROVE IInv'
  OBVIOUS
<1>1. ASSUME NEW r \in Request, Step(r) \/ Abort(r)
      PROVE  IInv'
  BY <1>1, IssueSessionStep, RespondStep, RevokeFamilyStep, RotateStep, DropUserStep, AbortStep
     DEF Step
<1>2. ASSUME NEW r \in Request, NEW u \in User, BeginSignIn(r, u) \/ BeginDeleteUser(r, u)
      PROVE  IInv'
  BY <1>2, BeginSignInStep, BeginDeleteUserStep
<1>3. ASSUME NEW r \in Request, NEW t \in Token, Lookup(r, t)
      PROVE  IInv'
  BY <1>3, LookupStep
<1>4. ASSUME NEW t \in Token, SignOut(t)
      PROVE  IInv'
  BY <1>4, SignOutStep
<1>5. ASSUME NEW u \in User, RevokeAllForUser(u)
      PROVE  IInv'
  BY <1>5, RevokeAllForUserStep
<1>6. ASSUME NEW s \in Session, Lapse(s)
      PROVE  IInv'
  BY <1>6, LapseStep
<1>7. CASE UNCHANGED vars
  BY <1>7, StutterStep
<1>. QED
  BY <1>1, <1>2, <1>3, <1>4, <1>5, <1>6, <1>7 DEF Next, Healthy

LEMMA SpecIInv == Spec => []IInv
  BY InitIInv, NextIInv, PTL DEF Spec

\* Every reachable state of Sessions is well typed.
THEOREM SpecTypeOK == Spec => []TypeOK
<1>1. IInv => TypeOK
  BY DEF IInv
<1>. QED
  BY <1>1, SpecIInv, PTL

\* A row's digest always belongs to a token that names the row, its user and
\* its family: rotation never crosses sessions (rotate.ts:64-81).
THEOREM SpecHashBinding == Spec => []HashBinding
<1>1. IInv => HashBinding
  BY DEF IInv
<1>. QED
  BY <1>1, SpecIInv, PTL

\* No session of a family in which reuse was detected is ever live again,
\* however many rotations were under way (rotate.ts:40-52, 77-81).
THEOREM SpecDetectedFamilyDead == Spec => []DetectedFamilyDead
<1>1. IInv => DetectedFamilyDead
  BY DEF IInv
<1>. QED
  BY <1>1, SpecIInv, PTL

-----------------------------------------------------------------------------
(* No false alarm.                                                         *)

\* No token of session s has been presented twice.
Quiet(s) == \A t \in replayed : claims[t].sid # s

PresentedSigned ==
    /\ replayed \subseteq presented
    /\ \A t \in presented : Signed(t)

RotationsPresented ==
    \A r \in Request : requests[r].pc = "rotate" => requests[r].tok \in presented

TwinsReplayed ==
    \A p, q \in Request :
        /\ requests[p].pc = "rotate" /\ requests[q].pc = "rotate"
        /\ requests[p].tok = requests[q].tok
        => p = q \/ requests[p].tok \in replayed

\* While no token of a live session was presented twice, the flows that rotate
\* it found its present digest, and every other pair it ever had was spent.
QuietInOrder ==
    \A s \in Session : Live(s) /\ Quiet(s) =>
        /\ \A r \in Request :
              requests[r].pc = "rotate" /\ requests[r].sid = s => requests[r].tok = sessions[s].hash
        /\ \A t \in Token :
              Signed(t) /\ claims[t].sid = s => t = sessions[s].hash \/ t \in presented

AlarmInv ==
    /\ PresentedSigned
    /\ RotationsPresented
    /\ TwinsReplayed
    /\ QuietInOrder
    /\ NoFalseAlarm

LEMMA InitAlarmInv == Init => AlarmInv
  BY DEF Init, AlarmInv, PresentedSigned, RotationsPresented, TwinsReplayed, QuietInOrder,
     NoFalseAlarm, Exists, Live, Signed, Idle

\* A step that signs and presents nothing, begins no rotation and no report,
\* and revives no session.
LEMMA AlarmKept ==
  ASSUME AlarmInv,
         UNCHANGED <<claims, presented, replayed>>,
         \A r \in Request : requests'[r].pc \in {"rotate", "reuse"} => requests'[r] = requests[r],
         \A s \in Session : Live(s)' => Live(s) /\ sessions'[s].hash = sessions[s].hash,
         TypeOK, FlowsSound
  PROVE  AlarmInv'
<1>. USE DEF AlarmInv
<1>1. PresentedSigned' /\ RotationsPresented' /\ TwinsReplayed'
  BY DEF PresentedSigned, RotationsPresented, TwinsReplayed, Signed
<1>2. QuietInOrder'
  BY DEF QuietInOrder, Quiet, Signed
<1>3. NoFalseAlarm'
  <2>. SUFFICES ASSUME NEW r \in Request, (requests[r].pc = "reuse")',
                       Live(claims[requests[r].tok].sid)'
                PROVE  (\E t \in replayed : claims[t].sid = claims[requests[r].tok].sid)'
    BY DEF NoFalseAlarm
  <2>1. requests[r] = requests'[r]
    OBVIOUS
  <2>2. SignedIn(requests[r].tok, claims)
    BY <2>1 DEF FlowsSound, FlowSound
  <2>3. PICK s \in Session : s = claims[requests[r].tok].sid
    BY <2>2 DEF SignedIn, TypeOK, Claims
  <2>4. Live(s)
    <3>1. Live(s)'
      BY <2>1, <2>3 DEF Live, Exists
    <3>. QED
      BY <3>1
  <2>5. \E t \in replayed : claims[t].sid = s
    BY <2>1, <2>3, <2>4 DEF NoFalseAlarm
  <2>. QED
    BY <2>1, <2>3, <2>5
<1>. QED
  BY <1>1, <1>2, <1>3

\* The step puts into one slot a flow that neither rotates nor reports reuse.
LEMMA SlotHarmless ==
  ASSUME TypeOK, NEW r \in Request, NEW q, requests' = [requests EXCEPT ![r] = q],
         q.pc \notin {"rotate", "reuse"}
  PROVE  \A x \in Request : requests'[x].pc \in {"rotate", "reuse"} => requests'[x] = requests[x]
<1>1. \A x \in Request : x # r => requests'[x] = requests[x]
  BY DEF TypeOK
<1>2. requests'[r] = q
  BY DEF TypeOK
<1>. QED
  BY <1>1, <1>2

LEMMA IdleHarmless ==
  /\ Idle.pc = "idle"
  /\ \A u : [Idle EXCEPT !.pc = "issue", !.user = u].pc = "issue"
  /\ \A u : [Idle EXCEPT !.pc = "drop", !.user = u].pc = "drop"
  /\ \A t : [Idle EXCEPT !.pc = "respond", !.new = t].pc = "respond"
  BY DEF Idle

LEMMA RevokeKeepsHash ==
  ASSUME TypeOK, NEW S \in SUBSET Session, sessions' = RevokeRows(S)
  PROVE  \A s \in Session : Live(s)' => Live(s) /\ sessions'[s].hash = sessions[s].hash
  BY RevokeRowsTyped DEF Live, Exists

LEMMA DeleteKeepsHash ==
  ASSUME TypeOK, NEW S \in SUBSET Session, sessions' = DeleteRows(S)
  PROVE  \A s \in Session : Live(s)' => Live(s) /\ sessions'[s].hash = sessions[s].hash
  BY DeleteRowsTyped DEF Live, Exists

LEMMA SameRowsKeepHash ==
  ASSUME UNCHANGED sessions
  PROVE  \A s \in Session : Live(s)' => Live(s) /\ sessions'[s].hash = sessions[s].hash
  BY DEF Live, Exists

\* The steps that end, revoke or begin something, and sign nothing.
LEMMA PlainAlarmSteps ==
  ASSUME IInv, AlarmInv,
         \/ \E r \in Request : Respond(r) \/ Abort(r) \/ RevokeFamily(r) \/ DropUser(r)
         \/ \E r \in Request, u \in User : BeginSignIn(r, u) \/ BeginDeleteUser(r, u)
         \/ \E t \in Token : SignOut(t)
         \/ \E u \in User : RevokeAllForUser(u)
         \/ \E s \in Session : Lapse(s)
  PROVE  AlarmInv'
<1>. USE DEF IInv
<1>1. ASSUME NEW r \in Request, NEW u \in User, BeginSignIn(r, u) PROVE AlarmInv'
  BY <1>1, SlotHarmless, IdleHarmless, SameRowsKeepHash, AlarmKept DEF BeginSignIn, history
<1>2. ASSUME NEW r \in Request, Respond(r) PROVE AlarmInv'
  BY <1>2, SlotHarmless, IdleHarmless, SameRowsKeepHash, AlarmKept DEF Respond, history
<1>3. ASSUME NEW r \in Request, Abort(r) PROVE AlarmInv'
  BY <1>3, SlotHarmless, IdleHarmless, SameRowsKeepHash, AlarmKept DEF Abort, history
<1>4. ASSUME NEW r \in Request, RevokeFamily(r) PROVE AlarmInv'
  <2>1. RowsOfFamily(requests[r].family) \in SUBSET Session
    BY DEF RowsOfFamily
  <2>. QED
    BY <1>4, <2>1, SlotHarmless, IdleHarmless, RevokeKeepsHash, AlarmKept DEF RevokeFamily
<1>5. ASSUME NEW t \in Token, SignOut(t) PROVE AlarmInv'
  <2>1. {claims[t].sid} \in SUBSET Session
    BY <1>5 DEF SignOut, TypeOK, Claims, DeliveredSigned, Signed
  <2>. QED
    BY <1>5, <2>1, DeleteKeepsHash, AlarmKept DEF SignOut, history
<1>6. ASSUME NEW u \in User, RevokeAllForUser(u) PROVE AlarmInv'
  <2>1. RowsOfUser(u) \in SUBSET Session
    BY DEF RowsOfUser
  <2>. QED
    BY <1>6, <2>1, RevokeKeepsHash, AlarmKept DEF RevokeAllForUser, history
<1>7. ASSUME NEW r \in Request, NEW u \in User, BeginDeleteUser(r, u) PROVE AlarmInv'
  <2>1. RowsOfUser(u) \in SUBSET Session
    BY DEF RowsOfUser
  <2>. QED
    BY <1>7, <2>1, SlotHarmless, IdleHarmless, RevokeKeepsHash, AlarmKept
       DEF BeginDeleteUser, history
<1>8. ASSUME NEW r \in Request, DropUser(r) PROVE AlarmInv'
  <2>1. RowsOfUser(requests[r].user) \in SUBSET Session
    BY DEF RowsOfUser
  <2>. QED
    BY <1>8, <2>1, SlotHarmless, IdleHarmless, DeleteKeepsHash, AlarmKept DEF DropUser, history
<1>9. ASSUME NEW s \in Session, Lapse(s) PROVE AlarmInv'
  <2>1. sessions[s] \in Row
    BY <1>9 DEF Lapse, TypeOK, Exists
  <2>2. \A x \in Session : Live(x)' => Live(x) /\ sessions'[x].hash = sessions[x].hash
    BY <1>9, <2>1 DEF Lapse, TypeOK, Live, Exists, Row
  <2>. QED
    BY <1>9, <2>2, AlarmKept DEF Lapse, history
<1>. QED
  BY <1>1, <1>2, <1>3, <1>4, <1>5, <1>6, <1>7, <1>8, <1>9

LEMMA StutterAlarm ==
  ASSUME IInv, AlarmInv, UNCHANGED vars
  PROVE  AlarmInv'
  BY SameRowsKeepHash, AlarmKept DEF IInv, vars, history

\* A rotation holds a token of the session it will write to.
LEMMA RotationNamesSession ==
  ASSUME TypeOK, FlowsSound, NEW r \in Request, requests[r].pc = "rotate"
  PROVE  /\ requests[r].tok \in Token /\ Signed(requests[r].tok)
         /\ claims[requests[r].tok].sid = requests[r].sid /\ requests[r].sid \in Session
<1>. DEFINE q == requests[r]
<1>1. SignedIn(q.tok, claims) /\ claims[q.tok] = [sid |-> q.sid, sub |-> q.user, fam |-> q.family]
  BY DEF FlowsSound, FlowSound
<1>2. q.tok \in Token /\ claims[q.tok] \in Claims
  BY <1>1 DEF SignedIn, TypeOK
<1>3. claims[q.tok].sid = q.sid
  BY <1>1
<1>. QED
  BY <1>1, <1>2, <1>3 DEF SignedIn, Signed, Claims

\* What the lookup leaves in its slot.
LEMMA LookupResult ==
  ASSUME TypeOK, NEW r \in Request, NEW t \in Token, Lookup(r, t)
  PROVE  /\ Verdict(t) \in {"rotate", "reuse", "expire"}
         /\ requests'[r].pc = Verdict(t) /\ requests'[r].tok = t
         /\ Verdict(t) = "rotate" =>
               \E s \in ByHash(t) : /\ requests'[r].sid = s
                                    /\ requests'[r].family = sessions[s].family
         /\ Verdict(t) # "rotate" => requests'[r].family = claims[t].fam
<1>1. CASE Verdict(t) = "rotate"
  <2>1. PICK s \in ByHash(t) :
           requests'[r] = [pc |-> "rotate", user |-> sessions[s].user, sid |-> s,
                           family |-> sessions[s].family, tok |-> t, new |-> Nil]
    BY <1>1 DEF Lookup, TypeOK
  <2>. QED
    BY <1>1, <2>1
<1>2. CASE Verdict(t) # "rotate"
  <2>1. /\ Verdict(t) \in {"reuse", "expire"}
        /\ requests'[r] = [Idle EXCEPT !.pc = Verdict(t), !.family = claims[t].fam, !.tok = t]
    BY <1>2 DEF Lookup, TypeOK
  <2>. QED
    BY <1>2, <2>1 DEF Idle
<1>. QED
  BY <1>1, <1>2

LEMMA IssueSessionAlarm ==
  ASSUME IInv, AlarmInv, NEW r \in Request, IssueSession(r)
  PROVE  AlarmInv'
<1>. USE DEF IInv
<1>1. CASE requests[r].user \notin users
  <2>1. /\ UNCHANGED <<sessions, claims, presented, replayed>>
        /\ requests' = [requests EXCEPT ![r] = Idle]
    BY <1>1 DEF IssueSession, history
  <2>. QED
    BY <2>1, SlotHarmless, IdleHarmless, SameRowsKeepHash, AlarmKept
<1>2. CASE requests[r].user \in users
  <2>. DEFINE u == requests[r].user
  <2>1. PICK s \in Session, f \in Family, t \in Token :
           /\ FreshSession(s) /\ ~Signed(t)
           /\ claims' = [claims EXCEPT ![t] = [sid |-> s, sub |-> u, fam |-> f]]
           /\ sessions' = [sessions EXCEPT ![s] = NewRow(u, f, t)]
           /\ requests' = [requests EXCEPT ![r] = [Idle EXCEPT !.pc = "respond", !.new = t]]
    BY <1>2 DEF IssueSession
  <2>2. UNCHANGED <<presented, replayed>>
    BY DEF IssueSession, history
  <2>3. /\ claims'[t].sid = s /\ sessions'[s].hash = t
        /\ \A x \in Token : x # t => claims'[x] = claims[x]
        /\ \A x \in Session : x # s => sessions'[x] = sessions[x]
    BY <2>1 DEF TypeOK, NewRow
  <2>4. \A x \in Request :
           requests'[x].pc \in {"rotate", "reuse"} => x # r /\ requests'[x] = requests[x]
    BY <2>1, IdleHarmless DEF TypeOK
  <2>5. \A x \in presented : x # t /\ x \in Token /\ claims'[x] = claims[x] /\ claims[x].sid # s
    BY <2>1, <2>3 DEF AlarmInv, PresentedSigned, TypeOK, FreshSession
  <2>6. \A x \in Request : requests[x].pc \in {"rotate", "reuse"} =>
           /\ requests[x].tok \in Token /\ Signed(requests[x].tok)
           /\ requests[x].tok # t /\ claims[requests[x].tok].sid # s
    BY <2>1 DEF FlowsSound, FlowSound, SignedIn, Signed, FreshSession
  <2>7. PresentedSigned'
    BY <2>2, <2>5 DEF AlarmInv, PresentedSigned, Signed
  <2>8. RotationsPresented' /\ TwinsReplayed'
    BY <2>2, <2>4 DEF AlarmInv, RotationsPresented, TwinsReplayed
  <2>9. QuietInOrder'
    <3>1. SUFFICES ASSUME NEW z \in Session, Live(z)', Quiet(z)'
                   PROVE  /\ \A x \in Request :
                                requests'[x].pc = "rotate" /\ requests'[x].sid = z
                                  => requests'[x].tok = sessions'[z].hash
                          /\ \A x \in Token :
                                Signed(x)' /\ claims'[x].sid = z
                                  => x = sessions'[z].hash \/ x \in presented'
      BY DEF QuietInOrder
    <3>2. CASE z = s
      <4>1. \A x \in Request : requests[x].pc = "rotate" => requests[x].sid # s
        BY <2>6, RotationNamesSession
      <4>2. \A x \in Token : x # t /\ Signed(x) => claims[x].sid # s
        BY <2>1 DEF FreshSession
      <4>. QED
        BY <3>2, <4>1, <4>2, <2>3, <2>4 DEF Signed
    <3>3. CASE z # s
      <4>1. Live(z) /\ Quiet(z) /\ sessions'[z] = sessions[z]
        BY <3>1, <3>3, <2>2, <2>3, <2>5 DEF Live, Exists, Quiet, AlarmInv, PresentedSigned
      <4>. QED
        BY <3>3, <4>1, <2>2, <2>3, <2>4 DEF AlarmInv, QuietInOrder, Signed
    <3>. QED
      BY <3>2, <3>3
  <2>10. NoFalseAlarm'
    <3>. SUFFICES ASSUME NEW x \in Request, requests'[x].pc = "reuse",
                         Live(claims[requests[x].tok].sid)'
                  PROVE  \E y \in replayed' : claims'[y].sid = claims'[requests'[x].tok].sid
      BY DEF NoFalseAlarm
    <3>1. requests'[x] = requests[x] /\ claims'[requests[x].tok] = claims[requests[x].tok]
      BY <2>3, <2>4, <2>6
    <3>2. PICK z \in Session : z = claims[requests[x].tok].sid /\ z # s
      BY <3>1, <2>6 DEF TypeOK, Claims, Signed
    <3>3. Live(z)
      BY <3>1, <3>2, <2>3 DEF Live, Exists
    <3>4. \E y \in replayed : claims[y].sid = z
      BY <3>1, <3>2, <3>3 DEF AlarmInv, NoFalseAlarm
    <3>. QED
      BY <3>1, <3>2, <3>4, <2>2, <2>5 DEF AlarmInv, PresentedSigned
  <2>. QED
    BY <2>7, <2>8, <2>9, <2>10 DEF AlarmInv
<1>. QED
  BY <1>1, <1>2

LEMMA RotateAlarm ==
  ASSUME IInv, AlarmInv, NEW r \in Request, Rotate(r)
  PROVE  AlarmInv'
<1>. USE DEF IInv
<1>. DEFINE q == requests[r]
<1>1. CASE ~Exists(q.sid)
  <2>1. /\ UNCHANGED <<sessions, claims, presented, replayed>>
        /\ requests' = [requests EXCEPT ![r] = Idle]
    BY <1>1 DEF Rotate
  <2>. QED
    BY <2>1, SlotHarmless, IdleHarmless, SameRowsKeepHash, AlarmKept
<1>2. CASE Exists(q.sid)
  <2>1. PICK n \in Token :
           /\ ~Signed(n)
           /\ claims' = [claims EXCEPT ![n] = [sid |-> q.sid, sub |-> q.user, fam |-> q.family]]
           /\ sessions' = [sessions EXCEPT ![q.sid] = RotatedRow(sessions[q.sid], n)]
           /\ requests' = [requests EXCEPT ![r] = [Idle EXCEPT !.pc = "respond", !.new = n]]
    BY <1>2 DEF Rotate
  <2>2. UNCHANGED <<presented, replayed>> /\ q.pc = "rotate"
    BY DEF Rotate
  <2>3. q.tok \in Token /\ Signed(q.tok) /\ claims[q.tok].sid = q.sid /\ q.sid \in Session
    BY <2>2, RotationNamesSession
  <2>4. sessions[q.sid] \in Row
    BY <1>2, <2>3 DEF TypeOK, Exists
  <2>5. /\ claims'[n].sid = q.sid
        /\ sessions'[q.sid].hash = n /\ sessions'[q.sid].revoked = sessions[q.sid].revoked
        /\ \A x \in Token : x # n => claims'[x] = claims[x]
        /\ \A x \in Session : x # q.sid => sessions'[x] = sessions[x]
    BY <2>1, <2>3, <2>4 DEF TypeOK, RotatedRow, Row
  <2>6. \A x \in Request :
           requests'[x].pc \in {"rotate", "reuse"} => x # r /\ requests'[x] = requests[x]
    BY <2>1, IdleHarmless DEF TypeOK
  <2>7. \A x \in presented : x # n /\ x \in Token /\ claims'[x] = claims[x]
    BY <2>1, <2>5 DEF AlarmInv, PresentedSigned, TypeOK
  <2>8. \A x \in Session : Live(x)' => Live(x)
    BY <1>2, <2>5 DEF Live, Exists
  <2>9. PresentedSigned'
    BY <2>2, <2>7 DEF AlarmInv, PresentedSigned, Signed
  <2>10. RotationsPresented' /\ TwinsReplayed'
    BY <2>2, <2>6 DEF AlarmInv, RotationsPresented, TwinsReplayed
  <2>11. QuietInOrder'
    <3>1. SUFFICES ASSUME NEW z \in Session, Live(z)', Quiet(z)'
                   PROVE  /\ \A x \in Request :
                                requests'[x].pc = "rotate" /\ requests'[x].sid = z
                                  => requests'[x].tok = sessions'[z].hash
                          /\ \A x \in Token :
                                Signed(x)' /\ claims'[x].sid = z
                                  => x = sessions'[z].hash \/ x \in presented'
      BY DEF QuietInOrder
    <3>2. Live(z) /\ Quiet(z)
      BY <3>1, <2>2, <2>7, <2>8 DEF Quiet, AlarmInv, PresentedSigned
    <3>3. CASE z = q.sid
      \* Any other rotation of z found the same digest, so it was replayed.
      <4>1. q.tok = sessions[z].hash /\ q.tok \in presented /\ q.tok \notin replayed
        BY <3>2, <3>3, <2>2, <2>3 DEF AlarmInv, QuietInOrder, RotationsPresented, Quiet
      <4>2. \A x \in Request : x # r /\ requests[x].pc = "rotate" => requests[x].sid # z
        <5>. HIDE DEF q
        <5>1. \A x \in Request : requests[x].pc = "rotate" /\ requests[x].sid = z
                 => requests[x].tok = q.tok
          BY <3>2, <4>1 DEF AlarmInv, QuietInOrder
        <5>. QED
          BY <5>1, <4>1, <2>2 DEF AlarmInv, TwinsReplayed, q
      <4>3. \A x \in Token : Signed(x) /\ claims[x].sid = z => x \in presented
        BY <3>2, <4>1 DEF AlarmInv, QuietInOrder
      <4>. QED
        BY <3>3, <4>2, <4>3, <2>2, <2>5, <2>6 DEF Signed
    <3>4. CASE z # q.sid
      BY <3>2, <3>4, <2>2, <2>5, <2>6 DEF AlarmInv, QuietInOrder, Signed
    <3>. QED
      BY <3>3, <3>4
  <2>12. NoFalseAlarm'
    <3>. SUFFICES ASSUME NEW x \in Request, requests'[x].pc = "reuse",
                         Live(claims[requests[x].tok].sid)'
                  PROVE  \E y \in replayed' : claims'[y].sid = claims'[requests'[x].tok].sid
      BY DEF NoFalseAlarm
    <3>1. requests[x].tok \in Token /\ Signed(requests[x].tok) /\ requests'[x] = requests[x]
      BY <2>6 DEF FlowsSound, FlowSound, SignedIn, Signed
    <3>2. claims'[requests[x].tok] = claims[requests[x].tok]
      BY <3>1, <2>1, <2>5
    <3>3. PICK z \in Session : z = claims[requests[x].tok].sid
      BY <3>1 DEF TypeOK, Claims, Signed
    <3>4. Live(z)
      <4>1. Live(z)'
        BY <3>1, <3>2, <3>3 DEF Live, Exists
      <4>. QED
        BY <4>1, <2>8
    <3>5. \E y \in replayed : claims[y].sid = z
      BY <3>1, <3>3, <3>4 DEF AlarmInv, NoFalseAlarm
    <3>. QED
      BY <3>1, <3>2, <3>3, <3>5, <2>2, <2>7 DEF AlarmInv, PresentedSigned
  <2>. QED
    BY <2>9, <2>10, <2>11, <2>12 DEF AlarmInv
<1>. QED
  BY <1>1, <1>2

LEMMA LookupAlarm ==
  ASSUME IInv, AlarmInv, NEW r \in Request, NEW t \in Token, Lookup(r, t)
  PROVE  AlarmInv'
<1>. USE DEF IInv
<1>1. /\ requests[r] = Idle /\ Signed(t) /\ claims[t] \in Claims
      /\ UNCHANGED <<sessions, claims>>
      /\ presented' = presented \cup {t}
      /\ replayed' = IF t \in presented THEN replayed \cup {t} ELSE replayed
      /\ \A x \in Request : x # r => requests'[x] = requests[x]
  BY DEF Lookup, DeliveredSigned, TypeOK, Signed
<1>2. requests'[r].tok = t
  BY LookupResult
<1>3. requests'[r].pc = "rotate" =>
         \E s \in Session : s = requests'[r].sid /\ sessions[s].hash = t
  BY LookupResult DEF ByHash
<1>4. requests'[r].pc = "reuse" => \A s \in Session : Live(s) => sessions[s].hash # t
  <2>1. SUFFICES ASSUME requests'[r].pc = "reuse" PROVE Verdict(t) = "reuse"
    BY DEF Verdict, ByHash, Live
  <2>. QED
    BY <2>1, LookupResult
<1>5. PresentedSigned'
  BY <1>1 DEF AlarmInv, PresentedSigned, Signed
<1>6. RotationsPresented'
  BY <1>1, <1>2 DEF AlarmInv, RotationsPresented
<1>7. TwinsReplayed'
  <2>1. \A x \in Request : x # r /\ requests[x].pc = "rotate" /\ requests[x].tok = t
           => t \in replayed'
    BY <1>1 DEF AlarmInv, RotationsPresented
  <2>. QED
    BY <1>1, <1>2, <2>1 DEF AlarmInv, TwinsReplayed
<1>8. QuietInOrder'
  <2>1. \A z \in Session : Live(z)' /\ Quiet(z)' => Live(z) /\ Quiet(z)
    BY <1>1 DEF Live, Exists, Quiet
  <2>. QED
    BY <1>1, <1>2, <1>3, <2>1 DEF AlarmInv, QuietInOrder, Signed
<1>9. NoFalseAlarm'
  <2>. SUFFICES ASSUME NEW x \in Request, requests'[x].pc = "reuse",
                       Live(claims[requests[x].tok].sid)'
                PROVE  \E y \in replayed' : claims'[y].sid = claims'[requests'[x].tok].sid
    BY DEF NoFalseAlarm
  <2>1. CASE x # r
    <3>1. requests'[x] = requests[x]
      BY <1>1, <2>1
    <3>2. PICK z \in Session : z = claims[requests[x].tok].sid
      BY <3>1 DEF FlowsSound, FlowSound, SignedIn, TypeOK, Claims
    <3>3. Live(z)
      BY <1>1, <3>1, <3>2 DEF Live, Exists
    <3>4. \E y \in replayed : claims[y].sid = z
      BY <3>1, <3>2, <3>3 DEF AlarmInv, NoFalseAlarm
    <3>. QED
      BY <1>1, <3>1, <3>2, <3>4
  <2>2. CASE x = r
    <3>1. PICK z \in Session : z = claims[t].sid
      BY <1>1 DEF Claims
    <3>2. Live(z)
      BY <1>1, <1>2, <2>2, <3>1 DEF Live, Exists
    \* The digest of the live session is another one, so t was spent already.
    <3>3. sessions[z].hash # t
      BY <1>4, <2>2, <3>2
    <3>4. t \in presented \/ ~Quiet(z)
      BY <1>1, <3>1, <3>2, <3>3 DEF AlarmInv, QuietInOrder
    <3>. QED
      BY <1>1, <1>2, <2>2, <3>1, <3>4 DEF Quiet
  <2>. QED
    BY <2>1, <2>2
<1>. QED
  BY <1>5, <1>6, <1>7, <1>8, <1>9 DEF AlarmInv

LEMMA NextAlarmInv == IInv /\ AlarmInv /\ [Next]_vars => AlarmInv'
<1>. SUFFICES ASSUME IInv, AlarmInv, [Next]_vars PROVE AlarmInv'
  OBVIOUS
<1>1. CASE Next
  <2>1. CASE \E r \in Request : IssueSession(r) \/ Rotate(r) \/ \E t \in Token : Lookup(r, t)
    BY <2>1, IssueSessionAlarm, RotateAlarm, LookupAlarm
  <2>2. CASE ~\E r \in Request : IssueSession(r) \/ Rotate(r) \/ \E t \in Token : Lookup(r, t)
    BY <1>1, <2>2, PlainAlarmSteps DEF Next, Healthy, Step
  <2>. QED
    BY <2>1, <2>2
<1>2. CASE UNCHANGED vars
  BY <1>2, StutterAlarm
<1>. QED
  BY <1>1, <1>2

\* The alarm of reuse is only raised for a live session one of whose tokens
\* was really presented twice, whatever else runs (rotate.ts:38-57).
THEOREM SpecNoFalseAlarm == Spec => []NoFalseAlarm
<1>1. AlarmInv => NoFalseAlarm
  BY DEF AlarmInv
<1>. QED
  BY <1>1, SpecIInv, InitAlarmInv, NextAlarmInv, PTL DEF Spec

-----------------------------------------------------------------------------
(* Nobody new rotates in a condemned family.                               *)

\* Every step but a lookup leaves the rotations in progress as they were or
\* ends them.
LEMMA OnlyLookupsBeginRotations ==
  ASSUME IInv, [Next]_vars, ~\E r \in Request, t \in Token : Lookup(r, t)
  PROVE  \A x \in Request : requests'[x].pc = "rotate" => requests'[x] = requests[x]
<1>. USE DEF IInv
<1>1. ASSUME NEW r \in Request, Step(r) \/ Abort(r)
      PROVE  \A x \in Request : requests'[x].pc = "rotate" => requests'[x] = requests[x]
  <2>1. \/ requests' = [requests EXCEPT ![r] = Idle]
        \/ \E n \in Token : requests' = [requests EXCEPT ![r] = [Idle EXCEPT !.pc = "respond", !.new = n]]
    BY <1>1 DEF Step, IssueSession, Respond, RevokeFamily, Rotate, DropUser, Abort
  <2>2. CASE requests' = [requests EXCEPT ![r] = Idle]
    BY <2>2, SlotHarmless, IdleHarmless
  <2>3. ASSUME NEW n \in Token,
               requests' = [requests EXCEPT ![r] = [Idle EXCEPT !.pc = "respond", !.new = n]]
        PROVE  \A x \in Request : requests'[x].pc = "rotate" => requests'[x] = requests[x]
    BY <2>3, SlotHarmless, IdleHarmless
  <2>. QED
    BY <2>1, <2>2, <2>3
<1>2. ASSUME NEW r \in Request, NEW u \in User, BeginSignIn(r, u) \/ BeginDeleteUser(r, u)
      PROVE  \A x \in Request : requests'[x].pc = "rotate" => requests'[x] = requests[x]
  <2>1. CASE BeginSignIn(r, u)
    BY <2>1, SlotHarmless, IdleHarmless DEF BeginSignIn
  <2>2. CASE BeginDeleteUser(r, u)
    BY <2>2, SlotHarmless, IdleHarmless DEF BeginDeleteUser
  <2>. QED
    BY <1>2, <2>1, <2>2
<1>3. CASE \/ \E t \in Token : SignOut(t)
           \/ \E u \in User : RevokeAllForUser(u)
           \/ \E s \in Session : Lapse(s)
           \/ UNCHANGED vars
  BY <1>3 DEF SignOut, RevokeAllForUser, Lapse, vars
<1>. QED
  BY <1>1, <1>2, <1>3 DEF Next, Healthy

LEMMA StepAdmitsNobody ==
  ASSUME IInv, [Next]_vars, NEW x \in Request, requests'[x].pc = "rotate",
         requests'[x].family \in detected
  PROVE  requests[x] = requests'[x]
<1>. USE DEF IInv
<1>1. CASE ~\E r \in Request, t \in Token : Lookup(r, t)
  BY <1>1, OnlyLookupsBeginRotations
<1>2. ASSUME NEW r \in Request, NEW t \in Token, Lookup(r, t)
      PROVE  requests[x] = requests'[x]
  <2>1. CASE x # r
    BY <1>2, <2>1 DEF Lookup, TypeOK
  <2>2. CASE x = r
    <3>1. Verdict(t) = "rotate"
      BY <1>2, <2>2, LookupResult
    <3>2. PICK s \in ByHash(t) : requests'[r].family = sessions[s].family
      BY <1>2, <3>1, LookupResult
    <3>3. PICK z \in ByHash(t) : ~sessions[z].revoked
      BY <3>1 DEF Verdict
    \* Two rows never share a digest: the token names one session.
    <3>4. s = z
      <4>1. /\ s \in Session /\ z \in Session /\ Exists(s) /\ Exists(z)
            /\ sessions[s].hash = t /\ sessions[z].hash = t
        BY DEF ByHash
      <4>2. /\ claims[t] = [sid |-> s, sub |-> sessions[s].user, fam |-> sessions[s].family]
            /\ claims[t] = [sid |-> z, sub |-> sessions[z].user, fam |-> sessions[z].family]
        BY <4>1 DEF HashBinding
      <4>. QED
        BY <4>2
    <3>5. Live(s)
      BY <3>3, <3>4 DEF ByHash, Live
    <3>. QED
      BY <2>2, <3>2, <3>5 DEF DetectedFamilyDead, ByHash
  <2>. QED
    BY <2>1, <2>2
<1>. QED
  BY <1>1, <1>2

\* Once a family is condemned no lookup gets as far as rotating in it; only
\* flows already past their lookup can still write (rotate.ts:38-52).
THEOREM SpecCondemnedFamilyAdmitsNobody == Spec => CondemnedFamilyAdmitsNobody
<1>1. IInv /\ [Next]_vars =>
        [\A r \in Request :
            /\ requests'[r].pc = "rotate"
            /\ requests'[r].family \in detected
            => requests[r] = requests'[r]]_vars
  BY StepAdmitsNobody
<1>. QED
  BY <1>1, SpecIInv, PTL DEF Spec, CondemnedFamilyAdmitsNobody

-----------------------------------------------------------------------------
(* The store implements SessionLifecycle.                                  *)

\* A signed token tells the family of its session.
LEMMA FamilyOfToken ==
  ASSUME OneOwner, NEW t \in Token, Signed(t)
  PROVE  ~FreshSession(claims[t].sid) /\ FamilyOf(claims[t].sid) = claims[t].fam
<1>. DEFINE s == claims[t].sid
            c == CHOOSE x \in Token : Signed(x) /\ claims[x].sid = s
<1>1. ~FreshSession(s)
  BY DEF FreshSession
<1>2. c \in Token /\ Signed(c) /\ claims[c].sid = s
  OBVIOUS
<1>3. claims[c].fam = claims[t].fam
  <2>. HIDE DEF c
  <2>. QED
    BY <1>2 DEF OneOwner
<1>. QED
  BY <1>1, <1>3 DEF FamilyOf

LEMMA FamilyOfTokenLater ==
  ASSUME OneOwner', NEW t \in Token, Signed(t)'
  PROVE  \A s : s = claims'[t].sid => ~FreshSession(s)' /\ FamilyOf(s)' = claims'[t].fam
<1>. SUFFICES ASSUME NEW s, s = claims'[t].sid
              PROVE  ~FreshSession(s)' /\ FamilyOf(s)' = claims'[t].fam
  OBVIOUS
<1>. DEFINE c == CHOOSE x \in Token : claims'[x] # NoClaims /\ claims'[x].sid = s
<1>1. ~FreshSession(s)'
  BY DEF FreshSession
<1>2. c \in Token /\ claims'[c] # NoClaims /\ claims'[c].sid = s
  BY DEF Signed
<1>3. claims'[c].fam = claims'[t].fam
  <2>. HIDE DEF c
  <2>. QED
    BY <1>2 DEF OneOwner, Signed
<1>4. FamilyOf(s)' = claims'[c].fam
  BY <1>1 DEF FamilyOf, Signed
<1>. QED
  BY <1>1, <1>3, <1>4

\* A row is of the family its session was opened in.
LEMMA FamilyOfRow ==
  ASSUME IInv, NEW s \in Session, Exists(s)
  PROVE  ~FreshSession(s) /\ FamilyOf(s) = sessions[s].family
<1>. USE DEF IInv
<1>. DEFINE t == sessions[s].hash
<1>1. t \in Token
  BY DEF TypeOK, Exists, Row
<1>2. claims[t] = [sid |-> s, sub |-> sessions[s].user, fam |-> sessions[s].family]
  BY DEF HashBinding
<1>3. claims[t] \in Claims \cup {NoClaims}
  BY <1>1 DEF TypeOK
<1>4. sessions[s].user \in User /\ sessions[s].family \in Family
  BY DEF TypeOK, Exists, Row
<1>5. claims[t] \in Claims
  BY <1>2, <1>4 DEF Claims
<1>6. Signed(t)
  BY <1>5 DEF Signed
<1>7. claims[t].sid = s /\ claims[t].fam = sessions[s].family
  BY <1>2
<1>. HIDE DEF t
<1>. QED
  BY <1>1, <1>6, <1>7, FamilyOfToken

\* A step that signs nothing leaves what is known of families alone.
LEMMA FamiliesKept ==
  ASSUME UNCHANGED claims
  PROVE  \A s \in Session : FreshSession(s)' = FreshSession(s) /\ FamilyOf(s)' = FamilyOf(s)
  BY DEF FreshSession, FamilyOf, Signed

LEMMA StoreUntouched ==
  ASSUME UNCHANGED <<sessions, claims, detected>>
  PROVE  UNCHANGED Lifecycle!vars
<1>1. \A s \in Session : Status(s)' = Status(s)
  BY FamiliesKept DEF Status, Live, Exists
<1>. QED
  BY <1>1, FamiliesKept DEF Lifecycle!vars

\* Revoking rows is the specification's downgrade.
LEMMA RevokingDowngrades ==
  ASSUME IInv, NEW S \in SUBSET Session, sessions' = RevokeRows(S), UNCHANGED claims
  PROVE  /\ [s \in Session |-> Status(s)]' = Lifecycle!Downgrade(S)
         /\ [s \in Session |-> FamilyOf(s)]' = [s \in Session |-> FamilyOf(s)]
<1>. USE DEF IInv
<1>1. ASSUME NEW s \in Session
      PROVE  Status(s)' = IF s \in S /\ Status(s) = "live" THEN "revoked" ELSE Status(s)
  <2>1. CASE Exists(s)
    <3>1. /\ sessions[s] \in Row
          /\ Exists(s)'
          /\ sessions'[s].revoked = (sessions[s].revoked \/ s \in S)
      BY <2>1 DEF TypeOK, Exists, Row, RevokeRows
    <3>. QED
      BY <2>1, <3>1 DEF Status, Live
  <2>2. CASE ~Exists(s)
    <3>1. ~Exists(s)'
      BY <2>2 DEF Exists, RevokeRows
    <3>. QED
      BY <2>2, <3>1, FamiliesKept DEF Status, Live
  <2>. QED
    BY <2>1, <2>2
<1>. QED
  BY <1>1, FamiliesKept DEF Lifecycle!Downgrade

LEMMA RevokeImplements ==
  ASSUME IInv, NEW S \in SUBSET Session, sessions' = RevokeRows(S),
         UNCHANGED <<claims, detected>>
  PROVE  Lifecycle!Next
<1>1. Lifecycle!Revoke(S)
  BY RevokingDowngrades DEF Lifecycle!Revoke
<1>. QED
  BY <1>1 DEF Lifecycle!Next

\* Deleting the rows S closes the sessions of S that have one.
LEMMA DeleteImplements ==
  ASSUME IInv, NEW S \in SUBSET Session, sessions' = DeleteRows(S),
         UNCHANGED <<claims, detected>>
  PROVE  Lifecycle!Next
<1>. DEFINE D == {s \in S : Exists(s)}
<1>1. ASSUME NEW s \in Session
      PROVE  Status(s)' = IF s \in D THEN "gone" ELSE Status(s)
  <2>1. CASE s \in D
    BY <2>1, FamilyOfRow, FamiliesKept DEF DeleteRows, Status, Live, Exists
  <2>2. CASE s \notin D
    <3>1. sessions'[s] = sessions[s]
      BY <2>2 DEF DeleteRows, Exists
    <3>. QED
      BY <2>2, <3>1, FamiliesKept DEF Status, Live, Exists
  <2>. QED
    BY <2>1, <2>2
<1>2. \A s \in D : Status(s) \in {"live", "revoked"}
  BY DEF Status
<1>3. Lifecycle!Close(D)
  BY <1>1, <1>2, FamiliesKept DEF Lifecycle!Close
<1>. QED
  BY <1>3 DEF Lifecycle!Next

LEMMA CondemnImplements ==
  ASSUME IInv, NEW r \in Request, RevokeFamily(r)
  PROVE  Lifecycle!Next
<1>. DEFINE f == requests[r].family
            S == RowsOfFamily(f)
<1>1. S \in SUBSET Session /\ sessions' = RevokeRows(S) /\ UNCHANGED claims
  BY DEF RevokeFamily, RowsOfFamily
<1>2. CASE requests[r].pc # "reuse"
  BY <1>1, <1>2, RevokeImplements DEF RevokeFamily
<1>3. CASE requests[r].pc = "reuse"
  <2>1. SignedIn(requests[r].tok, claims) /\ claims[requests[r].tok].fam = f
    BY <1>3 DEF IInv, FlowsSound, FlowSound
  <2>2. f \in Family
    BY <2>1 DEF IInv, SignedIn, TypeOK, Claims
  <2>. DEFINE A == {s \in Session : [x \in Session |-> FamilyOf(x)][s] = f}
  <2>3. \A s \in Session : Status(s) = "live" => (s \in S <=> s \in A)
    BY FamilyOfRow DEF Status, Live, RowsOfFamily
  <2>4. Lifecycle!Downgrade(S) = Lifecycle!Downgrade(A)
    BY <2>3 DEF Lifecycle!Downgrade
  <2>5. detected' = detected \cup {f}
    BY <1>3 DEF RevokeFamily
  <2>6. Lifecycle!Condemn(f)
    BY <1>1, <2>4, <2>5, RevokingDowngrades DEF Lifecycle!Condemn
  <2>. QED
    BY <2>2, <2>6 DEF Lifecycle!Next
<1>. QED
  BY <1>2, <1>3

\* Opening a session is IssueSession's insert.
LEMMA OpenImplements ==
  ASSUME IInv, IInv', NEW r \in Request, IssueSession(r)
  PROVE  Lifecycle!Next \/ UNCHANGED Lifecycle!vars
<1>. USE DEF IInv
<1>1. CASE requests[r].user \notin users
  BY <1>1, StoreUntouched DEF IssueSession, history
<1>2. CASE requests[r].user \in users
  <2>. DEFINE u == requests[r].user
  <2>1. PICK s \in Session, f \in Family, t \in Token :
           /\ FreshSession(s) /\ FreshFamily(f) /\ ~Signed(t)
           /\ claims' = [claims EXCEPT ![t] = [sid |-> s, sub |-> u, fam |-> f]]
           /\ sessions' = [sessions EXCEPT ![s] = NewRow(u, f, t)]
    BY <1>2 DEF IssueSession
  <2>2. /\ claims'[t] = [sid |-> s, sub |-> u, fam |-> f]
        /\ \A x \in Token : x # t => claims'[x] = claims[x]
        /\ sessions'[s] = NewRow(u, f, t)
        /\ \A x \in Session : x # s => sessions'[x] = sessions[x]
    BY <2>1 DEF TypeOK
  <2>. UNCHANGED detected
    BY DEF IssueSession, history
  <2>3. Signed(t)'
    <3>1. claims'[t] \in Claims
      BY <1>2, <2>2 DEF Claims, TypeOK
    <3>. QED
      BY <3>1 DEF Signed
  <2>4. \A x \in Token : Signed(x) => x # t /\ Signed(x)'
    BY <2>1, <2>2 DEF Signed
  <2>5. \A x \in Token : Signed(x)' => x = t \/ Signed(x)
    BY <2>2 DEF Signed
  <2>6. ~Exists(s)
    BY <2>1, FamilyOfRow
  <2>7. Status(s) = "none"
    BY <2>1, <2>6 DEF Status, Live
  <2>8. Status(s)' = "live"
    <3>1. NewRow(u, f, t) \in Row /\ ~NewRow(u, f, t).revoked
      BY <1>2 DEF NewRow, Row, TypeOK
    <3>. QED
      BY <2>2, <3>1 DEF Status, Live, Exists
  <2>9. FamilyOf(s)' = f
    BY <2>2, <2>3, FamilyOfTokenLater
  <2>10. ASSUME NEW x \in Session, x # s
         PROVE  Status(x)' = Status(x) /\ FamilyOf(x)' = FamilyOf(x)
    <3>1. FreshSession(x)' = FreshSession(x)
      BY <2>2, <2>4, <2>5, <2>10 DEF FreshSession
    <3>2. Status(x)' = Status(x)
      BY <2>2, <2>10, <3>1 DEF Status, Live, Exists
    <3>3. CASE FreshSession(x)
      BY <3>1, <3>2, <3>3 DEF FamilyOf
    <3>4. ASSUME NEW y \in Token, Signed(y), claims[y].sid = x
          PROVE  FamilyOf(x)' = FamilyOf(x)
      <4>1. Signed(y)' /\ claims'[y] = claims[y]
        BY <2>2, <2>4, <3>4
      <4>2. FamilyOf(x) = claims[y].fam
        BY <3>4, FamilyOfToken
      <4>3. FamilyOf(x)' = claims[y].fam
        BY <3>4, <4>1, FamilyOfTokenLater
      <4>. QED
        BY <4>2, <4>3
    <3>. QED
      BY <3>2, <3>3, <3>4 DEF FreshSession
  <2>11. \A x \in Session : FamilyOf(x) # f
    <3>1. ASSUME NEW x \in Session, FamilyOf(x) = f PROVE FALSE
      <4>1. ~FreshSession(x)
        BY <3>1 DEF FamilyOf
      <4>2. PICK y \in Token : Signed(y) /\ claims[y].sid = x
        BY <4>1 DEF FreshSession
      <4>3. claims[y].fam = f
        BY <3>1, <4>2, FamilyOfToken
      <4>. QED
        BY <2>1, <4>2, <4>3 DEF FreshFamily
    <3>. QED
      BY <3>1
  <2>12. f \notin detected
    BY <2>1 DEF DetectedInUse
  <2>13. Lifecycle!Open(s, f)
    BY <2>2, <2>7, <2>8, <2>9, <2>10, <2>11, <2>12 DEF Lifecycle!Open
  <2>. QED
    BY <2>13 DEF Lifecycle!Next
<1>. QED
  BY <1>1, <1>2

\* A rotation changes neither standing nor family of any session.
LEMMA RotateImplements ==
  ASSUME IInv, IInv', NEW r \in Request, Rotate(r)
  PROVE  UNCHANGED Lifecycle!vars
<1>. USE DEF IInv
<1>. DEFINE q == requests[r]
<1>1. CASE ~Exists(q.sid)
  BY <1>1, StoreUntouched DEF Rotate
<1>2. CASE Exists(q.sid)
  <2>1. PICK n \in Token :
           /\ ~Signed(n)
           /\ claims' = [claims EXCEPT ![n] = [sid |-> q.sid, sub |-> q.user, fam |-> q.family]]
           /\ sessions' = [sessions EXCEPT ![q.sid] = RotatedRow(sessions[q.sid], n)]
    BY <1>2 DEF Rotate
  <2>2. q.tok \in Token /\ Signed(q.tok) /\ claims[q.tok].sid = q.sid /\ q.sid \in Session
    BY RotationNamesSession DEF Rotate
  <2>3. sessions[q.sid] \in Row
    BY <1>2, <2>2 DEF TypeOK, Exists
  <2>4. /\ claims'[n].sid = q.sid
        /\ \A x \in Token : x # n => claims'[x] = claims[x]
        /\ sessions'[q.sid] \in Row /\ sessions'[q.sid].revoked = sessions[q.sid].revoked
        /\ \A x \in Session : x # q.sid => sessions'[x] = sessions[x]
        /\ detected' = detected
    BY <2>1, <2>2, <2>3 DEF Rotate, TypeOK, RotatedRow, Row
  <2>5. \A x \in Token : Signed(x) => x # n /\ Signed(x)' /\ claims'[x] = claims[x]
    BY <2>1, <2>4 DEF Signed
  <2>6. \A x \in Token : Signed(x)' => x = n \/ Signed(x)
    BY <2>4 DEF Signed
  <2>7. ASSUME NEW x \in Session
        PROVE  Status(x)' = Status(x) /\ FamilyOf(x)' = FamilyOf(x)
    <3>. HIDE DEF q
    <3>1. FreshSession(x)' = FreshSession(x)
      BY <2>2, <2>4, <2>5, <2>6 DEF FreshSession
    <3>2. Live(x)' = Live(x) /\ Exists(x)' = Exists(x)
      BY <1>2, <2>3, <2>4 DEF Live, Exists
    <3>3. Status(x)' = Status(x)
      BY <3>1, <3>2 DEF Status
    <3>4. CASE FreshSession(x)
      BY <3>1, <3>3, <3>4 DEF FamilyOf
    <3>5. ASSUME NEW y \in Token, Signed(y), claims[y].sid = x
          PROVE  FamilyOf(x)' = FamilyOf(x)
      <4>1. Signed(y)' /\ claims'[y] = claims[y]
        BY <2>5, <3>5
      <4>2. FamilyOf(x) = claims[y].fam
        BY <3>5, FamilyOfToken
      <4>3. FamilyOf(x)' = claims[y].fam
        BY <3>5, <4>1, FamilyOfTokenLater
      <4>. QED
        BY <4>2, <4>3
    <3>. QED
      BY <3>3, <3>4, <3>5 DEF FreshSession
  <2>. QED
    BY <2>4, <2>7 DEF Lifecycle!vars
<1>. QED
  BY <1>1, <1>2

LEMMA InitLifecycle == Init => Lifecycle!Init
<1>. SUFFICES ASSUME Init PROVE Lifecycle!Init
  OBVIOUS
<1>1. \A s \in Session : Status(s) = "none" /\ FamilyOf(s) = Nil
  BY DEF Init, Status, Live, Exists, FreshSession, FamilyOf, Signed
<1>. QED
  BY <1>1 DEF Init, Lifecycle!Init

LEMMA NextLifecycle == IInv /\ IInv' /\ [Next]_vars => [Lifecycle!Next]_(Lifecycle!vars)
<1>. SUFFICES ASSUME IInv, IInv', [Next]_vars PROVE Lifecycle!Next \/ UNCHANGED Lifecycle!vars
  OBVIOUS
<1>1. ASSUME NEW r \in Request, Step(r) \/ Abort(r)
      PROVE  Lifecycle!Next \/ UNCHANGED Lifecycle!vars
  <2>1. CASE IssueSession(r)
    BY <2>1, OpenImplements
  <2>2. CASE Respond(r) \/ Abort(r)
    BY <2>2, StoreUntouched DEF Respond, Abort, history
  <2>3. CASE RevokeFamily(r)
    BY <2>3, CondemnImplements
  <2>4. CASE Rotate(r)
    BY <2>4, RotateImplements
  <2>5. CASE DropUser(r)
    <3>1. RowsOfUser(requests[r].user) \in SUBSET Session
      BY DEF RowsOfUser
    <3>. QED
      BY <2>5, <3>1, DeleteImplements DEF DropUser, history
  <2>. QED
    BY <1>1, <2>1, <2>2, <2>3, <2>4, <2>5 DEF Step
<1>2. ASSUME NEW u \in User, \/ RevokeAllForUser(u)
                             \/ \E r \in Request : BeginSignIn(r, u) \/ BeginDeleteUser(r, u)
      PROVE  Lifecycle!Next \/ UNCHANGED Lifecycle!vars
  <2>1. RowsOfUser(u) \in SUBSET Session
    BY DEF RowsOfUser
  <2>2. CASE \E r \in Request : BeginSignIn(r, u)
    BY <2>2, StoreUntouched DEF BeginSignIn, history
  <2>3. CASE RevokeAllForUser(u) \/ \E r \in Request : BeginDeleteUser(r, u)
    BY <2>1, <2>3, RevokeImplements DEF RevokeAllForUser, BeginDeleteUser, history
  <2>. QED
    BY <1>2, <2>2, <2>3
<1>3. ASSUME NEW t \in Token, SignOut(t)
      PROVE  Lifecycle!Next
  <2>1. {claims[t].sid} \in SUBSET Session
    BY <1>3 DEF SignOut, IInv, TypeOK, Claims, DeliveredSigned, Signed
  <2>. QED
    BY <1>3, <2>1, DeleteImplements DEF SignOut, history
<1>4. ASSUME NEW r \in Request, NEW t \in Token, Lookup(r, t)
      PROVE  UNCHANGED Lifecycle!vars
  BY <1>4, StoreUntouched DEF Lookup
<1>5. ASSUME NEW s \in Session, Lapse(s)
      PROVE  UNCHANGED Lifecycle!vars
  <2>1. sessions[s] \in Row
    BY <1>5 DEF Lapse, IInv, TypeOK, Exists
  <2>2. \A x \in Session : Live(x)' = Live(x) /\ Exists(x)' = Exists(x)
    BY <1>5, <2>1 DEF Lapse, IInv, TypeOK, Row, Live, Exists
  <2>3. \A x \in Session : Status(x)' = Status(x) /\ FamilyOf(x)' = FamilyOf(x)
    BY <1>5, <2>2, FamiliesKept DEF Lapse, Status
  <2>. QED
    BY <1>5, <2>3 DEF Lapse, history, Lifecycle!vars
<1>6. CASE UNCHANGED vars
  BY <1>6, StoreUntouched DEF vars, history
<1>. QED
  BY <1>1, <1>2, <1>3, <1>4, <1>5, <1>6 DEF Next, Healthy

\* Sessions implements SessionLifecycle: a session opens once, in a family of
\* its own, and no interleaving of flows gives it back the standing it lost
\* (rotate.ts:77-81, adapter pg/index.ts:271-294).
THEOREM SpecImplementsLifecycle == Spec => ImplementsLifecycle
  BY InitLifecycle, NextLifecycle, SpecIInv, PTL DEF Spec, ImplementsLifecycle, Lifecycle!Spec

=============================================================================
