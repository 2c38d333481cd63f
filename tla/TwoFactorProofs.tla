--------------------------- MODULE TwoFactorProofs ---------------------------
(***************************************************************************)
(* For every set of users, secrets, codes and flows, and every batch size: *)
(* the type invariant of TwoFactor, and that lost updates are the only way *)
(* a spent code comes back or an unproven secret gets enabled.             *)
(*                                                                         *)
(* The properties speak of records; the proof needs what each flow knows   *)
(* of the copy it read (FlowsSound), that a record's codes come from one   *)
(* batch of its user (CodesOfOneBatch), that accepted codes were stored    *)
(* (UsedStored), so that a new batch holds none of them, and that no code  *)
(* was ever given to two users (BatchesApart), so that a code one user     *)
(* spends takes nothing from another.                                      *)
(***************************************************************************)
EXTENDS TwoFactor, TLAPS

\* What a flow may rely on after its read, whatever ran since.
FlowSound(q, p, b) ==
    /\ q.pc # "idle" => q.user \in User
    /\ q.pc \in {"enable", "redeem", "renew"} => q.seen \in Record
    /\ q.pc \in {"enable", "renew"} => q.seen.secret \in p[q.user]
    /\ q.pc = "redeem" =>
          /\ q.seen.enabled
          /\ q.code \in q.seen.codes
          /\ \E B \in b[q.user] : q.seen.codes \subseteq B

FlowsSound == \A r \in Request : FlowSound(requests[r], proven, batches)

\* Whatever updates were lost: the list of codes is written whole.
CodesOfOneBatch ==
    \A u \in User : Enabled(u) =>
        \E B \in batches[u] : record[u].codes \subseteq B

UsedStored == \A c \in used : \E u \in User : \E B \in batches[u] : c \in B

LatestStored == \A u \in User : latest[u] = {} \/ latest[u] \in batches[u]

BatchesApart ==
    \A u, v \in User : u # v => \A B \in batches[u], C \in batches[v] : B \cap C = {}

IInv ==
    /\ TypeOK
    /\ CodesOfOneBatch
    /\ SpentCodesGone
    /\ EnabledSecretProven
    /\ FlowsSound
    /\ UsedStored
    /\ LatestStored
    /\ BatchesApart

-----------------------------------------------------------------------------

USE SentinelAssumption

LEMMA IdleSound ==
  /\ Idle \in Local
  /\ \A p, b : FlowSound(Idle, p, b)
  BY DEF Idle, Local, PC, FlowSound

LEMMA InitIInv == Init => IInv
  BY IdleSound DEF Init, IInv, TypeOK, CodesOfOneBatch, SpentCodesGone, EnabledSecretProven,
     FlowsSound, UsedStored, LatestStored, BatchesApart, Enrolled, Enabled

\* proven and batches only grow, so what a flow relied on still holds.
LEMMA FlowKept ==
  ASSUME NEW q \in Local, NEW p, NEW b, NEW p2, NEW b2, FlowSound(q, p, b),
         \A u \in User : p[u] \subseteq p2[u] /\ b[u] \subseteq b2[u]
  PROVE  FlowSound(q, p2, b2)
  BY DEF FlowSound

LEMMA OneFlow ==
  ASSUME TypeOK, FlowsSound, NEW r \in Request, NEW q \in Local,
         requests' = [requests EXCEPT ![r] = q], FlowSound(q, proven', batches'),
         \A u \in User : proven[u] \subseteq proven'[u] /\ batches[u] \subseteq batches'[u]
  PROVE  requests' \in [Request -> Local] /\ FlowsSound'
<1>1. /\ requests'[r] = q
      /\ \A x \in Request : x # r => requests'[x] = requests[x]
  BY DEF TypeOK
<1>2. \A x \in Request : requests[x] \in Local /\ FlowSound(requests[x], proven', batches')
  BY FlowKept DEF FlowsSound, TypeOK
<1>3. FlowsSound'
  BY <1>1, <1>2 DEF FlowsSound
<1>. QED
  BY <1>3 DEF TypeOK

\* A flow that ends relies on nothing any more.
LEMMA Finished ==
  ASSUME TypeOK, FlowsSound, NEW r \in Request, Finish(r),
         \A u \in User : proven[u] \subseteq proven'[u] /\ batches[u] \subseteq batches'[u]
  PROVE  requests' \in [Request -> Local] /\ FlowsSound'
  BY IdleSound, OneFlow DEF Finish

\* A step that changes no batch and no history of acceptance, and takes away
\* records at most.
LEMMA RecordsOnlyGo ==
  ASSUME IInv, UNCHANGED <<drawn, batches, latest, used, reused, raced>>,
         users' \subseteq User, pending' \subseteq User,
         record' \in [User -> Record \cup {NoRecord}],
         \A u \in User : record'[u] = record[u] \/ record'[u] = NoRecord,
         proven' \in [User -> SUBSET Secret],
         \A u \in User : proven[u] \subseteq proven'[u],
         requests' \in [Request -> Local], FlowsSound'
  PROVE  IInv'
<1>. USE DEF IInv
<1>1. TypeOK'
  BY DEF TypeOK
<1>2. \A u \in User : Enabled(u)' => Enabled(u) /\ record'[u] = record[u]
  BY DEF Enabled, Enrolled
<1>3. CodesOfOneBatch' /\ SpentCodesGone' /\ EnabledSecretProven'
  BY <1>2 DEF CodesOfOneBatch, SpentCodesGone, EnabledSecretProven
<1>4. UsedStored' /\ LatestStored' /\ BatchesApart'
  BY DEF UsedStored, LatestStored, BatchesApart
<1>. QED
  BY <1>1, <1>3, <1>4

-----------------------------------------------------------------------------
(* The reads, and the steps that write no record.                          *)

LEMMA Begun ==
  ASSUME IInv, NEW r \in Request, NEW u \in User, NEW pc \in PC, NEW c \in Code \cup {Nil},
         Begin(r, u, pc, c),
         proven' \in [User -> SUBSET Secret],
         \A v \in User : proven[v] \subseteq proven'[v],
         FlowSound([pc |-> pc, user |-> u, seen |-> record[u], code |-> c], proven', batches),
         UNCHANGED <<users, record, pending, drawn, batches, latest, used, reused, raced>>
  PROVE  IInv'
<1>1. [pc |-> pc, user |-> u, seen |-> record[u], code |-> c] \in Local
  BY DEF IInv, TypeOK, Local
<1>2. requests' \in [Request -> Local] /\ FlowsSound'
  BY <1>1, OneFlow DEF Begin, IInv
<1>. QED
  BY <1>2, RecordsOnlyGo DEF IInv, TypeOK

LEMMA ReadSteps ==
  ASSUME IInv, NEW r \in Request, NEW u \in User,
         \/ Setup(r, u) \/ Activate(r, u) \/ Regenerate(r, u) \/ Disable(r, u)
         \/ \E c \in Code : Verify(r, u, c)
  PROVE  IInv'
<1>. USE DEF IInv
<1>1. \A v \in User : record[v] \in Record \cup {NoRecord} /\ proven[v] \subseteq Secret
  BY DEF TypeOK
<1>2. CASE Setup(r, u)
  BY <1>2, Begun DEF Setup, history, PC, FlowSound, TypeOK
<1>3. ASSUME Enrolled(u), proven' = [proven EXCEPT ![u] = @ \cup {record[u].secret}]
      PROVE  /\ record[u] \in Record
             /\ proven' \in [User -> SUBSET Secret]
             /\ \A v \in User : proven[v] \subseteq proven'[v]
             /\ record[u].secret \in proven'[u]
  BY <1>1, <1>3 DEF Enrolled, Record, TypeOK
<1>4. CASE Activate(r, u)
  <2>1. FlowSound([pc |-> "enable", user |-> u, seen |-> record[u], code |-> Nil], proven', batches)
    BY <1>3, <1>4 DEF Activate, FlowSound
  <2>. QED
    BY <1>3, <1>4, <2>1, Begun DEF Activate, PC
<1>5. CASE Regenerate(r, u)
  <2>1. FlowSound([pc |-> "renew", user |-> u, seen |-> record[u], code |-> Nil], proven', batches)
    BY <1>3, <1>5 DEF Regenerate, Enabled, FlowSound
  <2>. QED
    BY <1>3, <1>5, <2>1, Begun DEF Regenerate, Enabled, PC
<1>6. CASE Disable(r, u)
  <2>1. FlowSound([pc |-> "remove", user |-> u, seen |-> record[u], code |-> Nil], proven', batches)
    BY DEF FlowSound
  <2>. QED
    BY <1>3, <1>6, <2>1, Begun DEF Disable, PC
<1>7. ASSUME NEW c \in Code, Verify(r, u, c)
      PROVE  IInv'
  <2>1. FlowSound([pc |-> "redeem", user |-> u, seen |-> record[u], code |-> c], proven, batches)
    BY <1>1, <1>7 DEF Verify, Enabled, Enrolled, FlowSound, CodesOfOneBatch
  <2>. QED
    BY <1>7, <2>1, Begun DEF Verify, history, PC, TypeOK
<1>. QED
  BY <1>2, <1>4, <1>5, <1>6, <1>7

LEMMA PlainSteps ==
  ASSUME IInv,
         \/ \E r \in Request : Remove(r) \/ Abort(r)
         \/ \E u \in User : Challenge(u) \/ PendingExpires(u) \/ DeleteUser(u)
         \/ UNCHANGED vars
  PROVE  IInv'
<1>. USE DEF IInv
<1>1. ASSUME NEW r \in Request, Remove(r) PROVE IInv'
  <2>1. requests' \in [Request -> Local] /\ FlowsSound'
    BY <1>1, Finished DEF Remove, history
  <2>. QED
    BY <1>1, <2>1, RecordsOnlyGo DEF Remove, history, TypeOK
<1>2. ASSUME NEW r \in Request, Abort(r) PROVE IInv'
  <2>1. requests' \in [Request -> Local] /\ FlowsSound'
    BY <1>2, Finished DEF Abort, history
  <2>. QED
    BY <1>2, <2>1, RecordsOnlyGo DEF Abort, history, TypeOK
<1>3. CASE \/ \E u \in User : Challenge(u) \/ PendingExpires(u) \/ DeleteUser(u)
           \/ UNCHANGED vars
  <2>1. requests' \in [Request -> Local] /\ FlowsSound'
    BY <1>3 DEF Challenge, PendingExpires, DeleteUser, vars, history, TypeOK, FlowsSound
  <2>2. ASSUME NEW u \in User, Challenge(u) \/ PendingExpires(u) PROVE IInv'
    BY <2>1, <2>2, RecordsOnlyGo DEF Challenge, PendingExpires, history, TypeOK
  <2>3. ASSUME NEW u \in User, DeleteUser(u) PROVE IInv'
    BY <2>1, <2>3, RecordsOnlyGo DEF DeleteUser, history, TypeOK
  <2>4. CASE UNCHANGED vars
    BY <2>1, <2>4, RecordsOnlyGo DEF vars, history, TypeOK
  <2>. QED
    BY <1>3, <2>2, <2>3, <2>4
<1>. QED
  BY <1>1, <1>2, <1>3

-----------------------------------------------------------------------------
(* The writes.                                                             *)

\* A flow that acted for u on a copy out of date leaves its mark.
LEMMA ActMarks ==
  ASSUME TypeOK, NEW r \in Request, requests[r].user \in User, Act(r)
  PROVE  /\ raced' \subseteq User /\ raced \subseteq raced'
         /\ requests[r].user \notin raced' => record[requests[r].user] = requests[r].seen
  BY DEF Act, TypeOK

LEMMA EnrollStep ==
  ASSUME IInv, NEW r \in Request, Enroll(r)
  PROVE  IInv'
<1>. USE DEF IInv
<1>. DEFINE u == requests[r].user
<1>1. u \in User
  BY DEF Enroll, FlowsSound, FlowSound
<1>2. requests' \in [Request -> Local] /\ FlowsSound'
  BY Finished DEF Enroll
<1>3. CASE u \notin users
  BY <1>2, <1>3, RecordsOnlyGo DEF Enroll, TypeOK
<1>4. CASE u \in users
  <2>1. PICK s \in Secret \ drawn : record' = [record EXCEPT ![u] = NewRecord(s)] /\ drawn' = drawn \cup {s}
    BY <1>4 DEF Enroll
  <2>2. raced' \subseteq User /\ raced \subseteq raced'
    BY <1>1, <1>4, ActMarks DEF Enroll
  <2>3. NewRecord(s) \in Record /\ ~NewRecord(s).enabled
    BY DEF NewRecord, Record
  <2>4. /\ record' \in [User -> Record \cup {NoRecord}]
        /\ record'[u] = NewRecord(s)
        /\ \A v \in User : v # u => record'[v] = record[v]
    BY <1>1, <2>1, <2>3 DEF TypeOK
  <2>5. \A v \in User : Enabled(v)' => Enabled(v) /\ record'[v] = record[v]
    BY <2>3, <2>4 DEF Enabled, Enrolled
  <2>6. TypeOK'
    BY <1>2, <2>1, <2>2, <2>4 DEF Enroll, TypeOK
  <2>7. CodesOfOneBatch' /\ SpentCodesGone' /\ EnabledSecretProven'
    BY <2>2, <2>5 DEF Enroll, CodesOfOneBatch, SpentCodesGone, EnabledSecretProven
  <2>8. UsedStored' /\ LatestStored' /\ BatchesApart'
    BY DEF Enroll, UsedStored, LatestStored, BatchesApart
  <2>. QED
    BY <1>2, <2>6, <2>7, <2>8
<1>. QED
  BY <1>3, <1>4

\* Enable and Renew: a new batch replaces what the record held, and the
\* record stays enabled, or becomes so with the secret that was proven.
LEMMA StoreStep ==
  ASSUME IInv, NEW r \in Request, NEW B \in SUBSET Code, NEW patched,
         requests[r].pc \in {"enable", "renew"},
         StoreBatch(r, B, patched),
         Enrolled(requests[r].user) =>
            /\ patched \in Record
            /\ patched.codes = B
            /\ patched.secret = record[requests[r].user].secret
  PROVE  IInv'
<1>. USE DEF IInv
<1>1. PICK u \in User : /\ u = requests[r].user
                       /\ requests[r].seen \in Record /\ requests[r].seen.secret \in proven[u]
  BY DEF FlowsSound, FlowSound
<1>2. /\ batches' = [batches EXCEPT ![u] = @ \cup {B}]
      /\ latest' = [latest EXCEPT ![u] = B]
      /\ UNCHANGED <<users, pending, drawn, proven, used, reused>>
  BY <1>1 DEF StoreBatch
<1>3. \A v \in User : proven[v] \subseteq proven'[v] /\ batches[v] \subseteq batches'[v]
  BY <1>1, <1>2 DEF TypeOK
<1>4. requests' \in [Request -> Local] /\ FlowsSound'
  BY <1>3, Finished DEF StoreBatch
<1>5. /\ raced' \subseteq User /\ raced \subseteq raced'
      /\ u \notin raced' => record[u] = requests[r].seen
  BY <1>1, ActMarks DEF StoreBatch
<1>6. /\ record' \in [User -> Record \cup {NoRecord}]
      /\ Enrolled(u)' => Enrolled(u) /\ record'[u] = patched
      /\ \A v \in User : v # u => record'[v] = record[v]
  BY <1>1 DEF StoreBatch, TypeOK, Enrolled
<1>7. /\ batches' \in [User -> SUBSET SUBSET Code] /\ latest' \in [User -> SUBSET Code]
      /\ batches'[u] = batches[u] \cup {B} /\ latest'[u] = B
      /\ \A v \in User : v # u => batches'[v] = batches[v] /\ latest'[v] = latest[v]
  BY <1>1, <1>2 DEF TypeOK
<1>8. TypeOK'
  BY <1>2, <1>4, <1>5, <1>6, <1>7 DEF TypeOK
\* The new codes were never given out, so none of them was accepted.
<1>9. B \cap used = {}
  BY DEF StoreBatch, FreshBatch, UsedStored
<1>10. CodesOfOneBatch'
  <2>1. ASSUME NEW v \in User, Enabled(v)'
        PROVE  \E C \in batches'[v] : record'[v].codes \subseteq C
    <3>1. CASE v = u
      <4>1. record'[v].codes = B
        BY <1>1, <1>6, <2>1, <3>1 DEF Enabled
      <4>. QED
        BY <1>7, <3>1, <4>1
    <3>2. CASE v # u
      BY <1>6, <1>7, <2>1, <3>2 DEF Enabled, Enrolled, CodesOfOneBatch
    <3>. QED
      BY <3>1, <3>2
  <2>. QED
    BY <2>1 DEF CodesOfOneBatch
<1>11. SpentCodesGone' /\ EnabledSecretProven'
  <2>1. ASSUME NEW v \in User, v \notin raced'
        PROVE  /\ Enabled(v)' => /\ record'[v].codes \subseteq latest'[v] \ used
                                 /\ record'[v].secret \in proven[v]
               /\ reused \cap latest'[v] = {}
    <3>1. CASE v = u
      BY <1>1, <1>5, <1>6, <1>7, <1>9, <2>1, <3>1 DEF Enabled, TypeOK
    <3>2. CASE v # u
      BY <1>5, <1>6, <1>7, <2>1, <3>2 DEF Enabled, Enrolled, SpentCodesGone, EnabledSecretProven
    <3>. QED
      BY <3>1, <3>2
  <2>. QED
    BY <1>2, <2>1 DEF SpentCodesGone, EnabledSecretProven
<1>12. UsedStored' /\ LatestStored'
  BY <1>1, <1>2, <1>3, <1>7 DEF UsedStored, LatestStored
<1>13. BatchesApart'
  <2>1. \A v \in User : \A C \in batches[v] : B \cap C = {}
    BY DEF StoreBatch, FreshBatch
  <2>. QED
    BY <1>7, <2>1 DEF BatchesApart
<1>. QED
  BY <1>4, <1>8, <1>10, <1>11, <1>12, <1>13

LEMMA EnableStep ==
  ASSUME IInv, NEW r \in Request, Enable(r) \/ Renew(r)
  PROVE  IInv'
<1>. USE DEF IInv
<1>. DEFINE u == requests[r].user
<1>1. u \in User
  BY DEF Enable, Renew, FlowsSound, FlowSound
<1>2. Enrolled(u) => record[u] \in Record
  BY <1>1 DEF Enrolled, TypeOK
<1>3. CASE Enable(r)
  <2>1. PICK B \in SUBSET Code : StoreBatch(r, B, Activated(record[u], B))
    BY <1>3 DEF Enable
  <2>2. Enrolled(u) => /\ Activated(record[u], B) \in Record
                       /\ Activated(record[u], B).codes = B
                       /\ Activated(record[u], B).secret = record[u].secret
    BY <1>2 DEF Activated, Record
  <2>. QED
    BY <1>3, <2>1, <2>2, StoreStep DEF Enable
<1>4. CASE Renew(r)
  <2>1. PICK B \in SUBSET Code : StoreBatch(r, B, Renewed(record[u], B))
    BY <1>4 DEF Renew
  <2>2. Enrolled(u) => /\ Renewed(record[u], B) \in Record
                       /\ Renewed(record[u], B).codes = B
                       /\ Renewed(record[u], B).secret = record[u].secret
    BY <1>2 DEF Renewed, Record
  <2>. QED
    BY <1>4, <2>1, <2>2, StoreStep DEF Renew
<1>. QED
  BY <1>3, <1>4

LEMMA RedeemStep ==
  ASSUME IInv, NEW r \in Request, Redeem(r)
  PROVE  IInv'
<1>. USE DEF IInv
<1>. DEFINE q == requests[r]
            c == q.code
<1>0. PICK u \in User : u = q.user
  BY DEF Redeem, FlowsSound, FlowSound
<1>1. PICK D \in batches[u] : q.seen.codes \subseteq D
  BY <1>0 DEF Redeem, FlowsSound, FlowSound
<1>2. u \in User /\ q.seen \in Record /\ q.seen.enabled /\ c \in q.seen.codes
  BY DEF Redeem, FlowsSound, FlowSound
<1>. DEFINE left == Without(q.seen.codes, c)
<1>3. /\ record' = IF Enrolled(u) THEN [record EXCEPT ![u].codes = left] ELSE record
      /\ used' = used \cup {c}
      /\ reused' = IF c \in used THEN reused \cup {c} ELSE reused
      /\ UNCHANGED <<users, pending, drawn, batches, latest, proven>>
  BY <1>0 DEF Redeem
<1>4. requests' \in [Request -> Local] /\ FlowsSound'
  BY <1>3, Finished DEF Redeem
<1>5. /\ raced' \subseteq User /\ raced \subseteq raced'
      /\ u \notin raced' => record[u] = q.seen
  BY <1>0, ActMarks DEF Redeem
<1>6. c \in Code /\ left \subseteq Code /\ left = q.seen.codes \ {c}
  BY <1>2 DEF Without, Record
<1>. HIDE DEF left
<1>7. /\ record' \in [User -> Record \cup {NoRecord}]
      /\ Enrolled(u)' => Enrolled(u) /\ record'[u] = [record[u] EXCEPT !.codes = left]
      /\ \A v \in User : v # u => record'[v] = record[v]
  <2>1. Enrolled(u) => record[u] \in Record /\ [record[u] EXCEPT !.codes = left] \in Record
    BY <1>2, <1>6 DEF Enrolled, TypeOK, Record
  <2>2. record' = IF Enrolled(u) THEN [record EXCEPT ![u] = [record[u] EXCEPT !.codes = left]]
                  ELSE record
    BY <1>2, <1>3 DEF TypeOK
  <2>. QED
    BY <1>2, <2>1, <2>2 DEF TypeOK, Enrolled
<1>8. Enabled(u)' => /\ Enabled(u)
                     /\ record'[u].codes = left /\ record'[u].secret = record[u].secret
  <2>1. Enrolled(u) => record[u] \in Record
    BY <1>2 DEF Enrolled, TypeOK
  <2>. QED
    BY <1>7, <2>1 DEF Enabled, Record
<1>9. TypeOK'
  BY <1>3, <1>4, <1>5, <1>6, <1>7 DEF TypeOK
<1>10. CodesOfOneBatch'
  <2>1. ASSUME NEW v \in User, Enabled(v)'
        PROVE  \E C \in batches[v] : record'[v].codes \subseteq C
    <3>1. CASE v = u
      BY <1>1, <1>6, <1>8, <2>1, <3>1
    <3>2. CASE v # u
      BY <1>7, <2>1, <3>2 DEF Enabled, Enrolled, CodesOfOneBatch
    <3>. QED
      BY <3>1, <3>2
  <2>. QED
    BY <1>3, <2>1 DEF CodesOfOneBatch
\* The code is one of u's, and no other user was ever given it.
<1>11. c \in D /\ \A v \in User : v # u => c \notin latest[v]
  BY <1>1, <1>2 DEF BatchesApart, LatestStored
<1>12. SpentCodesGone' /\ EnabledSecretProven'
  <2>1. ASSUME NEW v \in User, v \notin raced'
        PROVE  /\ Enabled(v)' => /\ record'[v].codes \subseteq latest[v] \ (used \cup {c})
                                 /\ record'[v].secret \in proven[v]
               /\ reused' \cap latest[v] = {}
    <3>1. CASE v = u
      <4>1. record[u] = q.seen /\ Enabled(u)
        BY <1>2, <1>5, <2>1, <3>1 DEF Enabled, Enrolled
      <4>2. q.seen.codes \subseteq latest[u] \ used /\ q.seen.secret \in proven[u]
        BY <1>2, <1>5, <2>1, <3>1, <4>1 DEF SpentCodesGone, EnabledSecretProven
      <4>3. reused' = reused
        BY <1>2, <1>3, <4>2
      <4>. QED
        BY <1>2, <1>5, <1>6, <1>8, <2>1, <3>1, <4>1, <4>2, <4>3 DEF SpentCodesGone
    <3>2. CASE v # u
      BY <1>3, <1>5, <1>7, <1>11, <2>1, <3>2
         DEF Enabled, Enrolled, SpentCodesGone, EnabledSecretProven
    <3>. QED
      BY <3>1, <3>2
  <2>. QED
    BY <1>3, <2>1 DEF SpentCodesGone, EnabledSecretProven
<1>13. UsedStored'
  BY <1>1, <1>2, <1>3 DEF UsedStored
<1>14. LatestStored' /\ BatchesApart'
  BY <1>3 DEF LatestStored, BatchesApart
<1>. QED
  BY <1>4, <1>9, <1>10, <1>12, <1>13, <1>14

-----------------------------------------------------------------------------

LEMMA NextIInv == IInv /\ [Next]_vars => IInv'
<1>. SUFFICES ASSUME IInv, [Next]_vars PROVE IInv'
  OBVIOUS
<1>1. CASE Next
  <2>1. CASE \E r \in Request, u \in User :
                \/ Setup(r, u) \/ Activate(r, u) \/ Regenerate(r, u) \/ Disable(r, u)
                \/ \E c \in Code : Verify(r, u, c)
    BY <2>1, ReadSteps
  <2>2. CASE \E r \in Request : Enroll(r) \/ Enable(r) \/ Redeem(r) \/ Renew(r)
    BY <2>2, EnrollStep, EnableStep, RedeemStep
  <2>3. CASE \/ \E r \in Request : Remove(r) \/ Abort(r)
             \/ \E u \in User : Challenge(u) \/ PendingExpires(u) \/ DeleteUser(u)
    BY <2>3, PlainSteps
  <2>. QED
    BY <1>1, <2>1, <2>2, <2>3 DEF Next
<1>2. CASE UNCHANGED vars
  BY <1>2, PlainSteps
<1>. QED
  BY <1>1, <1>2

LEMMA SpecIInv == Spec => []IInv
  BY InitIInv, NextIInv, PTL DEF Spec

\* Every reachable state of TwoFactor is well typed.
THEOREM SpecTypeOK == Spec => []TypeOK
<1>1. IInv => TypeOK
  BY DEF IInv
<1>. QED
  BY <1>1, SpecIInv, PTL

\* Unless a flow acted on a copy out of date, codes that were accepted and
\* codes of earlier batches never come back (index.ts:345-354).
THEOREM SpecSpentCodesGone == Spec => []SpentCodesGone
<1>1. IInv => SpentCodesGone
  BY DEF IInv
<1>. QED
  BY <1>1, SpecIInv, PTL

\* Unless a flow acted on a copy out of date, two-factor is only enabled with
\* a secret its user has produced a code for (index.ts:303-308, 335-339).
THEOREM SpecEnabledSecretProven == Spec => []EnabledSecretProven
<1>1. IInv => EnabledSecretProven
  BY DEF IInv
<1>. QED
  BY <1>1, SpecIInv, PTL

=============================================================================
