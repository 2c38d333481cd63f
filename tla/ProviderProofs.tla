--------------------------- MODULE ProviderProofs ---------------------------
(***************************************************************************)
(* For every set of users, teams, apps, keys and calls: the owners of the  *)
(* teams and the active signing keys of the OAuth provider.                *)
(***************************************************************************)
EXTENDS Teams, SigningKeys, FiniteSetTheorems, TLAPS

-----------------------------------------------------------------------------
(* Teams.  A removal goes on with an answer that others make stale, so the *)
(* invariant counts only the owners that nobody is about to remove; and a  *)
(* team that waits for its first owner is known to nobody else.            *)

\* Those who are about to be removed from t.
Leaving(t) == {acting[s].user : s \in {r \in Request : acting[r].pc = "remove" /\ acting[r].team = t}}

\* A call goes on with teams, users and apps that there are.
Sound(w) ==
    /\ w.team \in teams \cup {Nil}
    /\ w.pc \in {"add", "owners", "remove", "ownerRow", "createApp"} => w.team \in teams
    /\ w.pc \in {"add", "owners", "remove"} => w.user \in Person
    /\ w.pc = "add" => w.role \in Role
    /\ w.pc \in {"found", "ownerRow"} => w.caller \in Person
    /\ w.pc \in {"found", "createApp"} => w.app \in App

CallsSound == \A r \in Request : Sound(acting[r])

\* Between its two inserts nobody else has found the team.
NewTeamsUnknown ==
    \A r \in Request : acting[r].pc = "ownerRow" =>
        /\ \A u \in Person : members[acting[r].team][u] = Nil
        /\ \A s \in Request : s # r => acting[s].team # acting[r].team

Waits(t) == \E r \in Request : acting[r].pc = "ownerRow" /\ acting[r].team = t

OwnersStay ==
    \A t \in teams : Owners(t) \ Leaving(t) # {} \/ t \in contested \cup demoted \/ Waits(t)

TeamInv == TeamTypeOK /\ CallsSound /\ NewTeamsUnknown /\ OwnersStay

USE TeamAssumption

LEMMA NoWorkTyped == NoWork \in Work /\ NoWork.pc = "idle" /\ NoWork.team = Nil
  BY DEF NoWork, Work

LEMMA TeamInitInv == TeamInit => TeamInv
<1>. SUFFICES ASSUME TeamInit PROVE TeamInv
  OBVIOUS
<1>1. TeamTypeOK
  BY NoWorkTyped DEF TeamInit, TeamTypeOK
<1>2. \A r \in Request : acting[r] = NoWork
  BY DEF TeamInit
<1>3. CallsSound /\ NewTeamsUnknown
  BY <1>2, NoWorkTyped DEF CallsSound, Sound, NewTeamsUnknown
<1>4. OwnersStay
  BY DEF TeamInit, OwnersStay
<1>. QED
  BY <1>1, <1>3, <1>4 DEF TeamInv

\* A call that changes no row of a member, and goes on in a team that has some.
LEMMA QuietCall ==
  ASSUME TeamInv, NEW r \in Request, NEW w \in Work, Do(r, w), Sound(w),
         UNCHANGED <<people, teams, members, contested, demoted>>,
         apps' \in [App -> teams \cup {Nil}],
         acting[r].pc # "ownerRow", w.pc \notin {"remove", "ownerRow"},
         w.team # Nil => w.team = acting[r].team \/ \E u \in Person : members[w.team][u] # Nil
  PROVE  TeamInv'
<1>. USE DEF TeamInv
<1>1. /\ acting'[r] = w
      /\ \A s \in Request : s # r => acting'[s] = acting[s]
      /\ acting' \in [Request -> Work]
  BY DEF Do, TeamTypeOK
<1>2. TeamTypeOK'
  BY <1>1 DEF TeamTypeOK
<1>3. CallsSound'
  BY <1>1 DEF CallsSound, Sound
<1>4. NewTeamsUnknown'
  <2>1. ASSUME NEW s \in Request, acting'[s].pc = "ownerRow"
        PROVE  /\ \A u \in Person : members'[acting'[s].team][u] = Nil
               /\ \A x \in Request : x # s => acting'[x].team # acting'[s].team
    <3>1. s # r /\ acting'[s] = acting[s] /\ acting[s].team \in teams
      BY <1>1, <2>1 DEF CallsSound, Sound
    <3>2. w.team # acting[s].team
      BY <1>1, <2>1, <3>1 DEF NewTeamsUnknown, TeamTypeOK
    <3>. QED
      BY <1>1, <2>1, <3>1, <3>2 DEF NewTeamsUnknown
  <2>. QED
    BY <2>1 DEF NewTeamsUnknown
<1>5. ASSUME NEW t \in teams
      PROVE  Leaving(t)' \subseteq Leaving(t) /\ (Waits(t) => Waits(t)')
  BY <1>1 DEF Leaving, Waits
<1>6. OwnersStay'
  BY <1>5 DEF OwnersStay, Owners
<1>. QED
  BY <1>2, <1>3, <1>4, <1>6

LEMMA AddMemberStep ==
  ASSUME TeamInv, NEW r \in Request, NEW caller \in Person, NEW t \in Team, NEW u \in Person,
         NEW role \in Role, AddMember(r, caller, t, u, role)
  PROVE  TeamInv'
<1>. DEFINE w == [NoWork EXCEPT !.pc = "add", !.caller = caller, !.team = t, !.user = u, !.role = role]
<1>1. /\ w \in Work /\ w.pc = "add" /\ w.team = t /\ w.user = u /\ w.role = role
  BY DEF NoWork, Work
<1>2. t \in teams /\ members[t][caller] # Nil
  BY DEF AddMember, Owns, TeamInv, TeamTypeOK, Role
<1>3. /\ Do(r, w) /\ UNCHANGED <<people, teams, members, apps, contested, demoted>>
      /\ acting[r].pc = "idle"
  BY NoWorkTyped DEF AddMember, TablesKept
<1>. HIDE DEF w
<1>4. Sound(w)
  BY <1>1, <1>2 DEF Sound
<1>. QED
  BY <1>1, <1>2, <1>3, <1>4, QuietCall DEF TeamInv, TeamTypeOK

LEMMA RemoveMemberStep ==
  ASSUME TeamInv, NEW r \in Request, NEW caller \in Person, NEW t \in Team, NEW u \in Person,
         RemoveMember(r, caller, t, u)
  PROVE  TeamInv'
<1>. DEFINE w == [NoWork EXCEPT !.pc = "owners", !.caller = caller, !.team = t, !.user = u]
<1>1. /\ w \in Work /\ w.pc = "owners" /\ w.team = t /\ w.user = u
  BY DEF NoWork, Work
<1>2. t \in teams /\ members[t][caller] # Nil
  BY DEF RemoveMember, Owns, TeamInv, TeamTypeOK, Role
<1>3. /\ Do(r, w) /\ UNCHANGED <<people, teams, members, apps, contested, demoted>>
      /\ acting[r].pc = "idle"
  BY NoWorkTyped DEF RemoveMember, TablesKept
<1>. HIDE DEF w
<1>4. Sound(w)
  BY <1>1, <1>2 DEF Sound
<1>. QED
  BY <1>1, <1>2, <1>3, <1>4, QuietCall DEF TeamInv, TeamTypeOK

LEMMA CreateAppStep ==
  ASSUME TeamInv, NEW r \in Request, NEW u \in Person, NEW a \in App, CreateApp(r, u, a)
  PROVE  TeamInv'
<1>1. PICK w \in Work :
         /\ Do(r, w) /\ w.caller = u /\ w.app = a
         /\ \/ w.pc = "createApp" /\ w.team \in teams /\ members[w.team][u] # Nil
            \/ w.pc = "found" /\ w.team = Nil
  <2>1. CASE Do(r, [NoWork EXCEPT !.pc = "found", !.caller = u, !.app = a])
    <3>1. [NoWork EXCEPT !.pc = "found", !.caller = u, !.app = a] \in Work
      BY DEF NoWork, Work
    <3>. QED
      BY <2>1, <3>1 DEF NoWork
  <2>2. ASSUME NEW t \in teams, BelongsTo(t, u),
               Do(r, [NoWork EXCEPT !.pc = "createApp", !.caller = u, !.team = t, !.app = a])
        PROVE  \E w \in Work :
                  /\ Do(r, w) /\ w.caller = u /\ w.app = a
                  /\ w.pc = "createApp" /\ w.team \in teams /\ members[w.team][u] # Nil
    <3>1. [NoWork EXCEPT !.pc = "createApp", !.caller = u, !.team = t, !.app = a] \in Work
      BY DEF NoWork, Work, TeamInv, TeamTypeOK
    <3>. QED
      BY <2>2, <3>1 DEF NoWork, BelongsTo
  <2>. QED
    BY <2>1, <2>2 DEF CreateApp
<1>2. /\ UNCHANGED <<people, teams, members, apps, contested, demoted>>
      /\ acting[r].pc = "idle"
  BY NoWorkTyped DEF CreateApp, TablesKept
<1>3. Sound(w)
  BY <1>1 DEF Sound
<1>. QED
  BY <1>1, <1>2, <1>3, QuietCall DEF TeamInv, TeamTypeOK

LEMMA InsertAppStep ==
  ASSUME TeamInv, NEW r \in Request, InsertApp(r)
  PROVE  TeamInv'
<1>1. apps' \in [App -> teams \cup {Nil}]
  BY DEF InsertApp, TeamInv, TeamTypeOK
<1>2. acting[r].pc = "createApp"
  BY DEF InsertApp
<1>3. Sound(NoWork)
  BY NoWorkTyped DEF Sound
<1>. QED
  BY <1>1, <1>2, <1>3, NoWorkTyped, QuietCall DEF InsertApp

LEMMA CheckOwnersStep ==
  ASSUME TeamInv, NEW r \in Request, CheckOwners(r)
  PROVE  TeamInv'
<1>. USE DEF TeamInv
<1>1. PICK t \in teams, u \in Person : acting[r].pc = "owners" /\ t = acting[r].team /\ u = acting[r].user
  BY DEF CheckOwners, CallsSound, Sound
<1>2. UNCHANGED <<people, teams, members, apps, demoted>>
  BY DEF CheckOwners, TablesKept
<1>3. CASE IsLastOwner(t, u)
  <2>1. Do(r, NoWork) /\ UNCHANGED contested
    BY <1>1, <1>3 DEF CheckOwners
  <2>2. Sound(NoWork)
    BY NoWorkTyped DEF Sound
  <2>. QED
    BY <1>1, <1>2, <2>1, <2>2, NoWorkTyped, QuietCall DEF TeamTypeOK
<1>4. CASE ~IsLastOwner(t, u)
  <2>1. PICK w \in Work : /\ Do(r, w) /\ w.pc = "remove" /\ w.team = t /\ w.user = u
                          /\ w.role = acting[r].role
    <3>1. [acting[r] EXCEPT !.pc = "remove"] \in Work
      BY DEF TeamTypeOK, Work
    <3>. QED
      BY <1>1, <1>4, <3>1 DEF CheckOwners, TeamTypeOK, Work
  <2>2. /\ acting'[r] = w
        /\ \A s \in Request : s # r => acting'[s] = acting[s]
        /\ acting' \in [Request -> Work]
    BY <2>1 DEF Do, TeamTypeOK
  <2>3. contested' = IF (\E s \in Request : acting[s].pc = "remove" /\ acting[s].team = t)
                        /\ Spare(t, u) = {}
                     THEN contested \cup {t} ELSE contested
    BY <1>1, <1>4 DEF CheckOwners
  <2>4. TeamTypeOK'
    BY <1>2, <2>2, <2>3 DEF TeamTypeOK
  <2>5. CallsSound'
    BY <1>2, <2>1, <2>2 DEF CallsSound, Sound
  <2>6. NewTeamsUnknown'
    BY <1>1, <1>2, <2>1, <2>2 DEF NewTeamsUnknown
  <2>7. ASSUME NEW x \in teams
        PROVE  (Owners(x) \ Leaving(x) # {} \/ x \in contested \cup demoted \/ Waits(x))'
    <3>1. Waits(x) => Waits(x)'
      BY <1>1, <2>2 DEF Waits
    <3>2. Owners(x)' = Owners(x)
      BY <1>2 DEF Owners
    <3>3. CASE x # t
      <4>1. Leaving(x)' = Leaving(x)
        BY <1>1, <2>1, <2>2, <3>3 DEF Leaving
      <4>. QED
        BY <1>2, <2>3, <3>1, <3>2, <4>1 DEF OwnersStay
    <3>4. CASE x = t
      <4>1. Leaving(t)' \subseteq {u} \cup Leaving(t)
        BY <2>1, <2>2 DEF Leaving
      <4>2. Spare(t, u) = Owners(t) \ ({u} \cup Leaving(t))
        BY DEF Spare, Leaving
      <4>3. CASE Spare(t, u) # {}
        BY <3>2, <3>4, <4>1, <4>2, <4>3
      <4>4. CASE \E s \in Request : acting[s].pc = "remove" /\ acting[s].team = t
        BY <1>2, <2>3, <3>4, <4>3, <4>4
      <4>5. CASE ~\E s \in Request : acting[s].pc = "remove" /\ acting[s].team = t
        <5>1. Leaving(t) = {}
          BY <4>5 DEF Leaving
        <5>2. Owners(t) # {} => Owners(t) \ {u} # {}
          BY <1>4 DEF IsLastOwner
        <5>. QED
          BY <1>2, <2>3, <3>1, <3>2, <3>4, <4>1, <5>1, <5>2 DEF OwnersStay
      <4>. QED
        BY <4>4, <4>5
    <3>. QED
      BY <3>3, <3>4
  <2>. QED
    BY <1>2, <2>4, <2>5, <2>6, <2>7 DEF OwnersStay
<1>. QED
  BY <1>3, <1>4

\* A change of the rows of members, in teams that have some, takes the last owner
\* that nobody removes from those only that are marked.
LEMMA MembersChange ==
  ASSUME TeamInv, UNCHANGED <<teams, contested>>, demoted \subseteq demoted',
         TeamTypeOK', CallsSound',
         \A r \in Request : acting'[r].pc \in {"remove", "ownerRow"} => acting'[r] = acting[r],
         \A r \in Request : acting[r].pc = "ownerRow" => acting'[r] = acting[r],
         \A r \in Request : acting'[r].team \in {acting[r].team, Nil},
         \A t \in teams : Waits(t) => members'[t] = members[t],
         \A t \in teams, u \in Person :
            u \in Owners(t) \ Leaving(t) =>
               \/ u \in Owners(t)' \/ t \in demoted'
               \/ \E v \in Owners(t) \ Leaving(t) : v \in Owners(t)'
  PROVE  TeamInv'
<1>. USE DEF TeamInv
<1>1. NewTeamsUnknown'
  <2>1. ASSUME NEW r \in Request, acting'[r].pc = "ownerRow"
        PROVE  /\ \A u \in Person : members'[acting'[r].team][u] = Nil
               /\ \A s \in Request : s # r => acting'[s].team # acting'[r].team
    <3>1. acting'[r] = acting[r] /\ acting[r].team \in teams /\ acting[r].team # Nil
      BY <2>1 DEF CallsSound, Sound, TeamTypeOK
    <3>. QED
      BY <2>1, <3>1 DEF NewTeamsUnknown, Waits
  <2>. QED
    BY <2>1 DEF NewTeamsUnknown
<1>2. ASSUME NEW t \in teams
      PROVE  Leaving(t)' \subseteq Leaving(t) /\ (Waits(t) => Waits(t)')
  BY DEF Leaving, Waits
<1>3. ASSUME NEW t \in teams, t \notin demoted', Owners(t) \ Leaving(t) # {}
      PROVE  (Owners(t) \ Leaving(t))' # {}
  <2>1. PICK u \in Person : u \in Owners(t) \ Leaving(t)
    BY <1>3 DEF Owners
  <2>. QED
    BY <1>2, <1>3, <2>1
<1>4. OwnersStay'
  BY <1>2, <1>3 DEF OwnersStay
<1>. QED
  BY <1>1, <1>4

LEMMA PutMemberStep ==
  ASSUME TeamInv, NEW r \in Request, PutMember(r)
  PROVE  TeamInv'
<1>. USE DEF TeamInv
<1>1. PICK t \in teams, u \in Person, role \in Role :
         /\ acting[r].pc = "add" /\ t = acting[r].team /\ u = acting[r].user /\ role = acting[r].role
  BY DEF PutMember, CallsSound, Sound
<1>2. /\ acting'[r] = NoWork
      /\ \A s \in Request : s # r => acting'[s] = acting[s]
      /\ acting' \in [Request -> Work]
  BY NoWorkTyped DEF PutMember, Do, TeamTypeOK
<1>3. UNCHANGED <<people, teams, apps, contested>>
  BY DEF PutMember
<1>4. CallsSound'
  BY <1>2, <1>3, NoWorkTyped DEF CallsSound, Sound
<1>5. CASE u \in people
  <2>1. /\ members' = [members EXCEPT ![t][u] = role]
        /\ demoted' = IF Owns(t, u) /\ role # "owner" /\ Spare(t, u) = {}
                      THEN demoted \cup {t} ELSE demoted
    BY <1>1, <1>5 DEF PutMember
  <2>2. /\ t \in Team /\ members' \in [Team -> [Person -> Role \cup {Nil}]]
        /\ members'[t][u] = role
        /\ \A x \in Team, v \in Person : <<x, v>> # <<t, u>> => members'[x][v] = members[x][v]
    BY <2>1 DEF TeamTypeOK
  <2>3. TeamTypeOK'
    BY <1>2, <1>3, <1>5, <2>1, <2>2 DEF TeamTypeOK
  <2>4. \A x \in teams : Waits(x) => x # t
    BY <1>1 DEF Waits, NewTeamsUnknown
  <2>5. \A x \in teams : Waits(x) => members'[x] = members[x]
    BY <2>1, <2>4 DEF TeamTypeOK
  <2>6. ASSUME NEW x \in teams, NEW v \in Owners(x) \ Leaving(x), v \notin Owners(x)', x \notin demoted'
        PROVE  \E y \in Owners(x) \ Leaving(x) : y \in Owners(x)'
    <3>1. x = t /\ v = u /\ role # "owner"
      BY <2>2, <2>6 DEF Owners, TeamTypeOK
    <3>2. Spare(t, u) # {}
      BY <2>1, <2>6, <3>1 DEF Owns, Owners
    <3>3. PICK y \in Spare(t, u) : TRUE
      BY <3>2
    <3>4. y \in Owners(t) \ Leaving(t) /\ y # u
      BY DEF Spare, Leaving
    <3>. QED
      BY <2>2, <3>1, <3>4 DEF Owners
  <2>. QED
    BY <1>1, <1>2, <1>3, <1>4, <2>1, <2>3, <2>5, <2>6, NoWorkTyped, MembersChange
<1>6. CASE u \notin people
  <2>1. UNCHANGED <<members, demoted>>
    BY <1>1, <1>6 DEF PutMember
  <2>2. TeamTypeOK'
    BY <1>2, <1>3, <2>1 DEF TeamTypeOK
  <2>. QED
    BY <1>1, <1>2, <1>3, <1>4, <2>1, <2>2, NoWorkTyped, MembersChange DEF Owners
<1>. QED
  BY <1>5, <1>6

LEMMA DropMemberStep ==
  ASSUME TeamInv, NEW r \in Request, DropMember(r)
  PROVE  TeamInv'
<1>. USE DEF TeamInv
<1>1. PICK t \in teams, u \in Person :
         acting[r].pc = "remove" /\ t = acting[r].team /\ u = acting[r].user
  BY DEF DropMember, CallsSound, Sound
<1>2. /\ acting'[r] = NoWork
      /\ \A s \in Request : s # r => acting'[s] = acting[s]
      /\ acting' \in [Request -> Work]
  BY NoWorkTyped DEF DropMember, Do, TeamTypeOK
<1>3. UNCHANGED <<people, teams, apps, contested, demoted>>
  BY DEF DropMember
<1>4. CallsSound'
  BY <1>2, <1>3, NoWorkTyped DEF CallsSound, Sound
<1>5. members' = [members EXCEPT ![t][u] = Nil]
  BY <1>1 DEF DropMember
<1>6. /\ t \in Team /\ members' \in [Team -> [Person -> Role \cup {Nil}]]
      /\ members'[t][u] = Nil
      /\ \A x \in Team, v \in Person : <<x, v>> # <<t, u>> => members'[x][v] = members[x][v]
  BY <1>5 DEF TeamTypeOK
<1>7. TeamTypeOK'
  BY <1>2, <1>3, <1>6 DEF TeamTypeOK
<1>8. \A x \in teams : Waits(x) => members'[x] = members[x]
  <2>1. \A x \in teams : Waits(x) => x # t
    BY <1>1 DEF Waits, NewTeamsUnknown
  <2>. QED
    BY <1>5, <2>1 DEF TeamTypeOK
<1>9. u \in Leaving(t)
  BY <1>1 DEF Leaving
<1>10. ASSUME NEW x \in teams, NEW v \in Owners(x) \ Leaving(x)
       PROVE  v \in Owners(x)'
  BY <1>6, <1>9, <1>10 DEF Owners, TeamTypeOK
<1>. QED
  BY <1>1, <1>2, <1>3, <1>4, <1>7, <1>8, <1>10, NoWorkTyped, MembersChange

LEMMA DeletePersonStep ==
  ASSUME TeamInv, NEW u \in Person, DeletePerson(u)
  PROVE  TeamInv'
<1>. USE DEF TeamInv
<1>1. /\ people' = people \ {u} /\ demoted' = demoted \cup {t \in OwnTeams(u) : Spare(t, u) = {}}
      /\ UNCHANGED <<teams, apps, acting, contested>>
  BY DEF DeletePerson
<1>2. /\ members' \in [Team -> [Person -> Role \cup {Nil}]]
      /\ \A t \in Team : members'[t][u] = Nil
      /\ \A t \in Team, v \in Person : v # u => members'[t][v] = members[t][v]
  BY DEF DeletePerson, MembersWithout, TeamTypeOK
<1>3. TeamTypeOK'
  BY <1>1, <1>2 DEF TeamTypeOK, OwnTeams
<1>4. CallsSound'
  BY <1>1 DEF CallsSound, Sound
<1>5. ASSUME NEW t \in teams, Waits(t)
      PROVE  members'[t] = members[t]
  <2>1. \A v \in Person : members[t][v] = Nil
    BY <1>5 DEF Waits, NewTeamsUnknown
  <2>2. t \in Team
    BY DEF TeamTypeOK
  <2>3. \A v \in Person : members'[t][v] = members[t][v]
    BY <1>2, <2>1, <2>2
  <2>. QED
    BY <1>2, <2>2, <2>3 DEF TeamTypeOK
<1>6. ASSUME NEW t \in teams, NEW v \in Owners(t) \ Leaving(t), v \notin Owners(t)', t \notin demoted'
      PROVE  \E y \in Owners(t) \ Leaving(t) : y \in Owners(t)'
  <2>1. v = u /\ t \in Team
    BY <1>2, <1>6 DEF Owners, TeamTypeOK
  <2>2. Spare(t, u) # {}
    BY <1>1, <1>6, <2>1 DEF OwnTeams, Owns, Owners
  <2>3. PICK y \in Spare(t, u) : TRUE
    BY <2>2
  <2>4. y \in Owners(t) \ Leaving(t) /\ y # u
    BY DEF Spare, Leaving
  <2>. QED
    BY <1>2, <2>1, <2>4 DEF Owners
<1>. QED
  BY <1>1, <1>3, <1>4, <1>5, <1>6, MembersChange DEF TeamTypeOK

LEMMA OwnerRowStep ==
  ASSUME TeamInv, NEW r \in Request, OwnerRow(r)
  PROVE  TeamInv'
<1>. USE DEF TeamInv
<1>1. PICK t \in teams, u \in Person :
         acting[r].pc = "ownerRow" /\ t = acting[r].team /\ u = acting[r].caller
  BY DEF OwnerRow, CallsSound, Sound
<1>2. /\ t \in Team /\ UNCHANGED <<people, teams, apps, contested>>
      /\ \A v \in Person : members[t][v] = Nil
      /\ \A s \in Request : s # r => acting[s].team # t
  BY <1>1 DEF OwnerRow, TeamTypeOK, NewTeamsUnknown
<1>3. PICK w \in Work :
         /\ Do(r, w) /\ w.pc \in {"idle", "createApp"} /\ w.team \in {t, Nil} /\ Sound(w)
         /\ \/ /\ u \in people /\ members' = [members EXCEPT ![t][u] = "owner"]
               /\ demoted' = demoted
            \/ demoted' = demoted \cup {t} /\ members' = members
  <2>1. /\ [acting[r] EXCEPT !.pc = "createApp"] \in Work
        /\ [acting[r] EXCEPT !.pc = "createApp"].pc = "createApp"
        /\ [acting[r] EXCEPT !.pc = "createApp"].team = t
        /\ [acting[r] EXCEPT !.pc = "createApp"].app = acting[r].app
    BY <1>1 DEF TeamTypeOK, Work
  <2>2. acting[r].app # Nil => Sound([acting[r] EXCEPT !.pc = "createApp"])
    BY <2>1 DEF Sound, TeamTypeOK, Work
  <2>3. Sound(NoWork)
    BY NoWorkTyped DEF Sound
  <2>. QED
    BY <1>1, <2>1, <2>2, <2>3, NoWorkTyped DEF OwnerRow
<1>4. /\ acting'[r] = w
      /\ \A s \in Request : s # r => acting'[s] = acting[s]
      /\ acting' \in [Request -> Work]
  BY <1>3 DEF Do, TeamTypeOK
<1>5. /\ members' \in [Team -> [Person -> Role \cup {Nil}]]
      /\ \A x \in Team : x # t => members'[x] = members[x]
      /\ \A x \in Team, v \in Person : members'[x][v] # Nil => members[x][v] # Nil \/ (x = t /\ v = u /\ u \in people)
  BY <1>2, <1>3 DEF TeamTypeOK, Role
<1>6. TeamTypeOK'
  BY <1>2, <1>3, <1>4, <1>5 DEF TeamTypeOK
<1>7. CallsSound'
  BY <1>2, <1>3, <1>4 DEF CallsSound, Sound
<1>8. NewTeamsUnknown'
  <2>1. ASSUME NEW s \in Request, acting'[s].pc = "ownerRow"
        PROVE  /\ \A v \in Person : members'[acting'[s].team][v] = Nil
               /\ \A x \in Request : x # s => acting'[x].team # acting'[s].team
    <3>1. s # r /\ acting'[s] = acting[s] /\ acting[s].team \in teams /\ acting[s].team # t
      BY <1>2, <1>3, <1>4, <2>1 DEF CallsSound, Sound
    <3>2. acting[s].team \in Team /\ acting[s].team # Nil
      BY <3>1 DEF TeamTypeOK
    <3>3. \A v \in Person : members'[acting[s].team][v] = Nil
      BY <1>5, <2>1, <3>1, <3>2 DEF NewTeamsUnknown
    <3>4. \A x \in Request : x # s => acting'[x].team # acting[s].team
      BY <1>3, <1>4, <2>1, <3>1, <3>2 DEF NewTeamsUnknown
    <3>. QED
      BY <3>1, <3>3, <3>4
  <2>. QED
    BY <2>1 DEF NewTeamsUnknown
<1>9. ASSUME NEW x \in teams
      PROVE  (Owners(x) \ Leaving(x) # {} \/ x \in contested \cup demoted \/ Waits(x))'
  <2>1. CASE x = t
    <3>1. Leaving(t)' = {}
      BY <1>2, <1>3, <1>4 DEF Leaving
    <3>2. CASE members' = [members EXCEPT ![t][u] = "owner"]
      <4>1. u \in Owners(t)'
        BY <1>2, <3>2 DEF Owners, TeamTypeOK
      <4>. QED
        BY <2>1, <3>1, <4>1
    <3>. QED
      BY <1>3, <2>1, <3>2
  <2>2. CASE x # t
    <3>1. x \in Team /\ members'[x] = members[x]
      BY <1>5, <2>2 DEF TeamTypeOK
    <3>2. Owners(x)' = Owners(x)
      BY <3>1 DEF Owners
    <3>3. Leaving(x)' = Leaving(x)
      BY <1>1, <1>3, <1>4 DEF Leaving
    <3>4. Waits(x) => Waits(x)'
      BY <1>1, <1>4, <2>2 DEF Waits
    <3>. QED
      BY <1>2, <1>3, <3>2, <3>3, <3>4 DEF OwnersStay
  <2>. QED
    BY <2>1, <2>2
<1>. QED
  BY <1>2, <1>6, <1>7, <1>8, <1>9 DEF OwnersStay

LEMMA CreateTeamStep ==
  ASSUME TeamInv, NEW r \in Request, NEW u \in Person,
         acting[r].pc \in {"idle", "found"}, CreateTeam(r, u)
  PROVE  TeamInv'
<1>. USE DEF TeamInv
<1>1. PICK t \in Team \ teams :
         /\ teams' = teams \cup {t}
         /\ Do(r, [acting[r] EXCEPT !.pc = "ownerRow", !.caller = u, !.team = t])
  BY DEF CreateTeam
<1>2. UNCHANGED <<people, members, apps, contested, demoted>>
  BY DEF CreateTeam
<1>3. /\ acting' \in [Request -> Work]
      /\ acting'[r].pc = "ownerRow" /\ acting'[r].caller = u /\ acting'[r].team = t
      /\ \A s \in Request : s # r => acting'[s] = acting[s]
  <2>1. PICK w \in Work : /\ w = [acting[r] EXCEPT !.pc = "ownerRow", !.caller = u, !.team = t]
                          /\ w.pc = "ownerRow" /\ w.caller = u /\ w.team = t
    <3>1. acting[r] \in Work /\ t \in Team
      BY DEF TeamTypeOK
    <3>2. [acting[r] EXCEPT !.pc = "ownerRow", !.caller = u, !.team = t] \in Work
      BY <3>1 DEF Work
    <3>. QED
      BY <3>1, <3>2 DEF Work
  <2>. QED
    BY <1>1, <2>1 DEF Do, TeamTypeOK
<1>4. \A s \in Request : s # r => acting'[s].team # t
  BY <1>3 DEF CallsSound, Sound
<1>5. TeamTypeOK'
  BY <1>1, <1>2, <1>3 DEF TeamTypeOK
<1>6. CallsSound'
  BY <1>1, <1>3 DEF CallsSound, Sound
<1>7. NewTeamsUnknown'
  <2>1. \A v \in Person : members'[t][v] = Nil
    BY <1>1, <1>2 DEF TeamTypeOK
  <2>. QED
    BY <1>2, <1>3, <1>4, <2>1 DEF NewTeamsUnknown
<1>8. ASSUME NEW x \in teams
      PROVE  (Owners(x) \ Leaving(x) # {} \/ x \in contested \cup demoted \/ Waits(x))'
  BY <1>2, <1>3, <1>4 DEF OwnersStay, Owners, Leaving, Waits
<1>9. Waits(t)'
  BY <1>3 DEF Waits
<1>. QED
  BY <1>1, <1>5, <1>6, <1>7, <1>8, <1>9 DEF OwnersStay

LEMMA FindTeamStep ==
  ASSUME TeamInv, NEW r \in Request, FindTeam(r)
  PROVE  TeamInv'
<1>1. acting[r].pc = "found" /\ acting[r].caller \in Person /\ acting[r].app \in App
  BY DEF FindTeam, TeamInv, CallsSound, Sound
<1>2. ASSUME NEW t \in OwnTeams(acting[r].caller),
             Do(r, [acting[r] EXCEPT !.pc = "createApp", !.team = t]),
             TablesKept, UNCHANGED <<contested, demoted>>
      PROVE  TeamInv'
  <2>1. PICK w \in Work : /\ Do(r, w) /\ w.pc = "createApp" /\ w.team = t /\ w.app = acting[r].app
    <3>1. acting[r] \in Work /\ t \in Team
      BY DEF OwnTeams, TeamInv, TeamTypeOK
    <3>2. [acting[r] EXCEPT !.pc = "createApp", !.team = t] \in Work
      BY <3>1 DEF Work
    <3>. QED
      BY <1>2, <3>1, <3>2 DEF Work
  <2>2. t \in teams /\ members[t][acting[r].caller] # Nil
    BY DEF OwnTeams, Owns, TeamInv, TeamTypeOK, Role
  <2>3. Sound(w)
    BY <1>1, <2>1, <2>2 DEF Sound
  <2>. QED
    BY <1>1, <1>2, <2>1, <2>2, <2>3, QuietCall DEF TablesKept, TeamInv, TeamTypeOK
<1>. QED
  BY <1>1, <1>2, CreateTeamStep DEF FindTeam

LEMMA TeamNextInv == TeamInv /\ [TeamNext]_teamVars => TeamInv'
<1>1. ASSUME TeamInv, UNCHANGED teamVars
      PROVE  TeamInv'
  BY <1>1 DEF teamVars, TeamInv, TeamTypeOK, CallsSound, Sound, NewTeamsUnknown, OwnersStay,
     Owners, Leaving, Waits
<1>2. ASSUME TeamInv, NEW r \in Request, NEW u \in Person, Create(r, u)
      PROVE  TeamInv'
  BY <1>2, NoWorkTyped, CreateTeamStep DEF Create
<1>. QED
  BY <1>1, <1>2, AddMemberStep, RemoveMemberStep, CreateAppStep, InsertAppStep, CheckOwnersStep,
     PutMemberStep, DropMemberStep, DeletePersonStep, OwnerRowStep, FindTeamStep DEF TeamNext

\* Every team has an owner, or the history names the step that took the last one
\* (plugin-idp/src/index.ts:1166-1188).
LEMMA TeamSpecKeepsOwners == TeamSpec => [](TeamTypeOK /\ TeamKeepsAnOwner)
<1>1. TeamInv => TeamTypeOK /\ TeamKeepsAnOwner
  BY DEF TeamInv, OwnersStay, Waits, TeamKeepsAnOwner
<1>. QED
  BY <1>1, TeamInitInv, TeamNextInv, PTL DEF TeamSpec

-----------------------------------------------------------------------------
(* Signing keys.  Calls that make keys, unless two were past their look at  *)
(* once, take turns: who is about to retire a key knows the only active    *)
(* one, and who is about to make one knows that there is none.             *)

TakeTurns == ~concurrent =>
    /\ \A c, d \in Making : c = d
    /\ \A c \in Caller : doing[c].pc = "create" => ActiveKeys = {}
    /\ \A c \in Caller : doing[c].pc = "retire" => ActiveKeys \subseteq {doing[c].key}
    /\ \A j, k \in ActiveKeys : j = k

KeyInv == KeyTypeOK /\ IsFiniteSet(Kids) /\ TakeTurns

LEMMA NoTaskTyped == NoTask \in Task /\ NoTask.pc = "idle"
  BY DEF NoTask, Task

LEMMA KeyInitInv == KeyInit => KeyInv
<1>. SUFFICES ASSUME KeyInit PROVE KeyInv
  OBVIOUS
<1>1. keys = <<>> /\ Kids = {} /\ ActiveKeys = {}
  BY DEF KeyInit, Kids, ActiveKeys
<1>2. Cardinality(Kids) = 0 /\ IsFiniteSet(Kids)
  BY <1>1, FS_EmptySet
<1>3. KeyTypeOK
  <2>1. keys \in Seq(KeyRow) /\ Len(keys) = 0
    BY <1>1
  <2>2. doing \in [Caller -> Task] /\ concurrent \in BOOLEAN
    BY NoTaskTyped DEF KeyInit
  <2>. QED
    BY <1>2, <2>1, <2>2 DEF KeyTypeOK
<1>4. TakeTurns
  BY <1>1, NoTaskTyped DEF KeyInit, TakeTurns, Making
<1>. QED
  BY <1>2, <1>3, <1>4 DEF KeyInv

LEMMA RowTyped ==
  ASSUME KeyInv
  PROVE  \A i \in DOMAIN keys : keys[i].kid \in Key /\ keys[i].active \in BOOLEAN
<1>1. \A i \in DOMAIN keys : keys[i] \in KeyRow
  BY DEF KeyInv, KeyTypeOK
<1>. QED
  BY <1>1 DEF KeyRow

LEMMA KeysKept ==
  ASSUME KeyInv, NEW c \in Caller, NEW d \in Task, Go(c, d), UNCHANGED keys, concurrent' \in BOOLEAN,
         ~concurrent' => ~concurrent,
         ~concurrent' /\ d.pc \in {"retire", "create"} => Making \subseteq {c},
         ~concurrent' /\ d.pc = "create" => ActiveKeys = {},
         ~concurrent' /\ d.pc = "retire" => ActiveKeys \subseteq {d.key}
  PROVE  KeyInv'
<1>. USE DEF KeyInv
<1>1. /\ doing'[c] = d /\ doing' \in [Caller -> Task]
      /\ \A e \in Caller : e # c => doing'[e] = doing[e]
  BY DEF Go, KeyTypeOK
<1>2. Kids' = Kids /\ ActiveKeys' = ActiveKeys
  BY DEF Kids, ActiveKeys
<1>3. KeyTypeOK'
  BY <1>1, <1>2 DEF KeyTypeOK
<1>4. Making' \subseteq IF d.pc \in {"retire", "create"} THEN Making \cup {c} ELSE Making \ {c}
  BY <1>1 DEF Making
<1>5. TakeTurns'
  <2>1. ASSUME ~concurrent' PROVE \A e, f \in Making' : e = f
    BY <1>4, <2>1 DEF TakeTurns
  <2>. QED
    BY <1>1, <1>2, <2>1 DEF TakeTurns
<1>. QED
  BY <1>2, <1>3, <1>5

LEMMA StartTaskStep ==
  ASSUME KeyInv, NEW c \in Caller, NEW task \in {"rotate", "ensure"}, StartTask(c, task)
  PROVE  KeyInv'
<1>1. PICK d \in Task : Go(c, d) /\ d.pc = "read"
  <2>1. [NoTask EXCEPT !.pc = "read", !.task = task] \in Task
    BY DEF NoTask, Task
  <2>. QED
    BY <2>1 DEF StartTask, NoTask
<1>2. UNCHANGED <<keys, concurrent>>
  BY DEF StartTask
<1>. QED
  BY <1>1, <1>2, KeysKept DEF KeyInv, KeyTypeOK

LEMMA ReadActiveStep ==
  ASSUME KeyInv, NEW c \in Caller, ReadActive(c)
  PROVE  KeyInv'
<1>. USE DEF KeyInv
<1>1. UNCHANGED keys /\ doing[c].pc = "read" /\ doing[c] \in Task
  BY DEF ReadActive, KeyTypeOK
<1>2. /\ concurrent' \in BOOLEAN /\ (~concurrent' => ~concurrent)
      /\ ~concurrent' /\ doing'[c].pc # "sign" => Making = {}
  BY DEF ReadActive, KeyTypeOK
<1>3. CASE ActiveKeys = {} /\ Go(c, [doing[c] EXCEPT !.pc = "create"])
  <2>1. PICK d \in Task : Go(c, d) /\ d.pc = "create"
    <3>1. [doing[c] EXCEPT !.pc = "create"] \in Task
      BY <1>1 DEF Task
    <3>. QED
      BY <1>1, <1>3, <3>1 DEF Task
  <2>2. doing'[c].pc = "create"
    BY <1>1, <2>1 DEF Go, KeyTypeOK
  <2>3. ~concurrent' => Making \subseteq {c}
    BY <1>2, <2>2
  <2>. QED
    BY <1>1, <1>2, <1>3, <2>1, <2>3, KeysKept
<1>4. ASSUME NEW k \in ActiveKeys, NEW pc \in {"retire", "sign"},
             Go(c, [doing[c] EXCEPT !.key = k, !.pc = pc])
      PROVE  KeyInv'
  <2>1. k \in Key
    BY RowTyped DEF ActiveKeys
  <2>2. PICK d \in Task : Go(c, d) /\ d.pc = pc /\ d.key = k
    <3>1. [doing[c] EXCEPT !.key = k, !.pc = pc] \in Task
      BY <1>1, <2>1 DEF Task
    <3>. QED
      BY <1>1, <1>4, <3>1 DEF Task
  <2>3. ~concurrent => ActiveKeys \subseteq {k}
    BY DEF TakeTurns
  <2>4. doing'[c].pc = pc
    BY <1>1, <2>2 DEF Go, KeyTypeOK
  <2>5. ~concurrent' /\ d.pc \in {"retire", "create"} => Making \subseteq {c}
    BY <1>2, <2>2, <2>4
  <2>6. ~concurrent' /\ d.pc = "retire" => ActiveKeys \subseteq {d.key}
    BY <1>2, <2>2, <2>3
  <2>. QED
    BY <1>1, <1>2, <2>2, <2>5, <2>6, KeysKept
<1>. QED
  BY <1>3, <1>4 DEF ReadActive

LEMMA RetireStep ==
  ASSUME KeyInv, NEW c \in Caller, Retire(c)
  PROVE  KeyInv'
<1>. USE DEF KeyInv
<1>1. /\ concurrent' = concurrent /\ doing[c].pc = "retire" /\ doing[c] \in Task
      /\ keys' = Retired(doing[c].key)
  BY DEF Retire, KeyTypeOK
<1>2. PICK d \in Task : Go(c, d) /\ d.pc = "create"
  <2>1. [doing[c] EXCEPT !.pc = "create"] \in Task
    BY <1>1 DEF Task
  <2>. QED
    BY <1>1, <2>1 DEF Retire, Task
<1>3. /\ doing'[c] = d /\ doing' \in [Caller -> Task]
      /\ \A e \in Caller : e # c => doing'[e] = doing[e]
  BY <1>2 DEF Go, KeyTypeOK
<1>4. /\ keys' \in Seq(KeyRow) /\ DOMAIN keys' = DOMAIN keys
      /\ Len(keys') = Len(keys)
      /\ \A i \in DOMAIN keys :
            /\ keys'[i].kid = keys[i].kid
            /\ keys'[i].active <=> keys[i].active /\ keys[i].kid # doing[c].key
  <2>1. DOMAIN keys = 1..Len(keys) /\ Len(keys) \in Nat
    BY DEF KeyTypeOK
  <2>2. ASSUME NEW i \in DOMAIN keys
        PROVE  /\ keys'[i] \in KeyRow
               /\ keys'[i].kid = keys[i].kid
               /\ keys'[i].active <=> keys[i].active /\ keys[i].kid # doing[c].key
    <3>1. keys[i] \in KeyRow
      BY DEF KeyTypeOK
    <3>2. CASE keys[i].kid = doing[c].key
      <4>1. keys'[i] = [keys[i] EXCEPT !.active = FALSE]
        BY <1>1, <3>2 DEF Retired
      <4>. QED
        BY <3>1, <3>2, <4>1 DEF KeyRow
    <3>3. CASE keys[i].kid # doing[c].key
      <4>1. keys'[i] = keys[i]
        BY <1>1, <3>3 DEF Retired
      <4>. QED
        BY <3>1, <3>3, <4>1 DEF KeyRow
    <3>. QED
      BY <3>2, <3>3
  <2>3. DOMAIN keys' = DOMAIN keys
    BY <1>1 DEF Retired
  <2>4. keys' = [i \in 1..Len(keys) |-> keys'[i]]
    BY <1>1, <2>1 DEF Retired
  <2>5. keys' \in Seq(KeyRow) /\ Len(keys') = Len(keys)
    BY <2>1, <2>2, <2>3, <2>4
  <2>. QED
    BY <2>2, <2>3, <2>5
<1>5. Kids' = Kids
  BY <1>4 DEF Kids
<1>6. ActiveKeys' = ActiveKeys \ {doing[c].key}
  BY <1>4 DEF ActiveKeys
<1>7. KeyTypeOK'
  BY <1>1, <1>3, <1>4, <1>5 DEF KeyTypeOK
<1>8. TakeTurns'
  BY <1>1, <1>2, <1>3, <1>6 DEF TakeTurns, Making
<1>. QED
  BY <1>5, <1>7, <1>8

LEMMA CreateKeyStep ==
  ASSUME KeyInv, NEW c \in Caller, CreateKey(c)
  PROVE  KeyInv'
<1>. USE DEF KeyInv
<1>1. concurrent' = concurrent /\ doing[c].pc = "create" /\ doing[c] \in Task
  BY DEF CreateKey, KeyTypeOK
<1>2. PICK k \in Key \ Kids, d \in Task :
         keys' = Append(keys, [kid |-> k, active |-> TRUE]) /\ Go(c, d) /\ d.pc \in {"idle", "sign"}
  <2>1. ASSUME NEW k \in Key
        PROVE  /\ [doing[c] EXCEPT !.pc = "sign", !.key = k] \in Task
               /\ [doing[c] EXCEPT !.pc = "sign", !.key = k].pc = "sign"
    BY <1>1 DEF Task
  <2>. QED
    BY <2>1, NoTaskTyped DEF CreateKey
<1>3. /\ doing'[c] = d /\ doing' \in [Caller -> Task]
      /\ \A e \in Caller : e # c => doing'[e] = doing[e]
  BY <1>2 DEF Go, KeyTypeOK
<1>4. /\ keys' \in Seq(KeyRow)
      /\ Len(keys') = Len(keys) + 1 /\ Len(keys) \in Nat
      /\ DOMAIN keys' = DOMAIN keys \cup {Len(keys) + 1}
      /\ \A i \in DOMAIN keys : keys'[i] = keys[i]
      /\ keys'[Len(keys) + 1] = [kid |-> k, active |-> TRUE]
  <2>1. [kid |-> k, active |-> TRUE] \in KeyRow
    BY DEF KeyRow
  <2>. QED
    BY <1>2, <2>1 DEF KeyTypeOK
<1>5. Kids' = Kids \cup {k}
  BY <1>4 DEF Kids
<1>6. ActiveKeys' = ActiveKeys \cup {k}
  BY <1>4 DEF ActiveKeys
<1>7. IsFiniteSet(Kids') /\ Cardinality(Kids') = Len(keys')
  BY <1>2, <1>4, <1>5, FS_AddElement DEF KeyTypeOK
<1>8. KeyTypeOK'
  BY <1>1, <1>3, <1>4, <1>7 DEF KeyTypeOK
<1>9. TakeTurns'
  BY <1>1, <1>2, <1>3, <1>6 DEF TakeTurns, Making
<1>. QED
  BY <1>7, <1>8, <1>9

LEMMA KeyNextInv == KeyInv /\ [KeyNext]_keyVars => KeyInv'
<1>1. ASSUME KeyInv, UNCHANGED keyVars
      PROVE  KeyInv'
  <2>1. UNCHANGED <<keys, doing, concurrent>>
    BY <1>1 DEF keyVars
  <2>2. Kids' = Kids /\ ActiveKeys' = ActiveKeys /\ Making' = Making
    BY <2>1 DEF Kids, ActiveKeys, Making
  <2>. QED
    BY <1>1, <2>1, <2>2 DEF KeyInv, KeyTypeOK, TakeTurns
<1>2. ASSUME KeyInv, NEW c \in Caller, SignToken(c) \/ Stop(c)
      PROVE  KeyInv'
  <2>1. Go(c, NoTask) /\ UNCHANGED <<keys, concurrent>>
    BY <1>2 DEF SignToken, Stop
  <2>. QED
    BY <1>2, <2>1, NoTaskTyped, KeysKept DEF Making, KeyInv, KeyTypeOK
<1>. QED
  BY <1>1, <1>2, StartTaskStep, ReadActiveStep, RetireStep, CreateKeyStep DEF KeyNext

\* As long as the calls that make keys did not overlap, there is at most one
\* active key (keys.ts:38-55).
LEMMA KeySpecOneActive == KeySpec => [](KeyTypeOK /\ OneActiveKey)
<1>1. ASSUME KeyInv, ~concurrent
      PROVE  ~(Cardinality(ActiveKeys) > 1)
  <2>1. CASE ActiveKeys = {}
    BY <2>1, FS_EmptySet
  <2>2. ASSUME NEW k \in ActiveKeys
        PROVE  ~(Cardinality(ActiveKeys) > 1)
    <3>1. ActiveKeys = {k}
      BY <1>1 DEF KeyInv, TakeTurns
    <3>. QED
      BY <3>1, FS_Singleton
  <2>. QED
    BY <2>1, <2>2
<1>2. KeyInv => KeyTypeOK /\ OneActiveKey
  BY <1>1 DEF KeyInv, OneActiveKey
<1>. QED
  BY <1>2, KeyInitInv, KeyNextInv, PTL DEF KeySpec

=============================================================================
