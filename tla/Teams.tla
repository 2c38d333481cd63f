------------------------------- MODULE Teams -------------------------------
(***************************************************************************)
(* The teams that own the apps of the OAuth provider, and the personal     *)
(* team an app is put into when none is named                              *)
(* (packages/plugin-idp/src/index.ts, packages/idp-drizzle/src/pg).        *)
(*                                                                         *)
(* What a caller may do is read in one step, sometimes two, and done in a  *)
(* later one.  Whether rbac lets a user create apps is left open.          *)
(***************************************************************************)
EXTENDS FiniteSets, Naturals, Slots

CONSTANTS
    Person,         \* users who may be members of teams
    Team,           \* ids teams.create may draw
    App

Role == {"owner", "developer"}

ASSUME TeamAssumption == Nil \notin Team \cup Role

VARIABLES
    people,         \* users that exist
    teams,          \* teams that exist
    members,        \* rows of the team_member table
    apps,           \* the team of each app
    acting,         \* calls in progress
    \* History.
    contested,      \* teams of which one removal counted on the owner another removes
    demoted         \* teams that had no owner to spare when one was made a
                    \* developer or deleted, or when the first was not inserted

teamVars == <<people, teams, members, apps, acting, contested, demoted>>

Work ==
    [pc : {"idle", "add", "owners", "remove", "found", "ownerRow", "createApp"},
     caller : Person \cup {Nil}, team : Team \cup {Nil}, user : Person \cup {Nil},
     role : Role \cup {Nil}, app : App \cup {Nil}]

NoWork == [pc |-> "idle", caller |-> Nil, team |-> Nil, user |-> Nil, role |-> Nil, app |-> Nil]

Owners(t) == {u \in Person : members[t][u] = "owner"}

TeamTypeOK ==
    /\ people \subseteq Person /\ teams \subseteq Team
    /\ members \in [Team -> [Person -> Role \cup {Nil}]]
    /\ \A t \in Team, u \in Person : members[t][u] # Nil => t \in teams /\ u \in people
    /\ apps \in [App -> teams \cup {Nil}]
    /\ acting \in [Request -> Work]
    /\ contested \cup demoted \subseteq Team

TeamInit ==
    /\ people = Person /\ teams = {}
    /\ members = [t \in Team |-> [u \in Person |-> Nil]]
    /\ apps = [a \in App |-> Nil]
    /\ acting = [r \in Request |-> NoWork]
    /\ contested = {} /\ demoted = {}

-----------------------------------------------------------------------------

Do(r, w) == acting' = [acting EXCEPT ![r] = w]

TablesKept == UNCHANGED <<people, teams, members, apps>>

\* ensureTeamOwner.
Owns(t, u) == members[t][u] = "owner"

\* The owners t has without u and those about to be removed.
Spare(t, u) ==
    Owners(t) \ ({u} \cup {acting[s].user : s \in {r \in Request : acting[r].pc = "remove" /\ acting[r].team = t}})

\* ensureTeamMember.
BelongsTo(t, u) == members[t][u] # Nil

\* adapter.teams.create is two inserts: the team ...
CreateTeam(r, u) ==
    /\ \E t \in Team \ teams :
          /\ teams' = teams \cup {t}
          /\ Do(r, [acting[r] EXCEPT !.pc = "ownerRow", !.caller = u, !.team = t])
    /\ UNCHANGED <<people, members, apps, contested, demoted>>

\* teams.create.
Create(r, u) == acting[r] = NoWork /\ u \in people /\ CreateTeam(r, u)

\* ... and its owner, refused when that user has gone.
OwnerRow(r) ==
    LET w == acting[r] IN
    /\ w.pc = "ownerRow"
    /\ \/ /\ w.caller \in people /\ w.team \in teams
          /\ members' = [members EXCEPT ![w.team][w.caller] = "owner"]
          /\ Do(r, IF w.app = Nil THEN NoWork ELSE [w EXCEPT !.pc = "createApp"])
          /\ UNCHANGED demoted
       \/ /\ Do(r, NoWork)
          /\ demoted' = demoted \cup {w.team}
          /\ UNCHANGED members
    /\ UNCHANGED <<people, teams, apps, contested>>

\* addMember: the caller's role ...
AddMember(r, caller, t, u, role) ==
    /\ acting[r] = NoWork
    /\ Owns(t, caller)
    /\ Do(r, [NoWork EXCEPT !.pc = "add", !.caller = caller, !.team = t, !.user = u, !.role = role])
    /\ TablesKept /\ UNCHANGED <<contested, demoted>>

\* ... and the upsert, which also changes the role of who is a member already.
PutMember(r) ==
    LET w == acting[r] IN
    /\ w.pc = "add"
    /\ IF w.user \in people /\ w.team \in teams
       THEN /\ members' = [members EXCEPT ![w.team][w.user] = w.role]
            /\ demoted' = IF Owns(w.team, w.user) /\ w.role # "owner" /\ Spare(w.team, w.user) = {}
                          THEN demoted \cup {w.team} ELSE demoted
       ELSE UNCHANGED <<members, demoted>>
    /\ Do(r, NoWork)
    /\ UNCHANGED <<people, teams, apps, contested>>

\* removeMember: the caller's role ...
RemoveMember(r, caller, t, u) ==
    /\ acting[r] = NoWork
    /\ Owns(t, caller)
    /\ Do(r, [NoWork EXCEPT !.pc = "owners", !.caller = caller, !.team = t, !.user = u])
    /\ TablesKept /\ UNCHANGED <<contested, demoted>>

\* Mutant: it is looked for among the members.
IsLastOwnerMember(t, u) == {v \in Person : members[t][v] # Nil} = {u}

IsLastOwner(t, u) == Owners(t) = {u}

\* ... the owners that are left ...
CheckOwners(r) ==
    LET w == acting[r] IN
    /\ w.pc = "owners"
    /\ IF IsLastOwner(w.team, w.user)
       THEN Do(r, NoWork) /\ UNCHANGED contested
       ELSE /\ Do(r, [w EXCEPT !.pc = "remove"])
            /\ contested' =
                  IF \E s \in Request : acting[s].pc = "remove" /\ acting[s].team = w.team
                     /\ Spare(w.team, w.user) = {}
                  THEN contested \cup {w.team} ELSE contested
    /\ TablesKept /\ UNCHANGED demoted

\* ... and the deletion.
DropMember(r) ==
    LET w == acting[r] IN
    /\ w.pc = "remove"
    /\ members' = [members EXCEPT ![w.team][w.user] = Nil]
    /\ Do(r, NoWork)
    /\ UNCHANGED <<people, teams, apps, contested, demoted>>

-----------------------------------------------------------------------------
(* Apps.                                                                   *)

\* apps.create in a team of the caller, or in one that is to be found.
CreateApp(r, u, a) ==
    /\ acting[r] = NoWork /\ u \in people /\ apps[a] = Nil
    /\ \/ \E t \in teams :
             BelongsTo(t, u) /\ Do(r, [NoWork EXCEPT !.pc = "createApp", !.caller = u, !.team = t, !.app = a])
       \/ Do(r, [NoWork EXCEPT !.pc = "found", !.caller = u, !.app = a])
    /\ TablesKept /\ UNCHANGED <<contested, demoted>>

OwnTeams(u) == {t \in teams : Owns(t, u)}

\* ensurePersonalTeam: the list ...
FindTeam(r) ==
    LET w == acting[r] IN
    /\ w.pc = "found"
    /\ \/ /\ \E t \in OwnTeams(w.caller) : Do(r, [w EXCEPT !.pc = "createApp", !.team = t])
          /\ TablesKept /\ UNCHANGED <<contested, demoted>>
       \/ OwnTeams(w.caller) = {} /\ CreateTeam(r, w.caller)

\* adapter.apps.create; the foreign key wants the team.
InsertApp(r) ==
    LET w == acting[r] IN
    /\ w.pc = "createApp"
    /\ apps' = IF w.team \in teams /\ apps[w.app] = Nil THEN [apps EXCEPT ![w.app] = w.team] ELSE apps
    /\ Do(r, NoWork)
    /\ UNCHANGED <<people, teams, members, contested, demoted>>

\* Mutant: no foreign key to the users.
MembersWithoutNot(u) == members

MembersWithout(u) == [t \in Team |-> [members[t] EXCEPT ![u] = Nil]]

\* The row of a user goes; the userDelete hook of the plugin leaves the teams alone.
DeletePerson(u) ==
    /\ u \in people
    /\ people' = people \ {u}
    /\ members' = MembersWithout(u)
    /\ demoted' = demoted \cup {t \in OwnTeams(u) : Spare(t, u) = {}}
    /\ UNCHANGED <<teams, apps, acting, contested>>

TeamNext ==
    \/ \E r \in Request :
          \/ \E u \in Person :
                \/ Create(r, u)
                \/ \E a \in App : CreateApp(r, u, a)
                \/ \E t \in Team, v \in Person :
                      RemoveMember(r, u, t, v) \/ \E role \in Role : AddMember(r, u, t, v, role)
          \/ OwnerRow(r) \/ PutMember(r) \/ CheckOwners(r) \/ DropMember(r)
          \/ FindTeam(r) \/ InsertApp(r)
    \/ \E u \in Person : DeletePerson(u)

TeamSpec == TeamInit /\ [][TeamNext]_teamVars

-----------------------------------------------------------------------------
(* Properties.                                                             *)

\* "Prevent removing the last owner" (plugin-idp/src/index.ts:1182).  The check and
\* the deletion are two statements, so two removals at once can each remove the
\* other's last owner; making an owner a developer, deleting the user and a
\* creation that stops half-way are not checked at all.
TeamKeepsAnOwner ==
    \A t \in teams :
        \/ Owners(t) # {} \/ t \in contested \cup demoted
        \/ \E r \in Request : acting[r].pc = "ownerRow" /\ acting[r].team = t

=============================================================================
