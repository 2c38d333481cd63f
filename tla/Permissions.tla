---------------------------- MODULE Permissions ----------------------------
(***************************************************************************)
(* @holeauth/plugin-rbac fed by @holeauth/rbac-yaml: group definitions     *)
(* read from a file that is watched, the groups and nodes of a user in two *)
(* tables (rbac-drizzle), and the in-process cache of effective nodes      *)
(* (packages/plugin-rbac/src/index.ts, packages/rbac-yaml/src/index.ts).   *)
(*                                                                         *)
(* One process.  Each await is a step, so a look-up that missed the cache  *)
(* fills it four steps later.  Nodes are opaque here, and the order of a   *)
(* user's groups is left out: can() looks for a negation among all nodes.  *)
(***************************************************************************)
EXTENDS FiniteSets, Naturals, Slots

CONSTANTS
    Subject,        \* users whose permissions are asked for
    Group,
    Node,
    Files,          \* contents the YAML file may have
    NoEntry         \* no entry in the cache

\* What buildSnapshot makes of a file: the groups, those marked default, and
\* the nodes of each with what it inherits.
File == [groups : SUBSET Group, defaults : SUBSET Group, effective : [Group -> SUBSET Node]]

ASSUME FilesAssumption == Files \subseteq File /\ \A f \in Files : IsFiniteSet(f.defaults)

VARIABLES
    file,           \* the file on disk
    snapshot,       \* yaml.snapshot
    index,          \* the group index of the plugin
    users,          \* rows of the users table
    userGroups,     \* holeauth_rbac_user_group
    userPermissions,
    cache,
    calls,          \* calls in progress
    raced           \* history: users a look-up of whom was under way when
                    \* their entry, or all entries, were last dropped

permVars == <<file, snapshot, index, users, userGroups, userPermissions, cache, calls, raced>>

Filling == {"groups", "merge", "direct", "fill"}

\* nodes: what a look-up has gathered.  For a look-up it starts with the groups.
PermCall ==
    [pc : {"idle", "assign", "remove", "grant", "revoke", "invalidate", "purgeNodes", "purgeGroups",
           "dropRow"} \cup Filling,
     user : Subject \cup {Nil}, groups : SUBSET Group, nodes : SUBSET Node]

Idle == [pc |-> "idle", user |-> Nil, groups |-> {}, nodes |-> {}]

\* buildGroupIndex throws unless one group is the default; buildSnapshot only
\* if there is none ("warn", the default of multipleDefaults).
OneDefault(f) == Cardinality(f.defaults) = 1
SomeDefault(f) == f.defaults # {}

PermTypeOK ==
    /\ file \in Files /\ snapshot \in Files /\ index \in Files
    /\ SomeDefault(snapshot) /\ OneDefault(index)
    /\ users \subseteq Subject
    /\ userGroups \in [Subject -> SUBSET Group]
    /\ userPermissions \in [Subject -> SUBSET Node]
    /\ \A u \in Subject : userGroups[u] # {} \/ userPermissions[u] # {} => u \in users
    /\ cache \in [Subject -> (SUBSET Node) \cup {NoEntry}]
    /\ calls \in [Request -> PermCall]
    /\ raced \subseteq Subject

PermInit ==
    /\ file \in Files /\ OneDefault(file)
    /\ snapshot = file /\ index = file
    /\ users = Subject
    /\ userGroups = [u \in Subject |-> {}]
    /\ userPermissions = [u \in Subject |-> {}]
    /\ cache = [u \in Subject |-> NoEntry]
    /\ calls = [r \in Request |-> Idle]
    /\ raced = {}

-----------------------------------------------------------------------------

Goto(r, q) == calls' = [calls EXCEPT ![r] = q]

\* The groups of a user, with the default; orphans are skipped.
NodesOf(groups) == UNION {index.effective[g] : g \in (groups \cup index.defaults) \cap index.groups}

Effective(u) == NodesOf(userGroups[u]) \cup userPermissions[u]

UnderWay(u) == \E r \in Request : calls[r].user = u /\ calls[r].pc \in Filling

\* Mutant: the write is not followed by an invalidation.
InvalidatedNot(u) == cache

Invalidated(u) == [cache EXCEPT ![u] = NoEntry]

Invalidate(u) ==
    /\ cache' = Invalidated(u)
    /\ raced' = IF UnderWay(u) THEN raced \cup {u} ELSE raced \ {u}

-----------------------------------------------------------------------------
(* computeEffective.                                                       *)

\* cache.get: a hit answers at once.
Ask(r, u) ==
    /\ calls[r] = Idle
    /\ cache[u] = NoEntry /\ Goto(r, [Idle EXCEPT !.pc = "groups", !.user = u])
    /\ UNCHANGED <<file, snapshot, index, users, userGroups, userPermissions, cache, raced>>

ListUserGroups(r) ==
    /\ calls[r].pc = "groups"
    /\ Goto(r, [calls[r] EXCEPT !.pc = "merge", !.groups = userGroups[calls[r].user]])
    /\ UNCHANGED <<file, snapshot, index, users, userGroups, userPermissions, cache, raced>>

\* The index is read when the groups are there.
MergeGroups(r) ==
    /\ calls[r].pc = "merge"
    /\ Goto(r, [calls[r] EXCEPT !.pc = "direct", !.nodes = NodesOf(calls[r].groups), !.groups = {}])
    /\ UNCHANGED <<file, snapshot, index, users, userGroups, userPermissions, cache, raced>>

ListUserPermissions(r) ==
    /\ calls[r].pc = "direct"
    /\ Goto(r, [calls[r] EXCEPT !.pc = "fill", !.nodes = @ \cup userPermissions[calls[r].user]])
    /\ UNCHANGED <<file, snapshot, index, users, userGroups, userPermissions, cache, raced>>

CacheSet(r) ==
    /\ calls[r].pc = "fill"
    /\ cache' = [cache EXCEPT ![calls[r].user] = calls[r].nodes]
    /\ Goto(r, Idle)
    /\ UNCHANGED <<file, snapshot, index, users, userGroups, userPermissions, raced>>

\* The time to live is over.
Evict(u) ==
    /\ cache[u] # NoEntry
    /\ cache' = [cache EXCEPT ![u] = NoEntry]
    /\ raced' = IF UnderWay(u) THEN raced ELSE raced \ {u}
    /\ UNCHANGED <<file, snapshot, index, users, userGroups, userPermissions, calls>>

-----------------------------------------------------------------------------
(* Changing what a user may do: a check, the write, the invalidation.      *)

Begin(r, op, u, groups, nodes) ==
    /\ calls[r] = Idle
    /\ Goto(r, [pc |-> op, user |-> u, groups |-> groups, nodes |-> nodes])
    /\ UNCHANGED <<file, snapshot, index, users, userGroups, userPermissions, cache, raced>>

AssignGroup(r, u, g) == g \in index.groups /\ Begin(r, "assign", u, {g}, {})

RemoveGroup(r, u, g) == g \in index.groups /\ Begin(r, "remove", u, {g}, {})

\* isKnownPermission: some group has it.
Grant(r, u, n) ==
    /\ n \in UNION {index.effective[g] : g \in index.groups}
    /\ Begin(r, "grant", u, {}, {n})

Revoke(r, u, n) == Begin(r, "revoke", u, {}, {n})

\* The foreign keys refuse a row for a user who has gone.
Write(r) ==
    LET q == calls[r]
        u == q.user
    IN
    /\ \/ /\ q.pc = "assign" /\ u \in users
          /\ userGroups' = [userGroups EXCEPT ![u] = @ \cup q.groups]
          /\ UNCHANGED userPermissions
       \/ /\ q.pc = "remove"
          /\ userGroups' = [userGroups EXCEPT ![u] = @ \ q.groups]
          /\ UNCHANGED userPermissions
       \/ /\ q.pc = "grant" /\ u \in users
          /\ userPermissions' = [userPermissions EXCEPT ![u] = @ \cup q.nodes]
          /\ UNCHANGED userGroups
       \/ /\ q.pc = "revoke"
          /\ userPermissions' = [userPermissions EXCEPT ![u] = @ \ q.nodes]
          /\ UNCHANGED userGroups
    /\ Goto(r, [Idle EXCEPT !.pc = "invalidate", !.user = u])
    /\ UNCHANGED <<file, snapshot, index, users, cache, raced>>

DropEntry(r) ==
    /\ calls[r].pc = "invalidate"
    /\ Invalidate(calls[r].user)
    /\ Goto(r, Idle)
    /\ UNCHANGED <<file, snapshot, index, users, userGroups, userPermissions>>

\* The register hook gives a new user the default group, and drops no entry.
RegisterHook(u) ==
    /\ u \in users
    /\ userGroups' = [userGroups EXCEPT ![u] = @ \cup index.defaults]
    /\ UNCHANGED <<file, snapshot, index, users, userPermissions, cache, calls, raced>>

\* The adapter throws: before the write nothing has happened.
AdapterFails(r) ==
    /\ calls[r].pc \in Filling \cup {"assign", "remove", "grant", "revoke"}
    /\ Goto(r, Idle)
    /\ UNCHANGED <<file, snapshot, index, users, userGroups, userPermissions, cache, raced>>

-----------------------------------------------------------------------------
(* The userDelete hook: the entry goes first, then the rows.               *)

DeleteUser(r, u) ==
    /\ calls[r] = Idle /\ u \in users
    /\ Invalidate(u)
    /\ Goto(r, [Idle EXCEPT !.pc = "purgeNodes", !.user = u])
    /\ UNCHANGED <<file, snapshot, index, users, userGroups, userPermissions>>

\* An entry that is there, or on its way, when rows are purged is not dropped
\* any more.
LeftBehind(u) == IF UnderWay(u) \/ cache[u] # NoEntry THEN raced \cup {u} ELSE raced

\* purgeUser is two statements, whose failure is logged; the row of the user
\* takes with it what they left.
PurgeStep(r) ==
    LET q == calls[r]
        u == q.user
    IN
    /\ \/ /\ q.pc = "purgeNodes"
          /\ userPermissions' = [userPermissions EXCEPT ![u] = {}]
          /\ Goto(r, [q EXCEPT !.pc = "purgeGroups"])
          /\ UNCHANGED <<users, userGroups>>
       \/ /\ q.pc = "purgeGroups"
          /\ userGroups' = [userGroups EXCEPT ![u] = {}]
          /\ Goto(r, [q EXCEPT !.pc = "dropRow"])
          /\ UNCHANGED <<users, userPermissions>>
       \/ /\ q.pc \in {"purgeNodes", "purgeGroups"}
          /\ Goto(r, [q EXCEPT !.pc = "dropRow"])
          /\ UNCHANGED <<users, userGroups, userPermissions>>
       \/ /\ q.pc = "dropRow"
          /\ users' = users \ {u}
          /\ userGroups' = [userGroups EXCEPT ![u] = {}]
          /\ userPermissions' = [userPermissions EXCEPT ![u] = {}]
          /\ Goto(r, Idle)
    /\ raced' = LeftBehind(u)
    /\ UNCHANGED <<file, snapshot, index, cache>>

-----------------------------------------------------------------------------
(* The group definitions.                                                  *)

EditFile(f) ==
    /\ file' = f /\ f # file
    /\ UNCHANGED <<snapshot, index, users, userGroups, userPermissions, cache, calls, raced>>

EmptyCache == [u \in Subject |-> NoEntry]

\* plugin.reload throws, and the loader only warns, for several defaults.
Accepted(f) == OneDefault(f)

\* yaml.reload, called by the watcher or by the application.
Reload ==
    /\ SomeDefault(file)
    /\ snapshot' = file
    /\ IF Accepted(file)
       THEN /\ index' = file
            /\ cache' = EmptyCache
            /\ raced' = {u \in Subject : UnderWay(u)}
       ELSE UNCHANGED <<index, cache, raced>>
    /\ UNCHANGED <<file, users, userGroups, userPermissions, calls>>

\* The process ends with what it holds; the next starts from the file, if the
\* plugin accepts it.
Restart ==
    /\ OneDefault(file)
    /\ snapshot' = file /\ index' = file
    /\ cache' = [u \in Subject |-> NoEntry]
    /\ calls' = [r \in Request |-> Idle]
    /\ raced' = {}
    /\ UNCHANGED <<file, users, userGroups, userPermissions>>

PermNext ==
    \/ \E r \in Request :
          \/ \E u \in Subject :
                \/ Ask(r, u) \/ DeleteUser(r, u)
                \/ \E g \in Group : AssignGroup(r, u, g) \/ RemoveGroup(r, u, g)
                \/ \E n \in Node : Grant(r, u, n) \/ Revoke(r, u, n)
          \/ ListUserGroups(r) \/ MergeGroups(r) \/ ListUserPermissions(r) \/ CacheSet(r)
          \/ Write(r) \/ DropEntry(r) \/ AdapterFails(r) \/ PurgeStep(r)
    \/ \E u \in Subject : Evict(u) \/ RegisterHook(u)
    \/ \E f \in Files : EditFile(f)
    \/ Reload \/ Restart

PermSpec == PermInit /\ [][PermNext]_permVars

-----------------------------------------------------------------------------
(* Properties.                                                             *)

\* What the cache answers is what the tables and the groups say, or a change is
\* about to drop the entry; an entry survives a change only if its look-up was
\* under way when the change dropped the entries of the user
\* (plugin-rbac/src/index.ts:202-226, 338-379).
CacheStaleOnlyByRace ==
    \A u \in Subject :
        cache[u] \in {NoEntry, Effective(u)} \/ u \in raced
            \/ \E r \in Request : calls[r].user = u /\ calls[r].pc = "invalidate"

\* The plugin has the groups of the last file loaded, if one of them is the default.
IndexFollowsSnapshot == index = snapshot \/ Cardinality(snapshot.defaults) > 1

\* What the plugin answers is stale by a race only, as above; and it answers by
\* the groups yaml.snapshot shows, except when the last file had several defaults:
\* the loader accepts it and picks one, the plugin refuses it and goes on with the
\* old groups (rbac-yaml/src/index.ts:140-149).
AnswersCurrent == CacheStaleOnlyByRace /\ IndexFollowsSnapshot

=============================================================================
