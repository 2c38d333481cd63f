---------------------------- MODULE PluginProofs ----------------------------
(***************************************************************************)
(* For every set of users, groups, nodes, files, credentials and requests, *)
(* for every limit and window, and for every finite set of plugins: the    *)
(* permissions, the passkeys and the rate limiters of the plugins, and the *)
(* registry that sorts and calls them.                                     *)
(***************************************************************************)
EXTENDS Permissions, Passkeys, RateLimiter, Registry, SequenceTheorems,
        FiniteSetTheorems, WellFoundedInduction, TLAPS

\* Every set of natural numbers that is not empty has a least element.
LEMMA LeastNatural ==
  ASSUME NEW T, T \subseteq Nat, T # {}
  PROVE  \E n \in T : \A m \in T : n <= m
<1>1. PICK n \in T : \A m \in T : <<m, n>> \notin OpToRel(<, Nat)
  BY NatLessThanWellFounded, WFMin
<1>2. \A m \in T : m < n => <<m, n>> \in OpToRel(<, Nat)
  BY DEF OpToRel
<1>3. \A m \in T : ~(m < n)
  BY <1>1, <1>2
<1>. QED
  BY <1>3

-----------------------------------------------------------------------------
(* Permissions.  Unless a change is about to drop the entry of a user, or  *)
(* dropped it during a look-up, the entry and what every look-up under way *)
(* has gathered so far are what the tables and the groups say now.         *)

USE FilesAssumption

Fresh(q) ==
    /\ q.pc = "merge" => NodesOf(q.groups) = NodesOf(userGroups[q.user])
    /\ q.pc = "direct" => q.nodes = NodesOf(userGroups[q.user])
    /\ q.pc = "fill" => q.nodes = Effective(q.user)

Excused(u) == u \in raced \/ \E r \in Request : calls[r].user = u /\ calls[r].pc = "invalidate"

Current(u) ==
    /\ cache[u] \in {NoEntry, Effective(u)}
    /\ \A r \in Request : calls[r].user = u => Fresh(calls[r])

CallsOfSubjects == \A r \in Request : calls[r].pc # "idle" => calls[r].user \in Subject

PermInv ==
    PermTypeOK /\ CallsOfSubjects /\ (\A u \in Subject : Excused(u) \/ Current(u)) /\ IndexFollowsSnapshot

\* What a call is made of.
LEMMA CallFields ==
  ASSUME NEW q \in PermCall
  PROVE  /\ q.user \in Subject \cup {Nil} /\ q.groups \subseteq Group /\ q.nodes \subseteq Node
         /\ \A p \in {"idle", "assign", "remove", "grant", "revoke", "invalidate", "purgeNodes",
                      "purgeGroups", "dropRow"} \cup Filling : [q EXCEPT !.pc = p] \in PermCall
BY DEF PermCall

LEMMA IdleIsCall == Idle \in PermCall /\ Idle.pc = "idle"
BY DEF Idle, PermCall

LEMMA NodesOfTyped ==
  ASSUME index \in File, NEW groups
  PROVE  NodesOf(groups) \subseteq Node
BY DEF NodesOf, File

\* The default groups are in already.
LEMMA DefaultsAreIn ==
  ASSUME NEW groups
  PROVE  NodesOf(groups \cup index.defaults) = NodesOf(groups)
<1>1. (groups \cup index.defaults) \cup index.defaults = groups \cup index.defaults
  OBVIOUS
<1>. QED
  BY <1>1 DEF NodesOf

\* A step of one call that touches no table and no entry.
LEMMA QuietMove ==
  ASSUME PermInv, NEW r \in Request, NEW q \in PermCall, Goto(r, q),
         UNCHANGED <<file, snapshot, index, users, userGroups, userPermissions, cache, raced>>,
         calls[r].pc # "invalidate", q.pc # "idle" => q.user \in Subject,
         q.user \in Subject /\ ~Excused(q.user) => Fresh(q)
  PROVE  PermInv'
<1>. USE DEF PermInv
<1>1. /\ calls \in [Request -> PermCall] /\ calls' = [calls EXCEPT ![r] = q]
      /\ \A s \in Request : calls'[s] = IF s = r THEN q ELSE calls[s]
  BY DEF Goto, PermTypeOK
<1>2. PermTypeOK'
  BY <1>1 DEF PermTypeOK
<1>3. CallsOfSubjects'
  BY <1>1 DEF CallsOfSubjects
<1>4. ASSUME NEW u \in Subject
      PROVE  (Excused(u) \/ Current(u))'
  <2>1. CASE Excused(u)
    BY <1>1, <2>1 DEF Excused
  <2>2. CASE ~Excused(u)
    <3>1. Current(u)
      BY <2>2
    <3>2. \A s \in Request : calls'[s].user = u => Fresh(calls'[s])
      BY <1>1, <2>2, <3>1 DEF Current
    <3>3. NodesOf(userGroups[u])' = NodesOf(userGroups[u]) /\ Effective(u)' = Effective(u)
      BY DEF NodesOf, Effective
    <3>4. ASSUME NEW s \in Request, calls'[s].user = u
          PROVE  Fresh(calls[s])'
      BY <3>2, <3>3, <3>4 DEF Fresh, NodesOf
    <3>. QED
      BY <3>1, <3>3, <3>4 DEF Current
  <2>. QED
    BY <2>1, <2>2
<1>5. IndexFollowsSnapshot'
  BY DEF IndexFollowsSnapshot
<1>. QED
  BY <1>2, <1>3, <1>4, <1>5

LEMMA CurrentStays ==
  ASSUME NEW u \in Subject, Current(u), UNCHANGED index,
         NodesOf(userGroups'[u]) = NodesOf(userGroups[u]),
         userPermissions'[u] = userPermissions[u], cache'[u] = cache[u],
         \A s \in Request : calls'[s].user = u => calls'[s] = calls[s] \/ calls'[s].pc \notin Filling
  PROVE  Current(u)'
<1>1. \A groups : NodesOf(groups)' = NodesOf(groups)
  BY DEF NodesOf
<1>2. NodesOf(userGroups[u])' = NodesOf(userGroups[u]) /\ Effective(u)' = Effective(u)
  BY <1>1 DEF NodesOf, Effective
<1>3. ASSUME NEW s \in Request, calls'[s].user = u
      PROVE  Fresh(calls[s])'
  <2>1. CASE calls'[s] = calls[s]
    <3>1. Fresh(calls[s])
      BY <1>3, <2>1 DEF Current
    <3>2. NodesOf(calls[s].groups)' = NodesOf(calls[s].groups)
      BY <2>1 DEF NodesOf
    <3>. QED
      BY <1>2, <1>3, <2>1, <3>1, <3>2 DEF Fresh
  <2>2. CASE calls'[s].pc \notin Filling
    BY <2>2 DEF Fresh, Filling
  <2>. QED
    BY <1>3, <2>1, <2>2
<1>. QED
  BY <1>2, <1>3 DEF Current

LEMMA CurrentWhenGone ==
  ASSUME NEW u \in Subject, cache'[u] = NoEntry,
         \A s \in Request : calls'[s].user = u => calls'[s].pc \notin Filling
  PROVE  Current(u)'
<1>1. ASSUME NEW s \in Request, calls'[s].user = u
      PROVE  Fresh(calls[s])'
  BY <1>1 DEF Fresh, Filling
<1>. QED
  BY <1>1 DEF Current

LEMMA ExcusedStays ==
  ASSUME NEW u \in Subject, Excused(u), u \in raced => u \in raced',
         \A s \in Request : calls[s].user = u /\ calls[s].pc = "invalidate" => calls'[s] = calls[s]
  PROVE  Excused(u)'
BY DEF Excused

LEMMA PermInitInv == PermInit => PermInv
<1>. SUFFICES ASSUME PermInit PROVE PermInv
  OBVIOUS
<1>1. PermTypeOK
  <2>1. SomeDefault(file)
    BY FS_EmptySet DEF PermInit, SomeDefault, OneDefault
  <2>2. calls \in [Request -> PermCall] /\ userGroups \in [Subject -> SUBSET Group]
    BY IdleIsCall DEF PermInit
  <2>3. /\ userPermissions \in [Subject -> SUBSET Node] /\ cache \in [Subject -> (SUBSET Node) \cup {NoEntry}]
        /\ users = Subject /\ raced \subseteq Subject
    BY DEF PermInit
  <2>. QED
    BY <2>1, <2>2, <2>3 DEF PermInit, PermTypeOK
<1>2. CallsOfSubjects
  BY IdleIsCall DEF PermInit, CallsOfSubjects
<1>3. ASSUME NEW u \in Subject
      PROVE  Current(u)
  BY IdleIsCall DEF PermInit, Current, Fresh
<1>4. IndexFollowsSnapshot
  BY DEF PermInit, IndexFollowsSnapshot
<1>. QED
  BY <1>1, <1>2, <1>3, <1>4 DEF PermInv

\* A record that differs from Idle in its pc and its user.
LEMMA OnlyPcAndUser ==
  ASSUME NEW u \in Subject,
         NEW p \in {"idle", "assign", "remove", "grant", "revoke", "invalidate", "purgeNodes",
                    "purgeGroups", "dropRow"} \cup Filling
  PROVE  /\ [Idle EXCEPT !.pc = p, !.user = u] \in PermCall
         /\ [Idle EXCEPT !.pc = p, !.user = u].pc = p
         /\ [Idle EXCEPT !.pc = p, !.user = u].user = u
BY DEF Idle, PermCall

\* The look-up, up to where it fills the cache.
LEMMA LookUpSteps ==
  ASSUME PermInv, NEW r \in Request, NEW u \in Subject,
         Ask(r, u) \/ ListUserGroups(r) \/ MergeGroups(r) \/ ListUserPermissions(r)
  PROVE  PermInv'
<1>. USE DEF PermInv
<1>1. calls \in [Request -> PermCall] /\ calls[r] \in PermCall /\ index \in File
  BY DEF PermTypeOK
<1>2. CASE Ask(r, u)
  <2>1. PICK q \in PermCall : q = [Idle EXCEPT !.pc = "groups", !.user = u] /\ q.pc = "groups" /\ q.user = u
    BY OnlyPcAndUser DEF Filling
  <2>2. /\ Goto(r, q) /\ calls[r].pc # "invalidate" /\ Fresh(q)
        /\ UNCHANGED <<file, snapshot, index, users, userGroups, userPermissions, cache, raced>>
    BY <1>2, <2>1, IdleIsCall DEF Ask, Fresh
  <2>. QED
    BY <2>1, <2>2, QuietMove
<1>3. CASE ListUserGroups(r)
  <2>1. calls[r].pc = "groups" /\ calls[r].user \in Subject /\ userGroups[calls[r].user] \subseteq Group
    BY <1>1, <1>3 DEF ListUserGroups, CallsOfSubjects, PermTypeOK
  <2>2. PICK q \in PermCall :
           /\ q = [calls[r] EXCEPT !.pc = "merge", !.groups = userGroups[calls[r].user]]
           /\ q.pc = "merge" /\ q.user = calls[r].user /\ q.groups = userGroups[calls[r].user]
    <3>1. PICK q \in PermCall, groups \in SUBSET Group : q = calls[r] /\ groups = userGroups[calls[r].user]
      BY <1>1, <2>1
    <3>2. [q EXCEPT !.pc = "merge", !.groups = groups] \in PermCall
      BY DEF PermCall, Filling
    <3>3. PICK w \in PermCall : w = [q EXCEPT !.pc = "merge", !.groups = groups]
      BY <3>2
    <3>4. w.pc = "merge" /\ w.user = q.user /\ w.groups = groups
      BY <3>3 DEF PermCall
    <3>. QED
      BY <3>1, <3>3, <3>4
  <2>3. /\ Goto(r, q) /\ Fresh(q)
        /\ UNCHANGED <<file, snapshot, index, users, userGroups, userPermissions, cache, raced>>
    BY <1>3, <2>2 DEF ListUserGroups, Fresh
  <2>. QED
    BY <2>1, <2>2, <2>3, QuietMove
<1>4. CASE MergeGroups(r)
  <2>1. calls[r].pc = "merge" /\ calls[r].user \in Subject /\ NodesOf(calls[r].groups) \subseteq Node
    BY <1>1, <1>4, NodesOfTyped DEF MergeGroups, CallsOfSubjects
  <2>2. PICK q \in PermCall :
           /\ q = [calls[r] EXCEPT !.pc = "direct", !.nodes = NodesOf(calls[r].groups), !.groups = {}]
           /\ q.pc = "direct" /\ q.user = calls[r].user /\ q.nodes = NodesOf(calls[r].groups)
    <3>1. PICK q \in PermCall, nodes \in SUBSET Node : q = calls[r] /\ nodes = NodesOf(calls[r].groups)
      BY <1>1, <2>1
    <3>2. [q EXCEPT !.pc = "direct", !.nodes = nodes, !.groups = {}] \in PermCall
      BY DEF PermCall, Filling
    <3>3. PICK w \in PermCall : w = [q EXCEPT !.pc = "direct", !.nodes = nodes, !.groups = {}]
      BY <3>2
    <3>4. w.pc = "direct" /\ w.user = q.user /\ w.nodes = nodes
      BY <3>3 DEF PermCall
    <3>. QED
      BY <3>1, <3>3, <3>4
  <2>3. /\ Goto(r, q)
        /\ UNCHANGED <<file, snapshot, index, users, userGroups, userPermissions, cache, raced>>
    BY <1>4, <2>2 DEF MergeGroups
  <2>4. ~Excused(q.user) => Fresh(q)
    BY <2>1, <2>2 DEF Current, Fresh
  <2>. QED
    BY <2>1, <2>2, <2>3, <2>4, QuietMove
<1>5. CASE ListUserPermissions(r)
  <2>1. /\ calls[r].pc = "direct" /\ calls[r].user \in Subject
        /\ calls[r].nodes \subseteq Node /\ userPermissions[calls[r].user] \subseteq Node
    BY <1>1, <1>5, CallFields DEF ListUserPermissions, CallsOfSubjects, PermTypeOK
  <2>2. PICK q \in PermCall :
           /\ q = [calls[r] EXCEPT !.pc = "fill", !.nodes = @ \cup userPermissions[calls[r].user]]
           /\ q.pc = "fill" /\ q.user = calls[r].user
           /\ q.nodes = calls[r].nodes \cup userPermissions[calls[r].user]
    <3>1. PICK q \in PermCall, nodes \in SUBSET Node :
             q = calls[r] /\ nodes = calls[r].nodes \cup userPermissions[calls[r].user]
      BY <1>1, <2>1
    <3>2. [q EXCEPT !.pc = "fill", !.nodes = nodes] \in PermCall
      BY DEF PermCall, Filling
    <3>3. PICK w \in PermCall : w = [q EXCEPT !.pc = "fill", !.nodes = nodes]
      BY <3>2
    <3>4. w.pc = "fill" /\ w.user = q.user /\ w.nodes = nodes
      BY <3>3 DEF PermCall
    <3>. QED
      BY <3>1, <3>3, <3>4
  <2>3. /\ Goto(r, q)
        /\ UNCHANGED <<file, snapshot, index, users, userGroups, userPermissions, cache, raced>>
    BY <1>5, <2>2 DEF ListUserPermissions
  <2>4. ~Excused(q.user) => Fresh(q)
    BY <2>1, <2>2 DEF Current, Fresh, Effective
  <2>. QED
    BY <2>1, <2>2, <2>3, <2>4, QuietMove
<1>. QED
  BY <1>2, <1>3, <1>4, <1>5

\* A change begins, or one of the calls is given up.
LEMMA BeginSteps ==
  ASSUME PermInv, NEW r \in Request,
         \/ AdapterFails(r)
         \/ \E u \in Subject, op \in {"assign", "remove", "grant", "revoke"}, groups \in SUBSET Group,
               nodes \in SUBSET Node : Begin(r, op, u, groups, nodes)
  PROVE  PermInv'
<1>1. CASE AdapterFails(r)
  <2>1. /\ Goto(r, Idle) /\ calls[r].pc # "invalidate"
        /\ UNCHANGED <<file, snapshot, index, users, userGroups, userPermissions, cache, raced>>
    BY <1>1 DEF AdapterFails, Filling
  <2>2. Fresh(Idle)
    BY IdleIsCall DEF Fresh
  <2>. QED
    BY <2>1, <2>2, IdleIsCall, QuietMove
<1>2. ASSUME NEW u \in Subject, NEW op \in {"assign", "remove", "grant", "revoke"},
             NEW groups \in SUBSET Group, NEW nodes \in SUBSET Node, Begin(r, op, u, groups, nodes)
      PROVE  PermInv'
  <2>1. PICK q \in PermCall :
           /\ q = [pc |-> op, user |-> u, groups |-> groups, nodes |-> nodes]
           /\ q.pc = op /\ q.user = u
    <3>1. [pc |-> op, user |-> u, groups |-> groups, nodes |-> nodes] \in PermCall
      BY DEF PermCall, Filling
    <3>. QED
      BY <3>1
  <2>2. /\ Goto(r, q) /\ calls[r].pc # "invalidate" /\ Fresh(q)
        /\ UNCHANGED <<file, snapshot, index, users, userGroups, userPermissions, cache, raced>>
    BY <1>2, <2>1, IdleIsCall DEF Begin, Fresh
  <2>. QED
    BY <2>1, <2>2, QuietMove
<1>. QED
  BY <1>1, <1>2

\* What the look-up gathered goes into the cache.
LEMMA CacheSetStep ==
  ASSUME PermInv, NEW r \in Request, CacheSet(r)
  PROVE  PermInv'
<1>. USE DEF PermInv
<1>1. PICK u \in Subject, nodes \in SUBSET Node :
         /\ u = calls[r].user /\ nodes = calls[r].nodes /\ calls[r].pc = "fill"
         /\ cache' = [cache EXCEPT ![u] = nodes] /\ calls' = [calls EXCEPT ![r] = Idle]
         /\ UNCHANGED <<file, snapshot, index, users, userGroups, userPermissions, raced>>
  BY CallFields DEF CacheSet, Goto, PermTypeOK, CallsOfSubjects
<1>2. /\ \A s \in Request : calls'[s] = IF s = r THEN Idle ELSE calls[s]
      /\ \A v \in Subject : cache'[v] = IF v = u THEN nodes ELSE cache[v]
      /\ Idle.pc \notin Filling
  BY <1>1, IdleIsCall DEF PermTypeOK, Filling
<1>3. PermTypeOK'
  BY <1>1, IdleIsCall DEF PermTypeOK, OneDefault, SomeDefault
<1>4. CallsOfSubjects' /\ IndexFollowsSnapshot'
  BY <1>1, <1>2, IdleIsCall DEF CallsOfSubjects, IndexFollowsSnapshot
<1>5. ASSUME NEW v \in Subject
      PROVE  (Excused(v) \/ Current(v))'
  <2>1. CASE Excused(v)
    BY <1>1, <1>2, <2>1, ExcusedStays
  <2>2. CASE ~Excused(v) /\ v # u
    BY <1>1, <1>2, <2>2, CurrentStays
  <2>3. CASE ~Excused(v) /\ v = u
    <3>1. Current(u) /\ nodes = Effective(u)
      BY <1>1, <2>3 DEF Current, Fresh
    <3>2. Effective(u)' = Effective(u) /\ NodesOf(userGroups[u])' = NodesOf(userGroups[u])
      BY <1>1 DEF Effective, NodesOf
    <3>3. ASSUME NEW s \in Request, calls'[s].user = u
          PROVE  Fresh(calls[s])'
      <4>1. CASE s = r
        BY <1>2, <4>1, IdleIsCall DEF Fresh
      <4>2. CASE s # r
        <5>1. calls'[s] = calls[s] /\ Fresh(calls[s])
          BY <1>2, <3>1, <3>3, <4>2 DEF Current
        <5>2. NodesOf(calls[s].groups)' = NodesOf(calls[s].groups)
          BY <1>1, <5>1 DEF NodesOf
        <5>. QED
          BY <3>2, <3>3, <5>1, <5>2 DEF Fresh
      <4>. QED
        BY <4>1, <4>2
    <3>. QED
      BY <1>2, <2>3, <3>1, <3>2, <3>3 DEF Current
  <2>. QED
    BY <2>1, <2>2, <2>3
<1>. QED
  BY <1>3, <1>4, <1>5

\* What every step of this kind leaves of the invariant to be shown.
LEMMA ChangeKept ==
  ASSUME PermInv, NEW u \in Subject, NEW r \in Request, NEW q \in PermCall, Goto(r, q),
         UNCHANGED <<file, snapshot, index>>,
         q.pc # "idle" => q.user \in Subject, q.pc \notin Filling,
         calls[r].pc = "invalidate" => calls[r].user = u,
         \A v \in Subject \ {u} :
            /\ userGroups'[v] = userGroups[v] /\ userPermissions'[v] = userPermissions[v]
            /\ cache'[v] = cache[v] /\ (v \in raced => v \in raced'),
         Excused(u)' \/ Current(u)'
  PROVE  CallsOfSubjects' /\ (\A v \in Subject : Excused(v) \/ Current(v))' /\ IndexFollowsSnapshot'
<1>1. \A s \in Request : calls'[s] = IF s = r THEN q ELSE calls[s]
  BY DEF Goto, PermInv, PermTypeOK
<1>2. CallsOfSubjects' /\ IndexFollowsSnapshot'
  BY <1>1 DEF PermInv, CallsOfSubjects, IndexFollowsSnapshot
<1>3. ASSUME NEW v \in Subject, v # u
      PROVE  (Excused(v) \/ Current(v))'
  <2>1. CASE Excused(v)
    BY <1>1, <1>3, <2>1, ExcusedStays
  <2>2. CASE Current(v)
    <3>1. NodesOf(userGroups'[v]) = NodesOf(userGroups[v])
      BY <1>3
    <3>2. \A s \in Request : calls'[s].user = v => calls'[s] = calls[s] \/ calls'[s].pc \notin Filling
      BY <1>1
    <3>. QED
      BY <1>3, <2>2, <3>1, <3>2, CurrentStays
  <2>. QED
    BY <2>1, <2>2 DEF PermInv
<1>. QED
  BY <1>2, <1>3

\* The entry is dropped, by whoever does it.
LEMMA EntryDropped ==
  ASSUME PermInv, NEW u \in Subject, NEW r \in Request, NEW q \in PermCall, Goto(r, q), Invalidate(u),
         q.pc \notin Filling, calls[r].pc \notin Filling
  PROVE  Excused(u)' \/ Current(u)'
<1>1. /\ \A s \in Request : calls'[s] = IF s = r THEN q ELSE calls[s]
      /\ cache'[u] = NoEntry
  BY DEF Goto, PermInv, PermTypeOK, Invalidate, Invalidated
<1>2. CASE UnderWay(u)
  BY <1>2 DEF Invalidate, Excused
<1>3. CASE ~UnderWay(u)
  BY <1>1, <1>3, CurrentWhenGone DEF UnderWay
<1>. QED
  BY <1>2, <1>3

LEMMA DropEntryStep ==
  ASSUME PermInv, NEW r \in Request, DropEntry(r)
  PROVE  PermInv'
<1>1. PICK u \in Subject : u = calls[r].user
  BY DEF DropEntry, PermInv, CallsOfSubjects
<1>2. /\ calls[r].pc = "invalidate" /\ Invalidate(u) /\ Goto(r, Idle)
      /\ UNCHANGED <<file, snapshot, index, users, userGroups, userPermissions>>
  BY <1>1 DEF DropEntry
<1>3. PermTypeOK'
  BY <1>2, IdleIsCall DEF PermInv, PermTypeOK, Invalidate, Invalidated, Goto, OneDefault, SomeDefault
<1>4. Excused(u)' \/ Current(u)'
  BY <1>2, IdleIsCall, EntryDropped DEF Filling
<1>5. \A v \in Subject \ {u} : cache'[v] = cache[v] /\ (v \in raced => v \in raced')
  BY <1>2 DEF Invalidate, Invalidated, PermInv, PermTypeOK
<1>. QED
  BY <1>1, <1>2, <1>3, <1>4, <1>5, IdleIsCall, ChangeKept DEF PermInv, Filling

LEMMA DeleteUserStep ==
  ASSUME PermInv, NEW r \in Request, NEW u \in Subject, DeleteUser(r, u)
  PROVE  PermInv'
<1>1. PICK q \in PermCall : q = [Idle EXCEPT !.pc = "purgeNodes", !.user = u] /\ q.pc = "purgeNodes" /\ q.user = u
  BY OnlyPcAndUser
<1>2. /\ calls[r].pc = "idle" /\ Invalidate(u) /\ Goto(r, q)
      /\ UNCHANGED <<file, snapshot, index, users, userGroups, userPermissions>>
  BY <1>1, IdleIsCall DEF DeleteUser
<1>3. PermTypeOK'
  BY <1>2 DEF PermInv, PermTypeOK, Invalidate, Invalidated, Goto, OneDefault, SomeDefault
<1>4. Excused(u)' \/ Current(u)'
  BY <1>1, <1>2, EntryDropped DEF Filling
<1>5. \A v \in Subject \ {u} : cache'[v] = cache[v] /\ (v \in raced => v \in raced')
  BY <1>2 DEF Invalidate, Invalidated, PermInv, PermTypeOK
<1>. QED
  BY <1>1, <1>2, <1>3, <1>4, <1>5, ChangeKept DEF PermInv, Filling

LEMMA WriteStep ==
  ASSUME PermInv, NEW r \in Request, Write(r)
  PROVE  PermInv'
<1>1. PICK u \in Subject : u = calls[r].user
  BY DEF Write, PermInv, CallsOfSubjects
<1>2. PICK q \in PermCall : q = [Idle EXCEPT !.pc = "invalidate", !.user = u] /\ q.pc = "invalidate" /\ q.user = u
  BY OnlyPcAndUser
<1>3. /\ calls[r].pc \in {"assign", "remove", "grant", "revoke"} /\ Goto(r, q)
      /\ UNCHANGED <<file, snapshot, index, users, cache, raced>>
  BY <1>1, <1>2 DEF Write
<1>4. PICK groups \in SUBSET Group, nodes \in SUBSET Node :
         /\ userGroups' = [userGroups EXCEPT ![u] = groups]
         /\ userPermissions' = [userPermissions EXCEPT ![u] = nodes]
         /\ groups # {} \/ nodes # {} => u \in users
  <2>1. /\ calls[r].groups \subseteq Group /\ calls[r].nodes \subseteq Node
        /\ userGroups \in [Subject -> SUBSET Group] /\ userPermissions \in [Subject -> SUBSET Node]
        /\ userGroups[u] # {} \/ userPermissions[u] # {} => u \in users
    BY CallFields DEF PermInv, PermTypeOK
  <2>2. /\ userGroups = [userGroups EXCEPT ![u] = userGroups[u]]
        /\ userPermissions = [userPermissions EXCEPT ![u] = userPermissions[u]]
    BY <2>1
  <2>3. CASE calls[r].pc = "assign"
    <3>1. /\ u \in users /\ userPermissions' = userPermissions
          /\ userGroups' = [userGroups EXCEPT ![u] = userGroups[u] \cup calls[r].groups]
      BY <1>1, <2>3 DEF Write
    <3>. QED
      BY <2>1, <2>2, <3>1
  <2>4. CASE calls[r].pc = "remove"
    <3>1. /\ userPermissions' = userPermissions
          /\ userGroups' = [userGroups EXCEPT ![u] = userGroups[u] \ calls[r].groups]
      BY <1>1, <2>4 DEF Write
    <3>. QED
      BY <2>1, <2>2, <3>1
  <2>5. CASE calls[r].pc = "grant"
    <3>1. /\ u \in users /\ userGroups' = userGroups
          /\ userPermissions' = [userPermissions EXCEPT ![u] = userPermissions[u] \cup calls[r].nodes]
      BY <1>1, <2>5 DEF Write
    <3>2. PICK groups \in SUBSET Group, nodes \in SUBSET Node :
             groups = userGroups[u] /\ nodes = userPermissions[u] \cup calls[r].nodes
      BY <2>1
    <3>. QED
      BY <2>1, <2>2, <3>1, <3>2
  <2>6. CASE calls[r].pc = "revoke"
    <3>1. /\ userGroups' = userGroups
          /\ userPermissions' = [userPermissions EXCEPT ![u] = userPermissions[u] \ calls[r].nodes]
      BY <1>1, <2>6 DEF Write
    <3>2. PICK groups \in SUBSET Group, nodes \in SUBSET Node :
             groups = userGroups[u] /\ nodes = userPermissions[u] \ calls[r].nodes
      BY <2>1
    <3>. QED
      BY <2>1, <2>2, <3>1, <3>2
  <2>. QED
    BY <1>3, <2>3, <2>4, <2>5, <2>6
<1>5. PermTypeOK'
  BY <1>3, <1>4 DEF PermInv, PermTypeOK, Goto, OneDefault, SomeDefault
<1>6. Excused(u)'
  BY <1>2, <1>3 DEF Goto, Excused, PermInv, PermTypeOK
<1>7. \A v \in Subject \ {u} : userGroups'[v] = userGroups[v] /\ userPermissions'[v] = userPermissions[v]
  BY <1>4 DEF PermInv, PermTypeOK
<1>. QED
  BY <1>2, <1>3, <1>5, <1>6, <1>7, ChangeKept DEF PermInv, Filling

\* The purge of a user, statement by statement.
LEMMA PurgeKept ==
  ASSUME PermInv, NEW r \in Request, PurgeStep(r)
  PROVE  PermInv'
<1>1. PICK u \in Subject : u = calls[r].user
  BY DEF PurgeStep, PermInv, CallsOfSubjects
<1>2. /\ calls[r].pc \in {"purgeNodes", "purgeGroups", "dropRow"}
      /\ raced' = LeftBehind(u) /\ UNCHANGED <<file, snapshot, index, cache>>
  BY <1>1 DEF PurgeStep
<1>3. PICK q \in PermCall : Goto(r, q) /\ q.pc \in {"purgeGroups", "dropRow", "idle"} /\ (q.pc # "idle" => q.user = u)
  <2>1. PICK w \in PermCall : w = calls[r] /\ w.user = u
    BY <1>1 DEF PermInv, PermTypeOK
  <2>2. /\ [w EXCEPT !.pc = "purgeGroups"] \in PermCall /\ [w EXCEPT !.pc = "dropRow"] \in PermCall
    BY CallFields
  <2>3. PICK w1 \in PermCall, w2 \in PermCall :
           w1 = [w EXCEPT !.pc = "purgeGroups"] /\ w2 = [w EXCEPT !.pc = "dropRow"]
    BY <2>2
  <2>4. w1.pc = "purgeGroups" /\ w1.user = u /\ w2.pc = "dropRow" /\ w2.user = u
    BY <2>1, <2>3 DEF PermCall
  <2>5. Goto(r, w1) \/ Goto(r, w2) \/ Goto(r, Idle)
    BY <2>1, <2>3 DEF PurgeStep
  <2>. QED
    BY <2>4, <2>5, IdleIsCall
<1>4. /\ userGroups' = userGroups \/ userGroups' = [userGroups EXCEPT ![u] = {}]
      /\ userPermissions' = userPermissions \/ userPermissions' = [userPermissions EXCEPT ![u] = {}]
      /\ \/ users' = users
         \/ /\ users' = users \ {u} /\ userGroups' = [userGroups EXCEPT ![u] = {}]
            /\ userPermissions' = [userPermissions EXCEPT ![u] = {}]
  BY <1>1 DEF PurgeStep
<1>5. PermTypeOK'
  <2>1. userGroups' \in [Subject -> SUBSET Group] /\ userPermissions' \in [Subject -> SUBSET Node]
    BY <1>4 DEF PermInv, PermTypeOK
  <2>2. \A v \in Subject : userGroups'[v] # {} \/ userPermissions'[v] # {} => v \in users'
    BY <1>4 DEF PermInv, PermTypeOK
  <2>3. users' \subseteq Subject /\ raced' \subseteq Subject
    BY <1>2, <1>4 DEF PermInv, PermTypeOK, LeftBehind
  <2>4. calls' \in [Request -> PermCall]
    BY <1>3 DEF PermInv, PermTypeOK, Goto
  <2>. QED
    BY <1>2, <2>1, <2>2, <2>3, <2>4 DEF PermInv, PermTypeOK, OneDefault, SomeDefault
<1>6. \A s \in Request : calls'[s] = IF s = r THEN q ELSE calls[s]
  BY <1>3 DEF Goto, PermInv, PermTypeOK
<1>7. Excused(u)' \/ Current(u)'
  <2>1. CASE UnderWay(u) \/ cache[u] # NoEntry
    BY <1>2, <2>1 DEF LeftBehind, Excused
  <2>2. CASE ~UnderWay(u) /\ cache[u] = NoEntry
    <3>1. cache'[u] = NoEntry
      BY <1>2, <2>2
    <3>2. \A s \in Request : calls'[s].user = u => calls'[s].pc \notin Filling
      BY <1>3, <1>6, <2>2 DEF UnderWay, Filling
    <3>. QED
      BY <3>1, <3>2, CurrentWhenGone
  <2>. QED
    BY <2>1, <2>2
<1>8. \A v \in Subject \ {u} :
         /\ userGroups'[v] = userGroups[v] /\ userPermissions'[v] = userPermissions[v]
         /\ cache'[v] = cache[v] /\ (v \in raced => v \in raced')
  BY <1>2, <1>4 DEF LeftBehind, PermInv, PermTypeOK
<1>9. q.pc \notin Filling /\ calls[r].pc # "invalidate"
  BY <1>2, <1>3 DEF Filling
<1>10. CallsOfSubjects' /\ (\A v \in Subject : Excused(v) \/ Current(v))' /\ IndexFollowsSnapshot'
  BY <1>2, <1>3, <1>7, <1>8, <1>9, ChangeKept
<1>. QED
  BY <1>5, <1>10 DEF PermInv

LEMMA EvictStep ==
  ASSUME PermInv, NEW u \in Subject, Evict(u)
  PROVE  PermInv'
<1>1. /\ cache' = [cache EXCEPT ![u] = NoEntry]
      /\ raced' = IF UnderWay(u) THEN raced ELSE raced \ {u}
      /\ UNCHANGED <<file, snapshot, index, users, userGroups, userPermissions, calls>>
  BY DEF Evict
<1>2. PermTypeOK'
  BY <1>1 DEF PermInv, PermTypeOK, OneDefault, SomeDefault
<1>3. CallsOfSubjects' /\ IndexFollowsSnapshot'
  BY <1>1 DEF PermInv, CallsOfSubjects, IndexFollowsSnapshot
<1>4. ASSUME NEW v \in Subject
      PROVE  (Excused(v) \/ Current(v))'
  <2>1. CASE v # u
    <3>1. cache'[v] = cache[v] /\ (v \in raced => v \in raced')
      BY <1>1, <2>1 DEF PermInv, PermTypeOK
    <3>2. Excused(v) \/ Current(v)
      BY DEF PermInv
    <3>3. NodesOf(userGroups'[v]) = NodesOf(userGroups[v])
      BY <1>1
    <3>4. Current(v) => Current(v)'
      BY <1>1, <3>1, <3>3, CurrentStays
    <3>. QED
      BY <1>1, <3>1, <3>2, <3>4, ExcusedStays
  <2>2. CASE v = u /\ ~UnderWay(u)
    <3>1. cache'[v] = NoEntry
      BY <1>1, <2>2 DEF PermInv, PermTypeOK
    <3>. QED
      BY <1>1, <2>2, <3>1, CurrentWhenGone DEF UnderWay
  <2>3. CASE v = u /\ UnderWay(u)
    <3>1. CASE Excused(u)
      BY <1>1, <2>3, <3>1, ExcusedStays
    <3>2. CASE Current(u)
      <4>1. Effective(u)' = Effective(u) /\ \A groups : NodesOf(groups)' = NodesOf(groups)
        BY <1>1 DEF Effective, NodesOf
      <4>2. \A s \in Request : calls'[s].user = u => Fresh(calls[s])
        BY <1>1, <3>2 DEF Current
      <4>3. cache'[u] = NoEntry
        BY <1>1 DEF PermInv, PermTypeOK
      <4>4. ASSUME NEW s \in Request, calls'[s].user = u
            PROVE  Fresh(calls[s])'
        <5>1. NodesOf(calls[s].groups)' = NodesOf(calls[s].groups) /\ NodesOf(userGroups[u])' = NodesOf(userGroups[u])
          BY <1>1 DEF NodesOf
        <5>. QED
          BY <1>1, <4>1, <4>2, <4>4, <5>1 DEF Fresh
      <4>. QED
        BY <2>3, <4>3, <4>4 DEF Current
    <3>. QED
      BY <3>1, <3>2 DEF PermInv
  <2>. QED
    BY <2>1, <2>2, <2>3
<1>. QED
  BY <1>2, <1>3, <1>4 DEF PermInv

\* The default groups change nobody's nodes.
LEMMA RegisterHookStep ==
  ASSUME PermInv, NEW u \in Subject, RegisterHook(u)
  PROVE  PermInv'
<1>1. /\ u \in users /\ userGroups' = [userGroups EXCEPT ![u] = userGroups[u] \cup index.defaults]
      /\ UNCHANGED <<file, snapshot, index, users, userPermissions, cache, calls, raced>>
  BY DEF RegisterHook
<1>2. PermTypeOK'
  <2>1. index \in File /\ index.defaults \subseteq Group
    BY DEF PermInv, PermTypeOK, File
  <2>2. userGroups' \in [Subject -> SUBSET Group]
    BY <1>1, <2>1 DEF PermInv, PermTypeOK
  <2>3. \A v \in Subject : userGroups'[v] # {} \/ userPermissions'[v] # {} => v \in users'
    BY <1>1 DEF PermInv, PermTypeOK
  <2>. QED
    BY <1>1, <2>2, <2>3 DEF PermInv, PermTypeOK, OneDefault, SomeDefault
<1>3. CallsOfSubjects' /\ IndexFollowsSnapshot'
  BY <1>1 DEF PermInv, CallsOfSubjects, IndexFollowsSnapshot
<1>4. ASSUME NEW v \in Subject
      PROVE  (Excused(v) \/ Current(v))'
  <2>1. NodesOf(userGroups'[v]) = NodesOf(userGroups[v])
    BY <1>1, DefaultsAreIn DEF PermInv, PermTypeOK
  <2>2. Current(v) => Current(v)'
    BY <1>1, <2>1, CurrentStays
  <2>. QED
    BY <1>1, <2>2, ExcusedStays DEF PermInv
<1>. QED
  BY <1>2, <1>3, <1>4 DEF PermInv

\* The file, and what is loaded from it.
LEMMA FileSteps ==
  ASSUME PermInv, (\E f \in Files : EditFile(f)) \/ Reload \/ Restart
  PROVE  PermInv'
<1>1. CASE \E f \in Files : EditFile(f)
  <2>1. /\ file' \in Files
        /\ UNCHANGED <<snapshot, index, users, userGroups, userPermissions, cache, calls, raced>>
    BY <1>1 DEF EditFile
  <2>2. PermTypeOK' /\ CallsOfSubjects' /\ IndexFollowsSnapshot'
    BY <2>1 DEF PermInv, PermTypeOK, OneDefault, SomeDefault, CallsOfSubjects, IndexFollowsSnapshot
  <2>3. ASSUME NEW v \in Subject
        PROVE  (Excused(v) \/ Current(v))'
    BY <2>1, CurrentStays, ExcusedStays DEF PermInv
  <2>. QED
    BY <2>2, <2>3 DEF PermInv
<1>2. CASE Reload /\ Accepted(file)
  <2>1. /\ SomeDefault(file) /\ OneDefault(file) /\ snapshot' = file /\ index' = file
        /\ cache' = [u \in Subject |-> NoEntry] /\ raced' = {u \in Subject : UnderWay(u)}
        /\ UNCHANGED <<file, users, userGroups, userPermissions, calls>>
    BY <1>2 DEF Reload, Accepted, EmptyCache
  <2>2. PermTypeOK' /\ CallsOfSubjects' /\ IndexFollowsSnapshot'
    BY <2>1 DEF PermInv, PermTypeOK, OneDefault, SomeDefault, CallsOfSubjects, IndexFollowsSnapshot
  <2>3. ASSUME NEW v \in Subject
        PROVE  (Excused(v) \/ Current(v))'
    <3>1. CASE UnderWay(v)
      BY <2>1, <3>1 DEF Excused
    <3>2. CASE ~UnderWay(v)
      BY <2>1, <3>2, CurrentWhenGone DEF UnderWay
    <3>. QED
      BY <3>1, <3>2
  <2>. QED
    BY <2>2, <2>3 DEF PermInv
<1>3. CASE Reload /\ ~Accepted(file)
  <2>1. /\ SomeDefault(file) /\ ~OneDefault(file) /\ snapshot' = file
        /\ UNCHANGED <<index, cache, raced, file, users, userGroups, userPermissions, calls>>
    BY <1>3 DEF Reload, Accepted
  <2>2. PermTypeOK' /\ CallsOfSubjects'
    BY <2>1 DEF PermInv, PermTypeOK, OneDefault, SomeDefault, CallsOfSubjects
  <2>3. IndexFollowsSnapshot'
    <3>1. IsFiniteSet(file.defaults)
      BY DEF PermInv, PermTypeOK
    <3>2. Cardinality(file.defaults) \in Nat /\ Cardinality(file.defaults) # 0
      BY <2>1, <3>1, FS_CardinalityType, FS_EmptySet DEF SomeDefault
    <3>. QED
      BY <2>1, <3>2 DEF OneDefault, IndexFollowsSnapshot
  <2>4. ASSUME NEW v \in Subject
        PROVE  (Excused(v) \/ Current(v))'
    BY <2>1, CurrentStays, ExcusedStays DEF PermInv
  <2>. QED
    BY <2>2, <2>3, <2>4 DEF PermInv
<1>4. CASE Restart
  <2>1. /\ OneDefault(file) /\ snapshot' = file /\ index' = file
        /\ cache' = [u \in Subject |-> NoEntry] /\ calls' = [r \in Request |-> Idle] /\ raced' = {}
        /\ UNCHANGED <<file, users, userGroups, userPermissions>>
    BY <1>4 DEF Restart
  <2>2. SomeDefault(file)
    BY <2>1, FS_EmptySet DEF SomeDefault, OneDefault
  <2>3. PermTypeOK' /\ CallsOfSubjects' /\ IndexFollowsSnapshot'
    BY <2>1, <2>2, IdleIsCall
       DEF PermInv, PermTypeOK, OneDefault, SomeDefault, CallsOfSubjects, IndexFollowsSnapshot
  <2>4. ASSUME NEW v \in Subject
        PROVE  Current(v)'
    BY <2>1, IdleIsCall, CurrentWhenGone DEF Filling
  <2>. QED
    BY <2>3, <2>4 DEF PermInv
<1>. QED
  BY <1>1, <1>2, <1>3, <1>4

LEMMA PermNextInv ==
  ASSUME PermInv, [PermNext]_permVars
  PROVE  PermInv'
<1>1. CASE UNCHANGED permVars
  <2>1. UNCHANGED <<file, snapshot, index, users, userGroups, userPermissions, cache, calls, raced>>
    BY <1>1 DEF permVars
  <2>2. PermTypeOK' /\ CallsOfSubjects' /\ IndexFollowsSnapshot'
    BY <2>1 DEF PermInv, PermTypeOK, OneDefault, SomeDefault, CallsOfSubjects, IndexFollowsSnapshot
  <2>3. ASSUME NEW v \in Subject
        PROVE  (Excused(v) \/ Current(v))'
    BY <2>1, CurrentStays, ExcusedStays DEF PermInv
  <2>. QED
    BY <2>2, <2>3 DEF PermInv
<1>2. ASSUME NEW r \in Request, NEW u \in Subject,
             Ask(r, u) \/ ListUserGroups(r) \/ MergeGroups(r) \/ ListUserPermissions(r)
      PROVE  PermInv'
  BY <1>2, LookUpSteps
<1>3. ASSUME NEW r \in Request, NEW u \in Subject, NEW g \in Group, AssignGroup(r, u, g) \/ RemoveGroup(r, u, g)
      PROVE  PermInv'
  <2>1. {g} \in SUBSET Group /\ {} \in SUBSET Node
    OBVIOUS
  <2>2. Begin(r, "assign", u, {g}, {}) \/ Begin(r, "remove", u, {g}, {})
    BY <1>3 DEF AssignGroup, RemoveGroup
  <2>. QED
    BY <2>1, <2>2, BeginSteps
<1>4. ASSUME NEW r \in Request, NEW u \in Subject, NEW n \in Node, Grant(r, u, n) \/ Revoke(r, u, n)
      PROVE  PermInv'
  <2>1. {n} \in SUBSET Node /\ {} \in SUBSET Group
    OBVIOUS
  <2>2. Begin(r, "grant", u, {}, {n}) \/ Begin(r, "revoke", u, {}, {n})
    BY <1>4 DEF Grant, Revoke
  <2>. QED
    BY <2>1, <2>2, BeginSteps
<1>5. ASSUME NEW r \in Request, ListUserGroups(r) \/ MergeGroups(r) \/ ListUserPermissions(r)
      PROVE  PermInv'
  <2>1. calls[r].user \in Subject
    BY <1>5 DEF ListUserGroups, MergeGroups, ListUserPermissions, PermInv, CallsOfSubjects
  <2>. QED
    BY <1>5, <2>1, LookUpSteps
<1>6. ASSUME NEW r \in Request, AdapterFails(r)
      PROVE  PermInv'
  BY <1>6, BeginSteps
<1>. QED
  BY <1>1, <1>2, <1>3, <1>4, <1>5, <1>6, CacheSetStep, DropEntryStep, DeleteUserStep, WriteStep,
     PurgeKept, EvictStep, RegisterHookStep, FileSteps
     DEF PermNext

\* What the permissions promise.
LEMMA PermSpecAnswersCurrent == PermSpec => [](PermTypeOK /\ AnswersCurrent)
<1>1. PermInv => PermTypeOK /\ AnswersCurrent
  BY DEF PermInv, AnswersCurrent, CacheStaleOnlyByRace, Excused, Current
<1>. QED
  BY <1>1, PermInitInv, PermNextInv, PTL DEF PermSpec


-----------------------------------------------------------------------------
(* Passkeys.  Until two logins have read one row of a credential, no more  *)
(* than one login of it is between its check and its update; so the        *)
(* counter of a row is at least that of every answer it has accepted.      *)

Updating(r, c) == verifying[r].pc = "update" /\ verifying[r].answer.credential = c

\* An answer that has passed, for a row.
AcceptedAs(a, n) ==
    \/ <<a, n>> \in used
    \/ \E r \in Request : verifying[r].pc = "complete" /\ verifying[r].answer = a /\ verifying[r].row = n

AnswersOf(c) == {a \in Response : a.credential = c /\ a.count > 0}

IsRow(c, n) == Registered(c) /\ passkeys[c].id = n

FlowsSound ==
    \A r \in Request :
        /\ verifying[r].pc \in {"register", "login", "update", "complete"} => verifying[r].answer \in Response
        /\ verifying[r].pc \in {"register", "update", "complete", "remove", "cleanup", "dropUser"} =>
              verifying[r].user \in User
        /\ verifying[r].pc \in {"update", "complete", "remove"} => verifying[r].row \in 1..rowSerial

RowsSound ==
    /\ \A c \in Credential : Registered(c) => passkeys[c].id <= rowSerial
    /\ \A c, d \in Credential : Registered(c) /\ Registered(d) /\ passkeys[c].id = passkeys[d].id => c = d
    /\ \A use \in used : use[2] <= rowSerial
    /\ \A r \in Request, c \in Credential :
          verifying[r].pc = "remove" /\ IsRow(c, verifying[r].row) => verifying[r].user = passkeys[c].user

CounterKeepsUp ==
    \A c \in Credential \ overlapped, a \in Response, n \in 1..MaxRows :
        a \in AnswersOf(c) /\ AcceptedAs(a, n) /\ IsRow(c, n) => a.count <= passkeys[c].counter

OneUpdate ==
    \A c \in Credential \ overlapped, r, s \in Request : Updating(r, c) /\ Updating(s, c) => r = s

UpdatesAdvance ==
    \A c \in Credential \ overlapped, r \in Request :
        Updating(r, c) =>
            /\ IsRow(c, verifying[r].row) => Advances(verifying[r].answer.count, passkeys[c].counter)
            /\ \A a \in AnswersOf(c) : AcceptedAs(a, verifying[r].row) =>
                  verifying[r].answer.count = 0 \/ a.count < verifying[r].answer.count

StaleUpdatesFirst ==
    \A c \in Credential \ overlapped, r \in Request, a \in Response :
        Updating(r, c) /\ Registered(c) /\ passkeys[c].id # verifying[r].row /\ a \in AnswersOf(c) =>
            ~AcceptedAs(a, passkeys[c].id)

CompletesOnce ==
    \A c \in Credential \ overlapped, r \in Request :
        verifying[r].pc = "complete" /\ verifying[r].answer \in AnswersOf(c) =>
            /\ <<verifying[r].answer, verifying[r].row>> \notin used
            /\ \A s \in Request :
                  verifying[s].pc = "complete" /\ verifying[s].answer = verifying[r].answer
                  /\ verifying[s].row = verifying[r].row => s = r

PasskeyInv ==
    /\ PasskeyTypeOK /\ FlowsSound /\ RowsSound
    /\ CounterKeepsUp /\ OneUpdate /\ UpdatesAdvance /\ StaleUpdatesFirst
    /\ CompletesOnce /\ OneSignInPerAnswer

LEMMA RestIsFlow == Rest \in Flow /\ Rest.pc = "idle"
BY BoundAssumption DEF Rest, Flow

LEMMA RowFields ==
  ASSUME PasskeyTypeOK, NEW c \in Credential, Registered(c)
  PROVE  /\ passkeys[c] \in PasskeyRow
         /\ passkeys[c].id \in 1..MaxRows /\ passkeys[c].user \in User /\ passkeys[c].counter \in Count
BY DEF PasskeyTypeOK, Registered, PasskeyRow

LEMMA PasskeyInitInv == PasskeyInit => PasskeyInv
<1>. SUFFICES ASSUME PasskeyInit PROVE PasskeyInv
  OBVIOUS
<1>1. /\ \A r \in Request : verifying[r] = Rest
      /\ \A c \in Credential : ~Registered(c)
      /\ used = {} /\ usedTwice = {}
  BY DEF PasskeyInit, Registered
<1>2. PasskeyTypeOK
  BY <1>1, RestIsFlow, BoundAssumption DEF PasskeyInit, PasskeyTypeOK, Count
<1>3. FlowsSound /\ RowsSound /\ CounterKeepsUp
  BY <1>1, RestIsFlow DEF FlowsSound, RowsSound, CounterKeepsUp, IsRow
<1>4. OneUpdate /\ UpdatesAdvance /\ StaleUpdatesFirst /\ CompletesOnce /\ OneSignInPerAnswer
  BY <1>1, RestIsFlow
     DEF OneUpdate, UpdatesAdvance, StaleUpdatesFirst, CompletesOnce, OneSignInPerAnswer, Updating
<1>. QED
  BY <1>2, <1>3, <1>4 DEF PasskeyInv

\* What a step keeps that neither reads a row nor writes one, but may drop rows,
\* and may end a login.
LEMMA LoginsKept ==
  ASSUME PasskeyInv,
         \A c \in Credential : passkeys'[c] \in {passkeys[c], NoRow},
         \A r \in Request : verifying'[r].pc = "update" => verifying'[r] = verifying[r],
         \A a \in Response, n \in 1..MaxRows : AcceptedAs(a, n)' => AcceptedAs(a, n),
         UNCHANGED overlapped
  PROVE  CounterKeepsUp' /\ OneUpdate' /\ UpdatesAdvance' /\ StaleUpdatesFirst'
<1>. USE DEF PasskeyInv
<1>1. \A c \in Credential, n \in 1..MaxRows : IsRow(c, n)' => IsRow(c, n) /\ passkeys'[c] = passkeys[c]
  BY DEF IsRow, Registered
<1>2. \A r \in Request, c \in Credential :
         Updating(r, c)' => Updating(r, c) /\ verifying'[r] = verifying[r]
  BY DEF Updating
<1>3. \A c : AnswersOf(c)' = AnswersOf(c)
  BY DEF AnswersOf
<1>4. CounterKeepsUp'
  BY <1>1, <1>3 DEF CounterKeepsUp
<1>5. OneUpdate'
  BY <1>2 DEF OneUpdate
<1>6. \A c \in Credential, r \in Request : Updating(r, c) => verifying[r].row \in 1..MaxRows
  <2>1. rowSerial \in 0..MaxRows
    BY DEF PasskeyTypeOK
  <2>. QED
    BY <2>1, BoundAssumption DEF Updating, FlowsSound
<1>7. UpdatesAdvance'
  <2>1. ASSUME NEW c \in Credential \ overlapped, NEW r \in Request, Updating(r, c)'
        PROVE  (/\ IsRow(c, verifying[r].row) => Advances(verifying[r].answer.count, passkeys[c].counter)
                /\ \A a \in AnswersOf(c) : AcceptedAs(a, verifying[r].row) =>
                      verifying[r].answer.count = 0 \/ a.count < verifying[r].answer.count)'
    <3>1. PICK n \in 1..MaxRows : n = verifying[r].row /\ verifying'[r] = verifying[r] /\ Updating(r, c)
      BY <1>2, <1>6, <2>1
    <3>2. /\ IsRow(c, n) => Advances(verifying[r].answer.count, passkeys[c].counter)
          /\ \A a \in AnswersOf(c) : AcceptedAs(a, n) =>
                verifying[r].answer.count = 0 \/ a.count < verifying[r].answer.count
      BY <3>1 DEF UpdatesAdvance
    <3>3. AnswersOf(c) \subseteq Response
      BY DEF AnswersOf
    <3>4. IsRow(c, n)' => Advances(verifying[r].answer.count, passkeys[c].counter)'
      BY <1>1, <3>1, <3>2 DEF Advances
    <3>5. \A a \in AnswersOf(c) : AcceptedAs(a, n)' =>
             verifying[r].answer.count = 0 \/ a.count < verifying[r].answer.count
      BY <3>2, <3>3
    <3>. QED
      BY <1>3, <3>1, <3>4, <3>5
  <2>. QED
    BY <2>1 DEF UpdatesAdvance
<1>8. StaleUpdatesFirst'
  <2>1. ASSUME NEW c \in Credential \ overlapped, NEW r \in Request, NEW a \in Response,
               Updating(r, c)', Registered(c)', passkeys'[c].id # verifying'[r].row, a \in AnswersOf(c)
        PROVE  ~AcceptedAs(a, passkeys[c].id)'
    <3>1. passkeys'[c] = passkeys[c] /\ Registered(c)
      BY <2>1 DEF Registered
    <3>2. PICK n \in 1..MaxRows : n = passkeys[c].id
      BY <3>1, RowFields
    <3>3. ~AcceptedAs(a, n)
      BY <1>2, <2>1, <3>1, <3>2 DEF StaleUpdatesFirst
    <3>. QED
      BY <3>1, <3>2, <3>3
  <2>. QED
    BY <1>3, <2>1 DEF StaleUpdatesFirst
<1>. QED
  BY <1>4, <1>5, <1>7, <1>8

LEMMA Moved ==
  ASSUME PasskeyTypeOK, NEW r \in Request, NEW f \in Flow, Step(r, f)
  PROVE  /\ verifying' \in [Request -> Flow]
         /\ \A s \in Request : verifying'[s] = IF s = r THEN f ELSE verifying[s]
BY DEF PasskeyTypeOK, Step

\* A step of a flow that neither begins nor ends a login, and creates no row.
LEMMA OtherFlows ==
  ASSUME PasskeyInv, NEW r \in Request, NEW f \in Flow, Step(r, f),
         verifying[r].pc \notin {"update", "complete"}, f.pc \notin {"update", "complete"},
         f.pc \in {"register", "login"} => f.answer \in Response,
         f.pc \in {"register", "remove", "cleanup", "dropUser"} => f.user \in User,
         f.pc = "remove" =>
            /\ f.row \in 1..rowSerial
            /\ \A c \in Credential : IsRow(c, f.row) => f.user = passkeys[c].user,
         \A c \in Credential : passkeys'[c] \in {passkeys[c], NoRow},
         UNCHANGED <<rowSerial, overlapped, used, usedTwice>>
  PROVE  /\ FlowsSound' /\ RowsSound'
         /\ CounterKeepsUp' /\ OneUpdate' /\ UpdatesAdvance' /\ StaleUpdatesFirst'
         /\ CompletesOnce' /\ OneSignInPerAnswer'
<1>. USE DEF PasskeyInv
<1>1. \A s \in Request : verifying'[s] = IF s = r THEN f ELSE verifying[s]
  BY Moved
<1>2. \A a \in Response, n \in 1..MaxRows : AcceptedAs(a, n)' => AcceptedAs(a, n)
  BY <1>1 DEF AcceptedAs
<1>3. CounterKeepsUp' /\ OneUpdate' /\ UpdatesAdvance' /\ StaleUpdatesFirst'
  BY <1>1, <1>2, LoginsKept
<1>4. FlowsSound'
  BY <1>1 DEF FlowsSound
<1>5. RowsSound'
  <2>1. \A c \in Credential : Registered(c)' => Registered(c) /\ passkeys'[c] = passkeys[c]
    BY DEF Registered
  <2>2. \A s \in Request, c \in Credential :
           verifying'[s].pc = "remove" /\ Registered(c) /\ passkeys[c].id = verifying'[s].row =>
              verifying'[s].user = passkeys[c].user
    BY <1>1 DEF RowsSound, IsRow
  <2>. QED
    BY <2>1, <2>2 DEF RowsSound, IsRow
<1>6. CompletesOnce'
  BY <1>1 DEF CompletesOnce, AnswersOf
<1>7. OneSignInPerAnswer'
  BY DEF OneSignInPerAnswer
<1>. QED
  BY <1>3, <1>4, <1>5, <1>6, <1>7

\* Nothing but the browser and the authenticators move.
LEMMA BrowserSteps ==
  ASSUME PasskeyInv,
         UNCHANGED <<counting, accounts, passkeys, rowSerial, verifying, overlapped, used, usedTwice>>
  PROVE  /\ FlowsSound' /\ RowsSound'
         /\ CounterKeepsUp' /\ OneUpdate' /\ UpdatesAdvance' /\ StaleUpdatesFirst'
         /\ CompletesOnce' /\ OneSignInPerAnswer'
<1>1. \A c \in Credential : passkeys'[c] = passkeys[c]
  OBVIOUS
<1>2. \A a \in Response, n \in 1..MaxRows : AcceptedAs(a, n)' => AcceptedAs(a, n)
  BY DEF AcceptedAs
<1>3. CounterKeepsUp' /\ OneUpdate' /\ UpdatesAdvance' /\ StaleUpdatesFirst'
  BY <1>1, <1>2, LoginsKept
<1>4. FlowsSound' /\ RowsSound' /\ CompletesOnce' /\ OneSignInPerAnswer'
  BY DEF PasskeyInv, FlowsSound, RowsSound, CompletesOnce, AnswersOf, OneSignInPerAnswer, IsRow, Registered
<1>. QED
  BY <1>3, <1>4

LEMMA SwitchSessionStep == ASSUME PasskeyInv, SwitchSession PROVE PasskeyInv'
<1>1. /\ session' \in accounts \cup {Nil}
      /\ UNCHANGED <<counting, accounts, passkeys, rowSerial, signatures, cookie, issued, tabs, verifying,
                     overlapped, used, usedTwice>>
  BY DEF SwitchSession, KeepHistory
<1>2. PasskeyTypeOK'
  BY <1>1 DEF PasskeyInv, PasskeyTypeOK, Registered
<1>. QED
  BY <1>1, <1>2, BrowserSteps DEF PasskeyInv

LEMMA OptionsStep ==
  ASSUME PasskeyInv, NEW t \in Tab, NEW kind \in {"register", "login"}, Options(t, kind)
  PROVE  PasskeyInv'
<1>1. PICK ch \in Challenge :
         /\ cookie' = ch /\ issued' = issued \cup {ch}
         /\ tabs' = [tabs EXCEPT ![t] = [kind |-> kind, challenge |-> ch]]
         /\ UNCHANGED <<counting, accounts, passkeys, rowSerial, signatures, session, verifying,
                        overlapped, used, usedTwice>>
  BY DEF Options, KeepHistory
<1>2. PasskeyTypeOK'
  <2>1. [kind |-> kind, challenge |-> ch] \in Ceremony
    BY DEF Ceremony
  <2>2. tabs' \in [Tab -> Ceremony \cup Response \cup {Nil}]
    BY <1>1, <2>1 DEF PasskeyInv, PasskeyTypeOK
  <2>. QED
    BY <1>1, <2>2 DEF PasskeyInv, PasskeyTypeOK, Registered
<1>. QED
  BY <1>1, <1>2, BrowserSteps DEF PasskeyInv

LEMMA SignStep ==
  ASSUME PasskeyInv, NEW t \in Tab, NEW c \in Credential, Sign(t, c)
  PROVE  PasskeyInv'
<1>1. PICK n \in Count :
         /\ signatures' = [signatures EXCEPT ![c] = n]
         /\ tabs' = [tabs EXCEPT ![t] = [kind |-> tabs[t].kind, credential |-> c,
                                         challenge |-> tabs[t].challenge, count |-> n]]
         /\ UNCHANGED <<counting, accounts, passkeys, rowSerial, session, cookie, issued, verifying,
                        overlapped, used, usedTwice>>
  <2>1. signatures[c] \in Count /\ (c \in counting => signatures[c] < MaxCount)
    BY DEF Sign, PasskeyInv, PasskeyTypeOK
  <2>2. PICK n \in Count : n = IF c \in counting THEN signatures[c] + 1 ELSE 0
    BY <2>1, BoundAssumption DEF Count
  <2>. QED
    BY <2>2 DEF Sign, KeepHistory
<1>2. PasskeyTypeOK'
  <2>1. tabs[t] \in Ceremony
    BY DEF Sign
  <2>2. tabs[t].kind \in {"register", "login"} /\ tabs[t].challenge \in Challenge
    BY <2>1 DEF Ceremony
  <2>3. [kind |-> tabs[t].kind, credential |-> c, challenge |-> tabs[t].challenge, count |-> n] \in Response
    BY <2>2 DEF Response
  <2>4. tabs' \in [Tab -> Ceremony \cup Response \cup {Nil}]
    BY <1>1, <2>3 DEF PasskeyInv, PasskeyTypeOK
  <2>5. signatures' \in [Credential -> Count]
    BY <1>1 DEF PasskeyInv, PasskeyTypeOK
  <2>. QED
    BY <1>1, <2>4, <2>5 DEF PasskeyInv, PasskeyTypeOK, Registered
<1>. QED
  BY <1>1, <1>2, BrowserSteps DEF PasskeyInv

LEMMA PostStep ==
  ASSUME PasskeyInv, NEW r \in Request, NEW t \in Tab, Post(r, t)
  PROVE  PasskeyInv'
<1>1. PICK a \in Response : a = tabs[t] /\ (a.kind = "register" => session # Nil)
  BY DEF Post
<1>2. a.kind \in {"register", "login"}
  BY DEF Response
<1>3. PICK u \in User \cup {Nil} :
         u = (IF a.kind = "register" THEN session ELSE Nil) /\ (a.kind = "register" => u \in User)
  <2>1. session \in accounts \cup {Nil} /\ accounts \subseteq User
    BY DEF PasskeyInv, PasskeyTypeOK
  <2>2. a.kind = "register" => session \in User
    BY <1>1, <2>1
  <2>. QED
    BY <2>2
<1>4. [Rest EXCEPT !.pc = a.kind, !.answer = a, !.user = u] \in Flow
  <2>1. PICK w \in Flow : w = Rest
    BY RestIsFlow
  <2>2. [w EXCEPT !.pc = a.kind, !.answer = a, !.user = u] \in Flow
    BY <1>2 DEF Flow
  <2>. QED
    BY <2>1, <2>2
<1>5. PICK f \in Flow : f = [Rest EXCEPT !.pc = a.kind, !.answer = a, !.user = u]
  BY <1>4
<1>6. f.pc = a.kind /\ f.answer = a /\ f.user = u
  BY <1>5 DEF Rest
<1>7. /\ Step(r, f) /\ verifying[r] = Rest
      /\ UNCHANGED <<counting, accounts, passkeys, rowSerial, signatures, session, cookie, issued, tabs,
                     overlapped, used, usedTwice>>
  BY <1>1, <1>3, <1>5 DEF Post, KeepHistory
<1>8. PasskeyTypeOK'
  BY <1>7, Moved DEF PasskeyInv, PasskeyTypeOK, Registered
<1>9. \A c \in Credential : passkeys'[c] = passkeys[c]
  BY <1>7
<1>. QED
  BY <1>2, <1>3, <1>6, <1>7, <1>8, <1>9, RestIsFlow, OtherFlows DEF PasskeyInv

LEMMA RestStep ==
  ASSUME PasskeyInv, NEW r \in Request, Step(r, Rest), verifying[r].pc \notin {"update", "complete"},
         \A c \in Credential : passkeys'[c] \in {passkeys[c], NoRow},
         UNCHANGED <<rowSerial, overlapped, used, usedTwice>>
  PROVE  /\ FlowsSound' /\ RowsSound'
         /\ CounterKeepsUp' /\ OneUpdate' /\ UpdatesAdvance' /\ StaleUpdatesFirst'
         /\ CompletesOnce' /\ OneSignInPerAnswer'
BY RestIsFlow, OtherFlows

\* Rows go, of a user or not.
LEMMA FewerRows ==
  ASSUME PasskeyTypeOK, passkeys' \in [Credential -> PasskeyRow \cup {NoRow}],
         \A c \in Credential : passkeys'[c] \in {passkeys[c], NoRow}
  PROVE  \A c \in Credential : Registered(c)' => Registered(c) /\ passkeys'[c] = passkeys[c]
BY DEF Registered

LEMMA DeleteStep ==
  ASSUME PasskeyInv, NEW r \in Request, NEW c \in Credential, Delete(r, c)
  PROVE  PasskeyInv'
<1>1. PICK u \in User, n \in 1..MaxRows : u = passkeys[c].user /\ n = passkeys[c].id
  BY RowFields DEF Delete, PasskeyInv
<1>2. Registered(c) /\ session = u /\ verifying[r] = Rest
  BY <1>1 DEF Delete
<1>3. [Rest EXCEPT !.pc = "remove", !.user = u, !.row = n, !.answer = Nil] \in Flow
  <2>1. PICK w \in Flow, m \in 0..MaxRows : w = Rest /\ m = n
    BY RestIsFlow, BoundAssumption
  <2>2. [w EXCEPT !.pc = "remove", !.user = u, !.row = m, !.answer = Nil] \in Flow
    BY DEF Flow
  <2>. QED
    BY <2>1, <2>2
<1>4. PICK f \in Flow : f = [Rest EXCEPT !.pc = "remove", !.user = u, !.row = n, !.answer = Nil]
  BY <1>3
<1>5. f.pc = "remove" /\ f.user = u /\ f.row = n
  BY <1>4 DEF Rest
<1>6. /\ Step(r, f)
      /\ UNCHANGED <<counting, accounts, passkeys, rowSerial, signatures, session, cookie, issued, tabs,
                     overlapped, used, usedTwice>>
  BY <1>1, <1>2, <1>4 DEF Delete, KeepHistory
<1>7. PasskeyTypeOK'
  BY <1>6, Moved DEF PasskeyInv, PasskeyTypeOK, Registered
<1>8. n \in 1..rowSerial /\ \A d \in Credential : IsRow(d, n) => u = passkeys[d].user
  <2>1. rowSerial \in 0..MaxRows /\ n <= rowSerial
    BY <1>1, <1>2 DEF PasskeyInv, PasskeyTypeOK, RowsSound
  <2>2. n \in 1..rowSerial
    BY <2>1, BoundAssumption
  <2>. QED
    BY <1>1, <1>2, <2>2 DEF PasskeyInv, RowsSound, IsRow
<1>9. \A d \in Credential : passkeys'[d] = passkeys[d]
  BY <1>6
<1>. QED
  BY <1>2, <1>5, <1>6, <1>7, <1>8, <1>9, RestIsFlow, OtherFlows DEF PasskeyInv

LEMMA DropPasskeyStep ==
  ASSUME PasskeyInv, NEW r \in Request, DropPasskey(r)
  PROVE  PasskeyInv'
<1>1. /\ verifying[r].pc = "remove" /\ Step(r, Rest)
      /\ passkeys' = WithoutRow(verifying[r].row)
      /\ UNCHANGED <<counting, accounts, rowSerial, signatures, session, cookie, issued, tabs,
                     overlapped, used, usedTwice>>
  BY DEF DropPasskey, KeepHistory
<1>2. /\ passkeys' \in [Credential -> PasskeyRow \cup {NoRow}]
      /\ \A c \in Credential : passkeys'[c] \in {passkeys[c], NoRow}
  BY <1>1 DEF WithoutRow, PasskeyInv, PasskeyTypeOK
<1>3. PasskeyTypeOK'
  BY <1>1, <1>2, RestIsFlow, Moved, FewerRows DEF PasskeyInv, PasskeyTypeOK
<1>. QED
  BY <1>1, <1>2, <1>3, RestStep DEF PasskeyInv

LEMMA BeginDeleteUserStep ==
  ASSUME PasskeyInv, NEW r \in Request, NEW u \in User, BeginDeleteUser(r, u)
  PROVE  PasskeyInv'
<1>1. [Rest EXCEPT !.pc = "cleanup", !.user = u] \in Flow
  <2>1. PICK w \in Flow : w = Rest
    BY RestIsFlow
  <2>2. [w EXCEPT !.pc = "cleanup", !.user = u] \in Flow
    BY DEF Flow
  <2>. QED
    BY <2>1, <2>2
<1>2. PICK f \in Flow : f = [Rest EXCEPT !.pc = "cleanup", !.user = u]
  BY <1>1
<1>3. f.pc = "cleanup" /\ f.user = u
  BY <1>2 DEF Rest
<1>4. /\ Step(r, f) /\ verifying[r] = Rest
      /\ UNCHANGED <<counting, accounts, passkeys, rowSerial, signatures, session, cookie, issued, tabs,
                     overlapped, used, usedTwice>>
  BY <1>2 DEF BeginDeleteUser, KeepHistory
<1>5. PasskeyTypeOK'
  BY <1>4, Moved DEF PasskeyInv, PasskeyTypeOK, Registered
<1>6. \A c \in Credential : passkeys'[c] = passkeys[c]
  BY <1>4
<1>. QED
  BY <1>3, <1>4, <1>5, <1>6, RestIsFlow, OtherFlows DEF PasskeyInv

LEMMA CleanupStep ==
  ASSUME PasskeyInv, NEW r \in Request, Cleanup(r)
  PROVE  PasskeyInv'
<1>1. PICK w \in Flow : w = verifying[r] /\ w.pc = "cleanup" /\ w.user \in User
  BY DEF Cleanup, PasskeyInv, PasskeyTypeOK, FlowsSound
<1>2. [w EXCEPT !.pc = "dropUser"] \in Flow
  BY DEF Flow
<1>3. PICK f \in Flow : f = [w EXCEPT !.pc = "dropUser"]
  BY <1>2
<1>4. f.pc = "dropUser" /\ f.user = w.user
  BY <1>3 DEF Flow
<1>5. /\ Step(r, f)
      /\ UNCHANGED <<counting, accounts, rowSerial, signatures, session, cookie, issued, tabs,
                     overlapped, used, usedTwice>>
  BY <1>1, <1>3 DEF Cleanup, KeepHistory
<1>6. PICK gone \in SUBSET Credential :
         passkeys' = [c \in Credential |-> IF c \in gone THEN NoRow ELSE passkeys[c]]
  BY DEF Cleanup
<1>7. /\ passkeys' \in [Credential -> PasskeyRow \cup {NoRow}]
      /\ \A c \in Credential : passkeys'[c] \in {passkeys[c], NoRow}
  BY <1>6 DEF PasskeyInv, PasskeyTypeOK
<1>8. PasskeyTypeOK'
  BY <1>5, <1>7, Moved, FewerRows DEF PasskeyInv, PasskeyTypeOK
<1>. QED
  BY <1>1, <1>4, <1>5, <1>7, <1>8, OtherFlows DEF PasskeyInv

LEMMA DropUserStep ==
  ASSUME PasskeyInv, NEW r \in Request, DropUser(r)
  PROVE  PasskeyInv'
<1>1. PICK u \in User : u = verifying[r].user
  BY DEF DropUser, PasskeyInv, FlowsSound
<1>2. /\ verifying[r].pc = "dropUser" /\ Step(r, Rest)
      /\ accounts' = accounts \ {u} /\ passkeys' = WithoutUser(u)
      /\ session' = IF session = u THEN Nil ELSE session
      /\ UNCHANGED <<counting, rowSerial, signatures, cookie, issued, tabs, overlapped, used, usedTwice>>
  BY <1>1 DEF DropUser, KeepHistory
<1>3. /\ passkeys' \in [Credential -> PasskeyRow \cup {NoRow}]
      /\ \A c \in Credential : passkeys'[c] = IF Registered(c) /\ passkeys[c].user = u THEN NoRow ELSE passkeys[c]
  BY <1>2 DEF WithoutUser, PasskeyInv, PasskeyTypeOK
<1>4. PasskeyTypeOK'
  <2>1. \A c \in Credential : Registered(c)' => passkeys'[c].user \in accounts'
    BY <1>2, <1>3 DEF Registered, PasskeyInv, PasskeyTypeOK
  <2>2. session' \in accounts' \cup {Nil} /\ accounts' \subseteq User
    BY <1>2 DEF PasskeyInv, PasskeyTypeOK
  <2>. QED
    BY <1>2, <1>3, <2>1, <2>2, RestIsFlow, Moved DEF PasskeyInv, PasskeyTypeOK
<1>. QED
  BY <1>2, <1>3, <1>4, RestStep DEF PasskeyInv

\* A row that was never there before: nothing was accepted for it.
LEMMA CreatePasskeyStep ==
  ASSUME PasskeyInv, NEW r \in Request, CreatePasskey(r)
  PROVE  PasskeyInv'
<1>. USE DEF PasskeyInv
<1>1. PICK a \in Response, u \in User : a = verifying[r].answer /\ u = verifying[r].user
  BY DEF CreatePasskey, FlowsSound
<1>2. PICK c \in Credential : c = a.credential /\ a.count \in Count
  BY DEF Response
<1>3. /\ verifying[r].pc = "register" /\ Step(r, Rest)
      /\ UNCHANGED <<counting, accounts, signatures, session, issued, tabs, overlapped, used, usedTwice>>
      /\ cookie' \in issued \cup {Nil}
  BY DEF CreatePasskey, KeepHistory, PasskeyTypeOK
<1>4. \A s \in Request : verifying'[s] = IF s = r THEN Rest ELSE verifying[s]
  BY <1>3, RestIsFlow, Moved
<1>5. CASE UNCHANGED <<rowSerial, passkeys>>
  <2>1. PasskeyTypeOK'
    BY <1>3, <1>5, RestIsFlow, Moved DEF PasskeyTypeOK, Registered
  <2>2. \A d \in Credential : passkeys'[d] = passkeys[d]
    BY <1>5
  <2>. QED
    BY <1>3, <1>5, <2>1, <2>2, RestStep
<1>6. CASE /\ ~Registered(c) /\ u \in accounts /\ rowSerial < MaxRows
           /\ rowSerial' = rowSerial + 1
           /\ passkeys' = [passkeys EXCEPT ![c] = [id |-> rowSerial + 1, user |-> u, counter |-> a.count]]
  <2>1. PICK n \in 1..MaxRows : n = rowSerial + 1 /\ rowSerial \in 0..MaxRows /\ rowSerial' = n
    BY <1>6, BoundAssumption DEF PasskeyTypeOK
  <2>2. [id |-> n, user |-> u, counter |-> a.count] \in PasskeyRow
    BY <1>2 DEF PasskeyRow
  <2>3. PICK row \in PasskeyRow : row = [id |-> n, user |-> u, counter |-> a.count]
    BY <2>2
  <2>4. row.id = n /\ row.user = u /\ row.counter = a.count /\ row # NoRow
    BY <2>3, NoRowAssumption
  <2>5. /\ passkeys' \in [Credential -> PasskeyRow \cup {NoRow}]
        /\ \A d \in Credential : passkeys'[d] = IF d = c THEN row ELSE passkeys[d]
    BY <1>6, <2>1, <2>3 DEF PasskeyTypeOK
  <2>6. \A d \in Credential : Registered(d)' = (d = c \/ Registered(d))
    BY <2>4, <2>5 DEF Registered
  <2>7. PasskeyTypeOK'
    <3>1. \A d \in Credential : Registered(d)' => passkeys'[d].user \in accounts'
      BY <1>3, <1>6, <2>4, <2>5, <2>6 DEF PasskeyTypeOK
    <3>2. verifying' \in [Request -> Flow]
      BY <1>3, RestIsFlow, Moved
    <3>3. rowSerial' \in 0..MaxRows
      BY <2>1, BoundAssumption
    <3>. QED
      BY <1>3, <2>5, <3>1, <3>2, <3>3 DEF PasskeyTypeOK
  <2>8. \A d \in Credential, m \in Nat : IsRow(d, m)' <=> (IF d = c THEN m = n ELSE IsRow(d, m))
    BY <2>4, <2>5, <2>6 DEF IsRow
  <2>9. /\ \A b, m : AcceptedAs(b, m)' <=> AcceptedAs(b, m)
        /\ \A b : ~AcceptedAs(b, n)
    <3>1. \A b, m : AcceptedAs(b, m)' <=> AcceptedAs(b, m)
      BY <1>3, <1>4, RestIsFlow DEF AcceptedAs
    <3>2. \A use \in used : use[2] # n
      BY <2>1 DEF RowsSound, PasskeyTypeOK
    <3>3. \A s \in Request : verifying[s].pc \in {"update", "complete", "remove"} => verifying[s].row # n
      BY <2>1 DEF FlowsSound
    <3>. QED
      BY <3>1, <3>2, <3>3 DEF AcceptedAs
  <2>10. \A s \in Request, d \in Credential :
            Updating(s, d)' => Updating(s, d) /\ verifying'[s] = verifying[s] /\ verifying[s].row \in 1..rowSerial
    BY <1>4, RestIsFlow DEF Updating, FlowsSound
  <2>11. FlowsSound'
    BY <1>4, <2>1, RestIsFlow DEF FlowsSound
  <2>12. RowsSound'
    <3>. DEFINE Old(d) == d # c /\ Registered(d)
    <3>1. \A d \in Credential : Old(d) => passkeys'[d] = passkeys[d] /\ passkeys[d].id \in 1..MaxRows /\ passkeys[d].id < n
      BY <2>1, <2>5, RowFields DEF RowsSound
    <3>2. \A d \in Credential : Registered(d)' <=> d = c \/ Old(d)
      BY <2>6
    <3>3. passkeys'[c].id = n
      BY <2>4, <2>5
    <3>4. \A d, e \in Credential : Old(d) /\ Old(e) /\ passkeys[d].id = passkeys[e].id => d = e
      BY DEF RowsSound
    <3>5. \A d \in Credential : Registered(d)' => passkeys'[d].id \in Nat /\ passkeys'[d].id <= rowSerial'
      BY <2>1, <3>1, <3>2, <3>3
    <3>6. \A d, e \in Credential : Registered(d)' /\ Registered(e)' /\ passkeys'[d].id = passkeys'[e].id => d = e
      BY <2>1, <3>1, <3>2, <3>3, <3>4
    <3>7. \A use \in used' : use[2] <= rowSerial'
      BY <1>3, <2>1 DEF RowsSound, PasskeyTypeOK
    <3>8. ASSUME NEW s \in Request, NEW d \in Credential, verifying'[s].pc = "remove",
                 Registered(d)', passkeys'[d].id = verifying'[s].row
          PROVE  verifying'[s].user = passkeys'[d].user
      <4>1. verifying'[s] = verifying[s] /\ verifying[s].row \in 1..rowSerial
        BY <1>4, <3>8, RestIsFlow DEF FlowsSound
      <4>2. d # c
        BY <2>1, <2>4, <2>5, <3>8, <4>1
      <4>. QED
        BY <2>5, <2>6, <3>8, <4>1, <4>2 DEF RowsSound, IsRow
    <3>. QED
      BY <3>5, <3>6, <3>7, <3>8 DEF RowsSound, IsRow
  <2>13. CounterKeepsUp'
    <3>1. ASSUME NEW d \in Credential \ overlapped, NEW b \in Response, NEW m \in 1..MaxRows,
                 b \in AnswersOf(d), AcceptedAs(b, m)', IsRow(d, m)'
          PROVE  b.count <= passkeys'[d].counter
      <4>1. AcceptedAs(b, m) /\ d # c
        BY <2>8, <2>9, <3>1
      <4>. QED
        BY <2>5, <2>8, <3>1, <4>1 DEF CounterKeepsUp
    <3>. QED
      BY <1>3, <3>1 DEF CounterKeepsUp, AnswersOf
  <2>14. OneUpdate'
    BY <1>3, <2>10 DEF OneUpdate
  <2>15. UpdatesAdvance'
    <3>1. ASSUME NEW d \in Credential \ overlapped, NEW s \in Request, Updating(s, d)'
          PROVE  (/\ IsRow(d, verifying[s].row) => Advances(verifying[s].answer.count, passkeys[d].counter)
                  /\ \A b \in AnswersOf(d) : AcceptedAs(b, verifying[s].row) =>
                        verifying[s].answer.count = 0 \/ b.count < verifying[s].answer.count)'
      <4>1. PICK m \in 1..rowSerial : m = verifying[s].row /\ verifying'[s] = verifying[s] /\ Updating(s, d)
        BY <2>10, <3>1
      <4>2. /\ IsRow(d, m) => Advances(verifying[s].answer.count, passkeys[d].counter)
            /\ \A b \in AnswersOf(d) : AcceptedAs(b, m) =>
                  verifying[s].answer.count = 0 \/ b.count < verifying[s].answer.count
        BY <4>1 DEF UpdatesAdvance
      <4>3. IsRow(d, m)' => IsRow(d, m) /\ passkeys'[d] = passkeys[d]
        BY <2>1, <2>5, <2>8
      <4>4. IsRow(d, m)' => Advances(verifying[s].answer.count, passkeys[d].counter)'
        BY <4>1, <4>2, <4>3 DEF Advances
      <4>5. AnswersOf(d)' = AnswersOf(d)
        BY DEF AnswersOf
      <4>. QED
        BY <2>9, <4>1, <4>2, <4>4, <4>5
    <3>. QED
      BY <1>3, <3>1 DEF UpdatesAdvance
  <2>16. StaleUpdatesFirst'
    <3>1. ASSUME NEW d \in Credential \ overlapped, NEW s \in Request, NEW b \in Response,
                 Updating(s, d)', Registered(d)', passkeys'[d].id # verifying'[s].row, b \in AnswersOf(d)
          PROVE  ~AcceptedAs(b, passkeys[d].id)'
      <4>1. CASE d = c
        BY <2>4, <2>5, <2>9, <4>1
      <4>2. CASE d # c
        <5>1. passkeys'[d] = passkeys[d] /\ Registered(d) /\ Updating(s, d) /\ verifying'[s] = verifying[s]
          BY <2>5, <2>6, <2>10, <3>1, <4>2
        <5>2. ~AcceptedAs(b, passkeys[d].id)
          BY <3>1, <5>1 DEF StaleUpdatesFirst
        <5>. QED
          BY <2>9, <5>1, <5>2
      <4>. QED
        BY <4>1, <4>2
    <3>. QED
      BY <1>3, <3>1 DEF StaleUpdatesFirst, AnswersOf
  <2>17. CompletesOnce' /\ OneSignInPerAnswer'
    BY <1>3, <1>4, RestIsFlow DEF CompletesOnce, AnswersOf, OneSignInPerAnswer
  <2>. QED
    BY <2>7, <2>11, <2>12, <2>13, <2>14, <2>15, <2>16, <2>17
<1>. QED
  BY <1>1, <1>2, <1>5, <1>6 DEF CreatePasskey

\* A login that has read the row: what was accepted for it is older.
LEMMA LoginVerifyStep ==
  ASSUME PasskeyInv, NEW r \in Request, LoginVerify(r)
  PROVE  PasskeyInv'
<1>. USE DEF PasskeyInv
<1>1. PICK a \in Response : a = verifying[r].answer
  BY DEF LoginVerify, FlowsSound
<1>2. PICK c \in Credential : c = a.credential /\ a.count \in Count
  BY DEF Response
<1>3. /\ verifying[r].pc = "login"
      /\ UNCHANGED <<counting, accounts, passkeys, rowSerial, signatures, session, cookie, issued, tabs,
                     used, usedTwice>>
  BY DEF LoginVerify
<1>4. CASE Step(r, Rest) /\ UNCHANGED overlapped
  <2>1. PasskeyTypeOK'
    BY <1>3, <1>4, RestIsFlow, Moved DEF PasskeyTypeOK, Registered
  <2>2. \A d \in Credential : passkeys'[d] = passkeys[d]
    BY <1>3
  <2>. QED
    BY <1>3, <1>4, <2>1, <2>2, RestStep
<1>5. CASE /\ Registered(c) /\ Advances(a.count, passkeys[c].counter)
           /\ Step(r, [pc |-> "update", user |-> passkeys[c].user, answer |-> a, row |-> passkeys[c].id])
           /\ overlapped' =
                 IF \E s \in Request : verifying[s].pc = "update" /\ verifying[s].answer.credential = c
                 THEN overlapped \cup {c} ELSE overlapped
  <2>1. PICK n \in 1..MaxRows, u \in User : n = passkeys[c].id /\ u = passkeys[c].user /\ IsRow(c, n)
    BY <1>5, RowFields DEF IsRow
  <2>2. n \in 0..MaxRows /\ n \in 1..rowSerial
    BY <1>5, <2>1, BoundAssumption DEF RowsSound, PasskeyTypeOK
  <2>3. [pc |-> "update", user |-> u, answer |-> a, row |-> n] \in Flow
    BY <2>2 DEF Flow
  <2>4. PICK f \in Flow : f = [pc |-> "update", user |-> u, answer |-> a, row |-> n]
    BY <2>3
  <2>5. f.pc = "update" /\ f.user = u /\ f.answer = a /\ f.row = n /\ Step(r, f)
    BY <1>5, <2>1, <2>4
  <2>6. \A s \in Request : verifying'[s] = IF s = r THEN f ELSE verifying[s]
    BY <2>5, Moved
  <2>7. PasskeyTypeOK'
    <3>1. overlapped' \subseteq Credential
      BY <1>5 DEF PasskeyTypeOK
    <3>2. verifying' \in [Request -> Flow]
      BY <2>5, Moved
    <3>. QED
      BY <1>3, <3>1, <3>2 DEF PasskeyTypeOK, Registered
  <2>8. \A d \in Credential, s \in Request :
           Updating(s, d)' <=> IF s = r THEN d = c ELSE Updating(s, d)
    BY <1>2, <2>5, <2>6 DEF Updating
  <2>9. \A b, m : AcceptedAs(b, m)' <=> AcceptedAs(b, m)
    BY <1>3, <2>5, <2>6 DEF AcceptedAs
  <2>10. /\ \A d, m : IsRow(d, m)' <=> IsRow(d, m)
         /\ \A d : Registered(d)' <=> Registered(d)
         /\ \A d : AnswersOf(d)' = AnswersOf(d)
    BY <1>3 DEF IsRow, Registered, AnswersOf
  <2>11. /\ overlapped \subseteq overlapped'
         /\ c \notin overlapped' => \A s \in Request : ~Updating(s, c)
    BY <1>5 DEF Updating
  <2>12. FlowsSound'
    BY <1>3, <2>2, <2>5, <2>6 DEF FlowsSound
  <2>13. RowsSound'
    <3>1. \A s \in Request : verifying'[s].pc = "remove" => verifying'[s] = verifying[s]
      BY <2>5, <2>6
    <3>. QED
      BY <1>3, <3>1 DEF RowsSound, IsRow, Registered
  <2>14. CounterKeepsUp'
    BY <1>3, <2>9, <2>10, <2>11 DEF CounterKeepsUp
  <2>15. OneUpdate'
    BY <2>8, <2>11 DEF OneUpdate
  <2>16. UpdatesAdvance'
    <3>1. ASSUME NEW d \in Credential \ overlapped', NEW s \in Request, Updating(s, d)'
          PROVE  (/\ IsRow(d, verifying[s].row) => Advances(verifying[s].answer.count, passkeys[d].counter)
                  /\ \A b \in AnswersOf(d) : AcceptedAs(b, verifying[s].row) =>
                        verifying[s].answer.count = 0 \/ b.count < verifying[s].answer.count)'
      <4>1. CASE s = r
        <5>1. d = c /\ verifying'[r].row = n /\ verifying'[r].answer = a
          BY <2>5, <2>6, <2>8, <3>1, <4>1
        <5>2. Advances(a.count, passkeys'[c].counter)
          BY <1>3, <1>5
        <5>3. ASSUME NEW b \in AnswersOf(c), AcceptedAs(b, n)
              PROVE  a.count = 0 \/ b.count < a.count
          <6>1. b \in Response /\ b.count \in Count /\ passkeys[c].counter \in Count /\ c \notin overlapped
            BY <1>5, <2>11, <3>1, <5>1, RowFields DEF AnswersOf, Response
          <6>2. b.count <= passkeys[c].counter
            BY <2>1, <5>3, <6>1 DEF CounterKeepsUp
          <6>. QED
            BY <1>2, <1>5, <6>1, <6>2, BoundAssumption DEF Advances, Count
        <5>. QED
          BY <2>9, <2>10, <4>1, <5>1, <5>2, <5>3 DEF Advances
      <4>2. CASE s # r
        <5>1. Updating(s, d) /\ verifying'[s] = verifying[s] /\ d \notin overlapped
          BY <2>6, <2>8, <2>11, <3>1, <4>2
        <5>2. /\ IsRow(d, verifying[s].row) => Advances(verifying[s].answer.count, passkeys[d].counter)
              /\ \A b \in AnswersOf(d) : AcceptedAs(b, verifying[s].row) =>
                    verifying[s].answer.count = 0 \/ b.count < verifying[s].answer.count
          BY <5>1 DEF UpdatesAdvance
        <5>3. PICK m : m = verifying[s].row
          OBVIOUS
        <5>. QED
          BY <1>3, <2>9, <2>10, <5>1, <5>2, <5>3 DEF Advances
      <4>. QED
        BY <4>1, <4>2
    <3>. QED
      BY <3>1 DEF UpdatesAdvance
  <2>17. StaleUpdatesFirst'
    <3>1. ASSUME NEW d \in Credential \ overlapped', NEW s \in Request, NEW b \in Response,
                 Updating(s, d)', Registered(d), passkeys[d].id # verifying'[s].row, b \in AnswersOf(d)
          PROVE  ~AcceptedAs(b, passkeys[d].id)
      <4>1. s # r
        BY <2>1, <2>5, <2>6, <2>8, <3>1
      <4>2. Updating(s, d) /\ verifying'[s] = verifying[s] /\ d \notin overlapped
        BY <2>6, <2>8, <2>11, <3>1, <4>1
      <4>. QED
        BY <3>1, <4>2 DEF StaleUpdatesFirst
    <3>. QED
      BY <1>3, <2>9, <2>10, <3>1 DEF StaleUpdatesFirst
  <2>18. CompletesOnce'
    BY <1>3, <2>5, <2>6, <2>10, <2>11 DEF CompletesOnce
  <2>19. OneSignInPerAnswer'
    BY <1>3, <2>11 DEF OneSignInPerAnswer
  <2>. QED
    BY <2>7, <2>12, <2>13, <2>14, <2>15, <2>16, <2>17, <2>18, <2>19
<1>. QED
  BY <1>1, <1>2, <1>4, <1>5 DEF LoginVerify

\* The counter is written, and the answer counts as accepted from here.
LEMMA UpdateCounterStep ==
  ASSUME PasskeyInv, NEW r \in Request, UpdateCounter(r)
  PROVE  PasskeyInv'
<1>. USE DEF PasskeyInv
<1>1. PICK w \in Flow, a \in Response, u \in User, n \in 1..rowSerial :
         w = verifying[r] /\ w.pc = "update" /\ w.answer = a /\ w.user = u /\ w.row = n
  BY DEF UpdateCounter, FlowsSound, PasskeyTypeOK
<1>2. PICK c \in Credential : c = a.credential /\ a.count \in Count
  BY DEF Response
<1>3. /\ passkeys' = CounterStored(c, a.count)
      /\ Step(r, [w EXCEPT !.pc = "complete"])
      /\ UNCHANGED <<counting, accounts, rowSerial, signatures, session, cookie, issued, tabs,
                     overlapped, used, usedTwice>>
  BY <1>1, <1>2 DEF UpdateCounter, KeepHistory
<1>4. [w EXCEPT !.pc = "complete"] \in Flow
  BY DEF Flow
<1>5. PICK f \in Flow : f = [w EXCEPT !.pc = "complete"]
  BY <1>4
<1>6. f.pc = "complete" /\ f.answer = a /\ f.user = u /\ f.row = n
  BY <1>1, <1>5 DEF Flow
<1>7. /\ verifying' \in [Request -> Flow]
      /\ \A s \in Request : verifying'[s] = IF s = r THEN f ELSE verifying[s]
  BY <1>3, <1>5, Moved
<1>8. /\ passkeys' \in [Credential -> PasskeyRow \cup {NoRow}]
      /\ \A d \in Credential : d # c => passkeys'[d] = passkeys[d]
      /\ Registered(c) => /\ passkeys'[c].id = passkeys[c].id /\ passkeys'[c].user = passkeys[c].user
                          /\ passkeys'[c].counter = a.count
      /\ \A d \in Credential : Registered(d)' <=> Registered(d)
  <2>1. CASE ~Registered(c)
    <3>1. passkeys' = passkeys
      BY <1>3, <2>1 DEF CounterStored
    <3>. QED
      BY <2>1, <3>1 DEF PasskeyTypeOK, Registered
  <2>2. CASE Registered(c)
    <3>1. PICK row \in PasskeyRow : row = passkeys[c]
      BY <2>2, RowFields
    <3>2. [row EXCEPT !.counter = a.count] \in PasskeyRow
      BY <1>2 DEF PasskeyRow
    <3>3. PICK new \in PasskeyRow : new = [row EXCEPT !.counter = a.count]
      BY <3>2
    <3>4. new.id = row.id /\ new.user = row.user /\ new.counter = a.count /\ new # NoRow
      BY <3>3, NoRowAssumption DEF PasskeyRow
    <3>5. passkeys' = [passkeys EXCEPT ![c] = new]
      BY <1>3, <2>2, <3>1, <3>3 DEF CounterStored
    <3>6. /\ passkeys' \in [Credential -> PasskeyRow \cup {NoRow}]
          /\ \A d \in Credential : passkeys'[d] = IF d = c THEN new ELSE passkeys[d]
      BY <3>5 DEF PasskeyTypeOK
    <3>. QED
      BY <2>2, <3>1, <3>4, <3>6 DEF Registered
  <2>. QED
    BY <2>1, <2>2
<1>9. PasskeyTypeOK'
  <2>1. \A d \in Credential : Registered(d)' => passkeys'[d].user \in accounts'
    BY <1>3, <1>8 DEF PasskeyTypeOK
  <2>. QED
    BY <1>3, <1>7, <1>8, <2>1 DEF PasskeyTypeOK
<1>10. n \in 1..MaxRows /\ n \in 1..rowSerial
  BY BoundAssumption DEF PasskeyTypeOK
<1>11. \A d \in Credential, m \in Nat : IsRow(d, m)' <=> IsRow(d, m)
  BY <1>8 DEF IsRow
<1>12. \A b, m : AcceptedAs(b, m)' <=> AcceptedAs(b, m) \/ (b = a /\ m = n)
  <2>1. verifying[r].pc # "complete"
    BY <1>1
  <2>. QED
    BY <1>3, <1>6, <1>7, <2>1 DEF AcceptedAs
<1>13. \A d \in Credential, s \in Request :
          Updating(s, d)' <=> s # r /\ Updating(s, d)
  BY <1>6, <1>7 DEF Updating
<1>14. Updating(r, c)
  BY <1>1, <1>2 DEF Updating
<1>15. c \notin overlapped => \A s \in Request : ~Updating(s, c)'
  BY <1>13, <1>14 DEF OneUpdate
<1>16. \A d : AnswersOf(d)' = AnswersOf(d)
  BY DEF AnswersOf
\* What was accepted for the row of this login is older.
<1>17. ASSUME c \notin overlapped, NEW b \in AnswersOf(c), AcceptedAs(b, n)
       PROVE  a.count = 0 \/ b.count < a.count
  BY <1>1, <1>14, <1>17 DEF UpdatesAdvance
<1>18. FlowsSound'
  BY <1>3, <1>6, <1>7, <1>10 DEF FlowsSound
<1>19. RowsSound'
  <2>1. \A d \in Credential : Registered(d)' =>
           Registered(d) /\ passkeys'[d].id = passkeys[d].id /\ passkeys'[d].user = passkeys[d].user
    BY <1>8
  <2>2. \A s \in Request : verifying'[s].pc = "remove" => verifying'[s] = verifying[s]
    BY <1>6, <1>7
  <2>. QED
    BY <1>3, <2>1, <2>2 DEF RowsSound, IsRow
<1>20. CounterKeepsUp'
  <2>1. ASSUME NEW d \in Credential \ overlapped, NEW b \in Response, NEW m \in 1..MaxRows,
               b \in AnswersOf(d), AcceptedAs(b, m)', IsRow(d, m)
        PROVE  b.count <= passkeys'[d].counter
    <3>1. CASE d # c
      <4>1. AcceptedAs(b, m)
        BY <1>2, <1>12, <2>1, <3>1 DEF AnswersOf
      <4>. QED
        BY <1>8, <2>1, <3>1, <4>1 DEF CounterKeepsUp
    <3>2. CASE d = c /\ m = n
      <4>1. /\ passkeys'[c].counter = a.count /\ passkeys[c].counter \in Count
            /\ b.count \in Count /\ b.count > 0 /\ Advances(a.count, passkeys[c].counter)
        BY <1>1, <1>8, <1>14, <2>1, <3>2, RowFields DEF IsRow, AnswersOf, Response, UpdatesAdvance
      <4>2. CASE b = a
        BY <3>2, <4>1, <4>2, BoundAssumption DEF Count
      <4>3. CASE AcceptedAs(b, m)
        <5>1. b.count <= passkeys[c].counter
          BY <2>1, <3>2, <4>3 DEF CounterKeepsUp
        <5>. QED
          BY <1>2, <3>2, <4>1, <5>1, BoundAssumption DEF Advances, Count
      <4>. QED
        BY <1>12, <2>1, <4>2, <4>3
    <3>3. CASE d = c /\ m # n
      <4>1. AcceptedAs(b, m)
        BY <1>12, <2>1, <3>3
      <4>2. Registered(c) /\ passkeys[c].id = m
        BY <2>1, <3>3 DEF IsRow
      <4>. QED
        BY <1>1, <1>14, <2>1, <3>3, <4>1, <4>2 DEF StaleUpdatesFirst
    <3>. QED
      BY <3>1, <3>2, <3>3
  <2>2. \A d \in Credential, m \in 1..MaxRows : IsRow(d, m)' => IsRow(d, m)
    BY <1>11
  <2>. QED
    BY <1>3, <1>16, <2>1, <2>2 DEF CounterKeepsUp
<1>21. OneUpdate'
  BY <1>3, <1>13 DEF OneUpdate
<1>22. UpdatesAdvance'
  <2>1. ASSUME NEW d \in Credential \ overlapped, NEW s \in Request, Updating(s, d)'
        PROVE  (/\ IsRow(d, verifying[s].row) => Advances(verifying[s].answer.count, passkeys[d].counter)
                /\ \A b \in AnswersOf(d) : AcceptedAs(b, verifying[s].row) =>
                      verifying[s].answer.count = 0 \/ b.count < verifying[s].answer.count)'
    <3>1. d # c /\ Updating(s, d) /\ s # r /\ verifying'[s] = verifying[s]
      BY <1>7, <1>13, <1>15, <2>1
    <3>2. /\ IsRow(d, verifying[s].row) => Advances(verifying[s].answer.count, passkeys[d].counter)
          /\ \A b \in AnswersOf(d) : AcceptedAs(b, verifying[s].row) =>
                verifying[s].answer.count = 0 \/ b.count < verifying[s].answer.count
      BY <3>1 DEF UpdatesAdvance
    <3>3. PICK m \in Nat : m = verifying[s].row
      BY <3>1 DEF Updating, FlowsSound
    <3>4. \A b \in AnswersOf(d) : AcceptedAs(b, m)' => AcceptedAs(b, m)
      BY <1>2, <1>12, <3>1 DEF AnswersOf
    <3>5. passkeys'[d] = passkeys[d]
      BY <1>8, <3>1
    <3>. QED
      BY <1>11, <1>16, <3>1, <3>2, <3>3, <3>4, <3>5 DEF Advances
  <2>. QED
    BY <1>3, <2>1 DEF UpdatesAdvance
<1>23. StaleUpdatesFirst'
  <2>1. ASSUME NEW d \in Credential \ overlapped, NEW s \in Request, NEW b \in Response,
               Updating(s, d)', Registered(d), passkeys[d].id # verifying'[s].row, b \in AnswersOf(d)
        PROVE  ~AcceptedAs(b, passkeys[d].id)'
    <3>1. d # c /\ Updating(s, d) /\ s # r /\ verifying'[s] = verifying[s]
      BY <1>7, <1>13, <1>15, <2>1
    <3>2. ~AcceptedAs(b, passkeys[d].id) /\ passkeys'[d] = passkeys[d]
      BY <1>8, <2>1, <3>1 DEF StaleUpdatesFirst
    <3>3. b # a
      BY <1>2, <2>1, <3>1 DEF AnswersOf
    <3>. QED
      BY <1>12, <3>2, <3>3
  <2>2. \A d \in Credential : Registered(d)' => Registered(d) /\ passkeys'[d].id = passkeys[d].id
    BY <1>8
  <2>. QED
    BY <1>3, <1>16, <2>1, <2>2 DEF StaleUpdatesFirst
<1>24. CompletesOnce'
  <2>1. ASSUME c \notin overlapped, a \in AnswersOf(c)
        PROVE  ~AcceptedAs(a, n)
    <3>1. a.count > 0 /\ a.count \in Nat
      BY <1>2, <2>1, BoundAssumption DEF AnswersOf, Count
    <3>. QED
      BY <1>17, <2>1, <3>1
  <2>2. ASSUME NEW d \in Credential \ overlapped, NEW s \in Request, NEW t \in Request,
               verifying'[s].pc = "complete", verifying'[s].answer \in AnswersOf(d)
        PROVE  /\ <<verifying'[s].answer, verifying'[s].row>> \notin used
               /\ verifying'[t].pc = "complete" /\ verifying'[t].answer = verifying'[s].answer
                  /\ verifying'[t].row = verifying'[s].row => t = s
    <3>1. CASE s = r
      <4>1. verifying'[s].answer = a /\ verifying'[s].row = n /\ d = c
        BY <1>2, <1>6, <1>7, <2>2, <3>1 DEF AnswersOf
      <4>2. ~AcceptedAs(a, n)
        BY <2>1, <2>2, <4>1
      <4>. QED
        BY <1>7, <3>1, <4>1, <4>2 DEF AcceptedAs
    <3>2. CASE s # r
      <4>1. verifying'[s] = verifying[s]
        BY <1>7, <3>2
      <4>2. /\ <<verifying[s].answer, verifying[s].row>> \notin used
            /\ verifying[t].pc = "complete" /\ verifying[t].answer = verifying[s].answer
               /\ verifying[t].row = verifying[s].row => t = s
        BY <2>2, <4>1 DEF CompletesOnce
      <4>3. CASE t # r
        BY <1>7, <4>1, <4>2, <4>3
      <4>4. CASE t = r /\ verifying[s].answer = a /\ verifying[s].row = n
        <5>1. d = c
          BY <1>2, <2>2, <4>1, <4>4 DEF AnswersOf
        <5>2. AcceptedAs(a, n)
          BY <2>2, <4>1, <4>4 DEF AcceptedAs
        <5>. QED
          BY <2>1, <2>2, <4>1, <4>4, <5>1, <5>2
      <4>5. CASE t = r /\ ~(verifying[s].answer = a /\ verifying[s].row = n)
        BY <1>6, <1>7, <4>1, <4>2, <4>5
      <4>. QED
        BY <4>3, <4>4, <4>5
    <3>. QED
      BY <3>1, <3>2
  <2>. QED
    BY <1>3, <1>16, <2>2 DEF CompletesOnce
<1>25. OneSignInPerAnswer'
  BY <1>3 DEF OneSignInPerAnswer
<1>. QED
  BY <1>9, <1>18, <1>19, <1>20, <1>21, <1>22, <1>23, <1>24, <1>25

LEMMA CompleteLoginStep ==
  ASSUME PasskeyInv, NEW r \in Request, CompleteLogin(r)
  PROVE  PasskeyInv'
<1>. USE DEF PasskeyInv
<1>1. PICK a \in Response, u \in User, n \in 1..rowSerial :
         /\ verifying[r].pc = "complete" /\ verifying[r].answer = a /\ verifying[r].user = u
         /\ verifying[r].row = n
  BY DEF CompleteLogin, FlowsSound
<1>2. PICK c \in Credential : c = a.credential /\ a.count \in Count
  BY DEF Response
<1>3. /\ Step(r, Rest)
      /\ UNCHANGED <<counting, accounts, passkeys, rowSerial, signatures, issued, tabs, overlapped>>
  BY DEF CompleteLogin
<1>4. \/ UNCHANGED <<used, usedTwice>>
      \/ /\ used' = used \cup {<<a, n>>}
         /\ usedTwice' = IF <<a, n>> \in used THEN usedTwice \cup {<<a, n>>} ELSE usedTwice
  BY <1>1 DEF CompleteLogin
<1>5. session' \in accounts \cup {Nil} /\ cookie' \in issued \cup {Nil}
  BY <1>1 DEF CompleteLogin, PasskeyTypeOK
<1>6. \A s \in Request : verifying'[s] = IF s = r THEN Rest ELSE verifying[s]
  BY <1>3, RestIsFlow, Moved
<1>7. n \in 1..MaxRows /\ <<a, n>> \in Response \X (1..MaxRows)
  <2>1. n \in 1..MaxRows
    BY BoundAssumption DEF PasskeyTypeOK
  <2>. QED
    BY <2>1
<1>8. PasskeyTypeOK'
  <2>1. usedTwice' \subseteq used' /\ used' \subseteq Response \X (1..MaxRows)
    BY <1>4, <1>7 DEF PasskeyTypeOK
  <2>2. verifying' \in [Request -> Flow]
    BY <1>3, RestIsFlow, Moved
  <2>. QED
    BY <1>3, <1>5, <2>1, <2>2 DEF PasskeyTypeOK, Registered
<1>9. \A b \in Response, m \in 1..MaxRows : AcceptedAs(b, m)' => AcceptedAs(b, m)
  <2>1. ASSUME NEW b, NEW m, <<b, m>> \in used', <<b, m>> \notin used
        PROVE  b = a /\ m = n
    BY <1>4, <2>1
  <2>. QED
    BY <1>1, <1>6, <2>1, RestIsFlow DEF AcceptedAs
<1>10. CounterKeepsUp' /\ OneUpdate' /\ UpdatesAdvance' /\ StaleUpdatesFirst'
  <2>1. \A d \in Credential : passkeys'[d] \in {passkeys[d], NoRow}
    BY <1>3
  <2>2. \A s \in Request : verifying'[s].pc = "update" => verifying'[s] = verifying[s]
    BY <1>6, RestIsFlow
  <2>. QED
    BY <1>3, <1>9, <2>1, <2>2, LoginsKept
<1>11. FlowsSound'
  BY <1>3, <1>6, RestIsFlow DEF FlowsSound
<1>12. RowsSound'
  <2>1. \A use \in used' : use[2] <= rowSerial
    BY <1>4 DEF RowsSound, PasskeyTypeOK
  <2>2. \A s \in Request : verifying'[s].pc = "remove" => verifying'[s] = verifying[s]
    BY <1>6, RestIsFlow
  <2>. QED
    BY <1>3, <2>1, <2>2 DEF RowsSound, IsRow, Registered
<1>13. CompletesOnce'
  <2>1. ASSUME NEW d \in Credential \ overlapped, NEW s \in Request, NEW t \in Request,
               verifying'[s].pc = "complete", verifying'[s].answer \in AnswersOf(d)
        PROVE  /\ <<verifying'[s].answer, verifying'[s].row>> \notin used'
               /\ verifying'[t].pc = "complete" /\ verifying'[t].answer = verifying'[s].answer
                  /\ verifying'[t].row = verifying'[s].row => t = s
    <3>1. s # r /\ verifying'[s] = verifying[s]
      BY <1>6, <2>1, RestIsFlow
    <3>2. /\ <<verifying[s].answer, verifying[s].row>> \notin used
          /\ ~(verifying[s].answer = a /\ verifying[s].row = n)
          /\ verifying[t].pc = "complete" /\ verifying[t].answer = verifying[s].answer
             /\ verifying[t].row = verifying[s].row => t = s
      BY <1>1, <2>1, <3>1 DEF CompletesOnce
    <3>3. verifying'[t].pc = "complete" => verifying'[t] = verifying[t]
      BY <1>6, RestIsFlow
    <3>. QED
      BY <1>4, <3>1, <3>2, <3>3
  <2>2. \A d : AnswersOf(d)' = AnswersOf(d)
    BY DEF AnswersOf
  <2>. QED
    BY <1>3, <2>1, <2>2 DEF CompletesOnce
<1>14. OneSignInPerAnswer'
  <2>1. CASE UNCHANGED usedTwice
    BY <1>3, <2>1 DEF OneSignInPerAnswer
  <2>2. CASE usedTwice' = usedTwice \cup {<<a, n>>} /\ <<a, n>> \in used
    <3>1. a.count = 0 \/ c \in overlapped
      <4>1. SUFFICES ASSUME a.count # 0, c \notin overlapped PROVE FALSE
        OBVIOUS
      <4>2. a \in AnswersOf(c)
        BY <1>2, <4>1, BoundAssumption DEF AnswersOf, Count
      <4>. QED
        BY <1>1, <2>2, <4>1, <4>2 DEF CompletesOnce
    <3>. QED
      BY <1>2, <1>3, <2>2, <3>1 DEF OneSignInPerAnswer
  <2>. QED
    BY <1>4, <2>1, <2>2
<1>. QED
  BY <1>8, <1>10, <1>11, <1>12, <1>13, <1>14

LEMMA PasskeyNextInv ==
  ASSUME PasskeyInv, [PasskeyNext]_passkeyVars
  PROVE  PasskeyInv'
<1>1. CASE UNCHANGED passkeyVars
  <2>1. UNCHANGED <<counting, accounts, passkeys, rowSerial, signatures, session, cookie, issued, tabs,
                    verifying, overlapped, used, usedTwice>>
    BY <1>1 DEF passkeyVars
  <2>2. PasskeyTypeOK'
    BY <2>1 DEF PasskeyInv, PasskeyTypeOK, Registered
  <2>. QED
    BY <2>1, <2>2, BrowserSteps DEF PasskeyInv
<1>. QED
  BY <1>1, SwitchSessionStep, OptionsStep, SignStep, PostStep, CreatePasskeyStep, LoginVerifyStep,
     UpdateCounterStep, CompleteLoginStep, DropPasskeyStep, CleanupStep, DropUserStep, DeleteStep,
     BeginDeleteUserStep
     DEF PasskeyNext

\* A step that leaves the row of a credential as it is.
LEMMA RowStays ==
  ASSUME PasskeyInv, NEW c \in Credential, passkeys'[c] = passkeys[c]
  PROVE  CounterWithinRace(c) /\ GoneByOwner(c)
<1>1. Registered(c) => passkeys[c].counter \in Nat
  BY RowFields, BoundAssumption DEF PasskeyInv, Count
<1>2. passkeys'[c] # NoRow <=> Registered(c)
  BY DEF Registered
<1>. QED
  BY <1>1, <1>2 DEF CounterWithinRace, GoneByOwner

\* A flow that drops rows of its user.
LEMMA RowGoes ==
  ASSUME PasskeyInv, NEW c \in Credential, passkeys'[c] = NoRow, NEW r \in Request,
         Registered(c) => verifying[r].user = passkeys[c].user,
         verifying'[r] # verifying[r]
  PROVE  CounterWithinRace(c) /\ GoneByOwner(c)
BY DEF CounterWithinRace, GoneByOwner

LEMMA RowsKeptByStep ==
  ASSUME PasskeyInv, [PasskeyNext]_passkeyVars, NEW c \in Credential
  PROVE  CounterWithinRace(c) /\ GoneByOwner(c)
<1>. USE DEF PasskeyInv
<1>1. CASE passkeys' = passkeys
  BY <1>1, RowStays
<1>2. ASSUME NEW r \in Request, CreatePasskey(r), passkeys' # passkeys
      PROVE  CounterWithinRace(c) /\ GoneByOwner(c)
  <2>1. PICK d \in Credential : d = verifying[r].answer.credential
    BY <1>2 DEF CreatePasskey, FlowsSound, Response
  <2>2. ~Registered(d) /\ \E row : passkeys' = [passkeys EXCEPT ![d] = row]
    BY <1>2, <2>1 DEF CreatePasskey
  <2>3. CASE c = d
    BY <2>2, <2>3 DEF CounterWithinRace, GoneByOwner
  <2>4. CASE c # d
    BY <2>2, <2>4, RowStays DEF PasskeyTypeOK
  <2>. QED
    BY <2>3, <2>4
<1>3. ASSUME NEW r \in Request, UpdateCounter(r)
      PROVE  CounterWithinRace(c) /\ GoneByOwner(c)
  <2>1. PICK a \in Response : a = verifying[r].answer /\ verifying[r].pc = "update"
    BY <1>3 DEF UpdateCounter, FlowsSound
  <2>2. PICK d \in Credential : d = a.credential /\ a.count \in Count
    BY DEF Response
  <2>3. passkeys' = CounterStored(d, a.count) /\ verifying'[r].pc = "complete"
    <3>1. PICK w \in Flow : w = verifying[r]
      BY DEF PasskeyTypeOK
    <3>2. verifying' = [verifying EXCEPT ![r] = [w EXCEPT !.pc = "complete"]]
      BY <1>3, <3>1 DEF UpdateCounter, Step
    <3>3. [w EXCEPT !.pc = "complete"].pc = "complete"
      BY DEF Flow
    <3>4. verifying'[r] = [w EXCEPT !.pc = "complete"]
      BY <3>2 DEF PasskeyTypeOK
    <3>. QED
      BY <1>3, <2>1, <2>2, <3>3, <3>4 DEF UpdateCounter
  <2>4. CASE c # d \/ ~Registered(d)
    <3>1. passkeys'[c] = passkeys[c]
      BY <2>3, <2>4 DEF CounterStored, PasskeyTypeOK
    <3>. QED
      BY <3>1, RowStays
  <2>5. CASE c = d /\ Registered(d)
    <3>1. PICK row \in PasskeyRow : row = passkeys[c]
      BY <2>5, RowFields
    <3>2. [row EXCEPT !.counter = a.count] \in PasskeyRow
      BY <2>2 DEF PasskeyRow
    <3>3. PICK new \in PasskeyRow : new = [row EXCEPT !.counter = a.count]
      BY <3>2
    <3>4. new.counter = a.count /\ new # NoRow /\ row.counter \in Count
      BY <3>3, NoRowAssumption DEF PasskeyRow
    <3>5. passkeys'[c] = new
      BY <2>3, <2>5, <3>1, <3>3 DEF CounterStored, PasskeyTypeOK
    <3>6. Updating(r, c) /\ verifying'[r] # verifying[r]
      BY <2>1, <2>2, <2>3, <2>5 DEF Updating
    <3>7. CASE c \notin overlapped /\ verifying[r].row = passkeys[c].id
      <4>1. Advances(a.count, row.counter)
        BY <2>1, <2>5, <3>1, <3>6, <3>7 DEF UpdatesAdvance, IsRow
      <4>2. a.count >= row.counter
        BY <2>2, <3>4, <4>1, BoundAssumption DEF Advances, Count
      <4>. QED
        BY <3>1, <3>4, <3>5, <4>2 DEF CounterWithinRace, GoneByOwner
    <3>8. CASE c \in overlapped \/ verifying[r].row # passkeys[c].id
      BY <3>4, <3>5, <3>6, <3>8 DEF CounterWithinRace, GoneByOwner, Updating
    <3>. QED
      BY <3>7, <3>8
  <2>. QED
    BY <2>4, <2>5
<1>4. ASSUME NEW r \in Request, DropPasskey(r) \/ Cleanup(r) \/ DropUser(r)
      PROVE  CounterWithinRace(c) /\ GoneByOwner(c)
  <2>1. verifying'[r] # verifying[r]
    <3>1. CASE DropPasskey(r) \/ DropUser(r)
      <4>1. verifying[r].pc # "idle" /\ Step(r, Rest)
        BY <3>1 DEF DropPasskey, DropUser
      <4>. QED
        BY <4>1, RestIsFlow, Moved
    <3>2. CASE Cleanup(r)
      <4>1. PICK w \in Flow : w = verifying[r] /\ w.pc = "cleanup"
        BY <3>2 DEF Cleanup, PasskeyTypeOK
      <4>2. Step(r, [w EXCEPT !.pc = "dropUser"])
        BY <3>2, <4>1 DEF Cleanup
      <4>3. [w EXCEPT !.pc = "dropUser"].pc = "dropUser" /\ [w EXCEPT !.pc = "dropUser"] \in Flow
        BY DEF Flow
      <4>. QED
        BY <4>1, <4>2, <4>3, Moved
    <3>. QED
      BY <1>4, <3>1, <3>2
  <2>2. \/ passkeys'[c] = passkeys[c]
        \/ /\ passkeys'[c] = NoRow
           /\ Registered(c) => verifying[r].user = passkeys[c].user
    <3>1. CASE DropPasskey(r)
      <4>1. verifying[r].pc = "remove" /\ passkeys' = WithoutRow(verifying[r].row)
        BY <3>1 DEF DropPasskey
      <4>2. passkeys'[c] = IF Registered(c) /\ passkeys[c].id = verifying[r].row THEN NoRow ELSE passkeys[c]
        BY <4>1 DEF WithoutRow
      <4>3. Registered(c) /\ passkeys[c].id = verifying[r].row => verifying[r].user = passkeys[c].user
        BY <4>1 DEF RowsSound, IsRow
      <4>. QED
        BY <4>2, <4>3 DEF Registered
    <3>2. CASE Cleanup(r)
      <4>1. PICK gone \in SUBSET {d \in Credential : Registered(d) /\ passkeys[d].user = verifying[r].user} :
               passkeys' = [d \in Credential |-> IF d \in gone THEN NoRow ELSE passkeys[d]]
        BY <3>2 DEF Cleanup
      <4>2. passkeys'[c] = IF c \in gone THEN NoRow ELSE passkeys[c]
        BY <4>1
      <4>. QED
        BY <4>1, <4>2
    <3>3. CASE DropUser(r)
      <4>1. passkeys' = WithoutUser(verifying[r].user)
        BY <3>3 DEF DropUser
      <4>2. passkeys'[c] =
               IF Registered(c) /\ passkeys[c].user = verifying[r].user THEN NoRow ELSE passkeys[c]
        BY <4>1 DEF WithoutUser
      <4>. QED
        BY <4>2
    <3>. QED
      BY <1>4, <3>1, <3>2, <3>3
  <2>. QED
    BY <2>1, <2>2, RowStays, RowGoes
<1>. QED
  BY <1>1, <1>2, <1>3, <1>4
     DEF PasskeyNext, passkeyVars, SwitchSession, Options, Sign, Post, LoginVerify, CompleteLogin,
         Delete, BeginDeleteUser

\* What the passkeys promise.
LEMMA PasskeySpecOneSignIn == PasskeySpec => [](PasskeyTypeOK /\ OneSignInPerAnswer)
<1>1. PasskeyInv => PasskeyTypeOK /\ OneSignInPerAnswer
  BY DEF PasskeyInv
<1>. QED
  BY <1>1, PasskeyInitInv, PasskeyNextInv, PTL DEF PasskeySpec

\* A stored counter goes back by the two races named only, for any number of users,
\* credentials, ceremonies and signatures (plugin-passkey/src/index.ts:391-415).
THEOREM PasskeySpecCounterBackByRace == PasskeySpec => CounterBackByRace
<1>1. PasskeyInv /\ [PasskeyNext]_passkeyVars =>
         [ \A c \in Credential : CounterWithinRace(c) ]_passkeyVars
  BY RowsKeptByStep
<1>. QED
  BY <1>1, PasskeyInitInv, PasskeyNextInv, PTL DEF PasskeySpec, CounterBackByRace

LEMMA PasskeySpecGoesByOwner == PasskeySpec => GoesByOwner
<1>1. PasskeyInv /\ [PasskeyNext]_passkeyVars =>
         [ \A c \in Credential : GoneByOwner(c) ]_passkeyVars
  BY RowsKeptByStep
<1>. QED
  BY <1>1, PasskeyInitInv, PasskeyNextInv, PTL DEF PasskeySpec, GoesByOwner

-----------------------------------------------------------------------------
(* Rate limiters.  The bucket is the end of the list of all that was       *)
(* accepted, so it is enough that what was cut off counts no more.         *)

InOrder == \A i, j \in DOMAIN accepted : i < j => accepted[i] <= accepted[j]

CutOffOutdated == \A i \in 1..(Len(accepted) - Len(bucket)) : ~Within(accepted[i])

PromisedAfterOldest ==
    promised # Nil => bucket # <<>> /\ promised >= bucket[1] + Window

LimiterInv ==
    LimiterTypeOK /\ InOrder /\ CutOffOutdated /\ PromisedAfterOldest /\ AtMostLimitPerWindow

USE LimiterAssumption

LEMMA Stamps ==
  ASSUME LimiterTypeOK
  PROVE  /\ Len(accepted) \in Nat /\ Len(bucket) \in Nat /\ clock \in Nat
         /\ DOMAIN accepted = 1..Len(accepted) /\ DOMAIN bucket = 1..Len(bucket)
         /\ \A i \in 1..Len(accepted) : accepted[i] \in 0..clock
         /\ \A i \in 1..Len(bucket) : bucket[i] \in 0..clock
  BY LenProperties DEF LimiterTypeOK

LEMMA OutdatedIs ==
  ASSUME LimiterTypeOK
  PROVE  /\ Outdated \in 0..Len(bucket)
         /\ \A i \in 1..Outdated : ~Within(bucket[i])
         /\ Outdated < Len(bucket) => Within(bucket[Outdated + 1])
<1>. DEFINE T == {n \in 0..Len(bucket) : n < Len(bucket) => Within(bucket[n + 1])}
<1>1. Len(bucket) \in Nat
  BY Stamps
<1>2. T \subseteq Nat /\ Len(bucket) \in T
  BY <1>1
<1>3. PICK n \in T : \A m \in T : n <= m
  <2>. HIDE DEF T
  <2>. QED
    BY <1>2, LeastNatural
<1>4. \A i \in 1..n : ~Within(bucket[i])
  <2>1. ASSUME NEW i \in 1..n, Within(bucket[i])
        PROVE  FALSE
    <3>1. i - 1 \in T
      BY <1>1, <1>3, <2>1
    <3>2. n <= i - 1
      BY <1>3, <3>1
    <3>. QED
      BY <1>2, <3>2
  <2>. QED
    BY <2>1
<1>5. \E m \in 0..Len(bucket) :
         /\ \A i \in 1..m : ~Within(bucket[i])
         /\ m < Len(bucket) => Within(bucket[m + 1])
  BY <1>3, <1>4
<1>. QED
  BY <1>5 DEF Outdated

LEMMA PrunedIs ==
  ASSUME LimiterTypeOK
  PROVE  /\ Pruned \in Seq(0..clock)
         /\ Len(Pruned) = Len(bucket) - Outdated
         /\ \A i \in 1..Len(Pruned) : Pruned[i] = bucket[Outdated + i]
<1>1. PICK n \in Nat : n = Outdated /\ n <= Len(bucket)
  BY Stamps, OutdatedIs
<1>2. \A i \in (n + 1)..Len(bucket) : bucket[i] \in 0..clock
  BY Stamps
<1>3. n + 1 \in Int /\ Len(bucket) \in Int
  BY Stamps
<1>4. /\ SubSeq(bucket, n + 1, Len(bucket)) \in Seq(0..clock)
      /\ Len(SubSeq(bucket, n + 1, Len(bucket))) =
            IF n + 1 <= Len(bucket) THEN Len(bucket) - (n + 1) + 1 ELSE 0
      /\ \A i \in 1..(Len(bucket) - (n + 1) + 1) :
            SubSeq(bucket, n + 1, Len(bucket))[i] = bucket[n + 1 + i - 1]
  BY <1>2, <1>3, SubSeqProperties
<1>. QED
  BY <1>1, <1>3, <1>4 DEF Pruned

LEMMA LimiterInitInv == LimiterInit => LimiterInv
<1>. SUFFICES ASSUME LimiterInit PROVE LimiterInv
  OBVIOUS
<1>1. /\ bucket \in Seq(0..clock) /\ accepted \in Seq(0..clock)
      /\ Len(bucket) = 0 /\ Len(accepted) = 0 /\ DOMAIN accepted = {}
  BY EmptySeq DEF LimiterInit
<1>2. LimiterTypeOK
  BY <1>1 DEF LimiterInit, LimiterTypeOK
<1>3. InOrder /\ CutOffOutdated /\ PromisedAfterOldest /\ AtMostLimitPerWindow
  BY <1>1 DEF LimiterInit, InOrder, CutOffOutdated, PromisedAfterOldest, AtMostLimitPerWindow
<1>. QED
  BY <1>2, <1>3 DEF LimiterInv

\* What was cut off so far, and what is cut off now.
LEMMA PrunedCutsOff ==
  ASSUME LimiterInv
  PROVE  /\ Len(Pruned) \in Nat /\ Len(Pruned) <= Len(bucket)
         /\ \A i \in 1..Len(Pruned) : Pruned[i] = accepted[Len(accepted) - Len(Pruned) + i]
         /\ \A i \in 1..(Len(accepted) - Len(Pruned)) : ~Within(accepted[i])
<1>. USE DEF LimiterInv
<1>1. PICK n \in Nat :
         /\ n <= Len(bucket) /\ Len(Pruned) = Len(bucket) - n
         /\ \A i \in 1..n : ~Within(bucket[i])
         /\ \A i \in 1..Len(Pruned) : Pruned[i] = bucket[n + i]
  <2>1. LimiterTypeOK
    OBVIOUS
  <2>2. Outdated \in Nat /\ Outdated <= Len(bucket)
    BY <2>1, Stamps, OutdatedIs
  <2>3. /\ Len(Pruned) = Len(bucket) - Outdated
        /\ \A i \in 1..Outdated : ~Within(bucket[i])
        /\ \A i \in 1..Len(Pruned) : Pruned[i] = bucket[Outdated + i]
    BY <2>1, OutdatedIs, PrunedIs
  <2>. QED
    BY <2>2, <2>3
<1>2. /\ Len(bucket) \in Nat /\ Len(accepted) \in Nat /\ Len(bucket) <= Len(accepted)
      /\ \A i \in 1..Len(bucket) : bucket[i] = accepted[Len(accepted) - Len(bucket) + i]
  BY Stamps DEF LimiterTypeOK
<1>3. ASSUME NEW i \in 1..Len(Pruned)
      PROVE  Pruned[i] = accepted[Len(accepted) - Len(Pruned) + i]
  <2>1. n + i \in 1..Len(bucket) /\ Len(accepted) - Len(bucket) + (n + i) = Len(accepted) - Len(Pruned) + i
    BY <1>1, <1>2
  <2>. QED
    BY <1>1, <1>2, <2>1
<1>4. ASSUME NEW i \in 1..(Len(accepted) - Len(Pruned))
      PROVE  ~Within(accepted[i])
  <2>1. CASE i \in 1..(Len(accepted) - Len(bucket))
    BY <2>1 DEF CutOffOutdated
  <2>2. CASE i \notin 1..(Len(accepted) - Len(bucket))
    <3>1. PICK j \in 1..n : i = Len(accepted) - Len(bucket) + j
      <4>. DEFINE j == i - (Len(accepted) - Len(bucket))
      <4>1. j \in 1..n /\ i = Len(accepted) - Len(bucket) + j
        BY <1>1, <1>2, <2>2
      <4>. QED
        BY <4>1
    <3>2. accepted[i] = bucket[j]
      BY <1>1, <1>2, <3>1
    <3>. QED
      BY <1>1, <3>2
  <2>. QED
    BY <2>1, <2>2
<1>. QED
  BY <1>1, <1>2, <1>3, <1>4

LEMMA AcceptStep ==
  ASSUME LimiterInv, Accept
  PROVE  LimiterInv'
<1>. USE DEF LimiterInv
<1>1. PICK m \in Nat :
         /\ m = Len(Pruned) /\ m < Limit /\ m <= Len(accepted)
         /\ \A i \in 1..m : Pruned[i] = accepted[Len(accepted) - m + i]
         /\ \A i \in 1..(Len(accepted) - m) : ~Within(accepted[i])
  <2>1. LimiterTypeOK
    OBVIOUS
  <2>2. Len(Pruned) \in Nat /\ Len(Pruned) <= Len(bucket) /\ Len(bucket) <= Len(accepted)
    BY PrunedCutsOff, <2>1 DEF LimiterTypeOK
  <2>3. Len(Pruned) < Limit
    BY <2>2 DEF Accept, Full
  <2>4. /\ Len(accepted) \in Nat
        /\ \A i \in 1..Len(Pruned) : Pruned[i] = accepted[Len(accepted) - Len(Pruned) + i]
        /\ \A i \in 1..(Len(accepted) - Len(Pruned)) : ~Within(accepted[i])
    BY <2>1, PrunedCutsOff, Stamps
  <2>5. Len(Pruned) <= Len(accepted)
    BY <2>2, <2>4, Stamps, <2>1
  <2>. QED
    BY <2>2, <2>3, <2>4, <2>5
<1>2. PICK n \in Nat : n = Len(accepted)
  BY Stamps
<1>3. /\ clock \in 0..clock /\ Pruned \in Seq(0..clock) /\ accepted \in Seq(0..clock)
      /\ UNCHANGED <<keepsEdge, clock>>
      /\ promised' = Nil /\ bucket' = Append(Pruned, clock) /\ accepted' = Append(accepted, clock)
  BY Stamps, PrunedIs DEF Accept, LimiterTypeOK
<1>4. /\ accepted' \in Seq(0..clock) /\ Len(accepted') = n + 1 /\ DOMAIN accepted' = 1..(n + 1)
      /\ \A i \in 1..n : accepted'[i] = accepted[i]
      /\ accepted'[n + 1] = clock
  BY <1>2, <1>3, AppendProperties, LenProperties
<1>5. /\ bucket' \in Seq(0..clock) /\ Len(bucket') = m + 1
      /\ \A i \in 1..m : bucket'[i] = Pruned[i]
      /\ bucket'[m + 1] = clock
  BY <1>1, <1>3, AppendProperties
<1>6. \A i \in 1..(m + 1) : bucket'[i] = accepted'[(n + 1) - (m + 1) + i]
  <2>1. ASSUME NEW i \in 1..m
        PROVE  bucket'[i] = accepted'[(n + 1) - (m + 1) + i]
    <3>1. (n + 1) - (m + 1) + i = n - m + i /\ n - m + i \in 1..n
      BY <1>1, <1>2
    <3>. QED
      BY <1>1, <1>2, <1>4, <1>5, <3>1
  <2>2. (n + 1) - (m + 1) + (m + 1) = n + 1 /\ \A i \in 1..(m + 1) : i \in 1..m \/ i = m + 1
    BY <1>1, <1>2
  <2>3. bucket'[m + 1] = accepted'[(n + 1) - (m + 1) + (m + 1)]
    BY <1>4, <1>5, <2>2
  <2>. QED
    BY <2>1, <2>2, <2>3
<1>7. LimiterTypeOK'
  <2>1. keepsEdge' \in BOOLEAN /\ clock' \in 0..MaxTime /\ clock' = clock
    BY <1>3 DEF LimiterTypeOK
  <2>2. accepted' \in Seq(0..clock') /\ bucket' \in Seq(0..clock')
    BY <1>4, <1>5, <2>1
  <2>3. Len(bucket') <= Len(accepted') /\ Len(bucket') <= Limit
    BY <1>1, <1>2, <1>4, <1>5
  <2>4. \A i \in 1..Len(bucket') : bucket'[i] = accepted'[Len(accepted') - Len(bucket') + i]
    BY <1>4, <1>5, <1>6
  <2>. QED
    BY <1>3, <2>1, <2>2, <2>3, <2>4 DEF LimiterTypeOK
<1>8. InOrder'
  <2>1. \A i \in 1..n : accepted[i] <= clock /\ accepted[i] \in Nat
    BY <1>2, Stamps
  <2>. QED
    BY <1>2, <1>3, <1>4, <2>1, Stamps DEF InOrder
<1>9. CutOffOutdated'
  <2>1. \A i \in 1..(n - m) : ~Within(accepted[i])'
    BY <1>1, <1>2, <1>3, <1>4 DEF Within
  <2>. QED
    BY <1>2, <1>4, <1>5, <2>1 DEF CutOffOutdated
<1>10. AtMostLimitPerWindow'
  <2>1. ASSUME NEW i \in 1..(n + 1), NEW j \in 1..(n + 1), i < j, accepted'[j] - accepted'[i] < Window
        PROVE  j - i < Limit
    <3>1. CASE j \in 1..n
      <4>1. i \in 1..n /\ accepted[j] - accepted[i] < Window
        BY <1>2, <1>4, <2>1, <3>1
      <4>2. i \in DOMAIN accepted /\ j \in DOMAIN accepted
        BY <1>2, <3>1, <4>1, Stamps
      <4>. QED
        BY <2>1, <4>1, <4>2 DEF AtMostLimitPerWindow
    <3>2. CASE j = n + 1
      <4>1. i \in 1..n /\ accepted[i] \in Nat /\ clock \in Nat /\ clock - accepted[i] < Window
        BY <1>2, <1>4, <2>1, <3>2, Stamps
      <4>2. Within(accepted[i])
        BY <4>1 DEF Within
      <4>3. ~(i \in 1..(n - m))
        BY <1>1, <1>2, <4>2
      <4>. QED
        BY <1>1, <1>2, <3>2, <4>1, <4>3
    <3>. QED
      BY <3>1, <3>2
  <2>. QED
    BY <1>4, <2>1 DEF AtMostLimitPerWindow
<1>. QED
  BY <1>3, <1>7, <1>8, <1>9, <1>10 DEF PromisedAfterOldest

\* Rounding up never announces too early.
LEMMA RetryAfterEnough ==
  ASSUME LimiterTypeOK, Pruned # <<>>, Pruned[1] \in Nat
  PROVE  /\ RetryAfter(Pruned) \in Nat
         /\ clock + RetryAfter(Pruned) * Second \in Nat
         /\ clock + RetryAfter(Pruned) * Second >= Pruned[1] + Window
<1>1. PICK now \in Nat : now = clock
  BY DEF LimiterTypeOK
<1>2. PICK oldest \in Nat : oldest = Pruned[1]
  OBVIOUS
<1>3. PICK seconds : seconds = (oldest + Window - now + Second - 1) \div Second
  OBVIOUS
<1>4. seconds \in Int /\ now + seconds * Second >= oldest + Window
  BY <1>3
<1>5. RetryAfter(Pruned) = IF seconds < 1 THEN 1 ELSE seconds
  BY <1>1, <1>2, <1>3 DEF RetryAfter
<1>6. CASE seconds < 1
  <2>1. seconds * Second <= 0
    BY <1>4, <1>6
  <2>2. RetryAfter(Pruned) = 1 /\ 1 * Second = Second
    BY <1>5, <1>6
  <2>3. now + Second >= oldest + Window
    BY <1>4, <2>1
  <2>. QED
    BY <1>1, <1>2, <2>2, <2>3
<1>7. CASE ~(seconds < 1)
  <2>1. seconds \in Nat /\ RetryAfter(Pruned) = seconds
    BY <1>4, <1>5, <1>7
  <2>2. seconds * Second \in Nat
    BY <2>1
  <2>. QED
    BY <1>1, <1>2, <1>4, <2>1, <2>2
<1>. QED
  BY <1>6, <1>7

LEMMA RefuseStep ==
  ASSUME LimiterInv, Refuse
  PROVE  LimiterInv'
<1>1. LimiterTypeOK
  BY DEF LimiterInv
<1>2. UNCHANGED <<keepsEdge, clock, accepted>> /\ bucket' = Pruned
  BY DEF Refuse
<1>3. PICK m \in Nat :
         /\ m = Len(Pruned) /\ m >= Limit /\ m <= Len(bucket)
         /\ \A i \in 1..m : Pruned[i] = accepted[Len(accepted) - m + i]
         /\ \A i \in 1..(Len(accepted) - m) : ~Within(accepted[i])
  BY PrunedCutsOff DEF Refuse, Full
<1>4. /\ Pruned \in Seq(0..clock) /\ Pruned # <<>> /\ Pruned[1] \in Nat
      /\ clock \in Nat
  <2>1. Pruned \in Seq(0..clock) /\ clock \in Nat
    BY <1>1, PrunedIs, Stamps
  <2>2. 1 \in 1..m /\ DOMAIN Pruned = 1..m
    BY <1>3, <2>1, LenProperties
  <2>3. Pruned[1] \in 0..clock
    BY <2>1, <2>2, LenProperties
  <2>4. Len(<<>>) = 0
    BY EmptySeq
  <2>. QED
    BY <1>3, <2>1, <2>3, <2>4
<1>5. /\ promised' = clock + RetryAfter(Pruned) * Second
      /\ promised' \in Nat /\ promised' >= Pruned[1] + Window
  BY <1>1, <1>4, RetryAfterEnough DEF Refuse
<1>6. LimiterTypeOK'
  <2>1. keepsEdge' \in BOOLEAN /\ clock' \in 0..MaxTime /\ clock' = clock
    BY <1>1, <1>2 DEF LimiterTypeOK
  <2>2. accepted' \in Seq(0..clock') /\ bucket' \in Seq(0..clock')
    BY <1>1, <1>2, <1>4 DEF LimiterTypeOK
  <2>3. Len(bucket') <= Len(accepted') /\ Len(bucket') <= Limit
    BY <1>1, <1>2, <1>3, Stamps DEF LimiterTypeOK
  <2>4. \A i \in 1..Len(bucket') : bucket'[i] = accepted'[Len(accepted') - Len(bucket') + i]
    BY <1>2, <1>3
  <2>. QED
    BY <1>5, <2>1, <2>2, <2>3, <2>4 DEF LimiterTypeOK
<1>7. InOrder' /\ AtMostLimitPerWindow'
  BY <1>2 DEF LimiterInv, InOrder, AtMostLimitPerWindow
<1>8. CutOffOutdated'
  BY <1>2, <1>3 DEF CutOffOutdated, Within
<1>9. PromisedAfterOldest'
  BY <1>2, <1>4, <1>5 DEF PromisedAfterOldest
<1>. QED
  BY <1>6, <1>7, <1>8, <1>9 DEF LimiterInv

LEMMA ResetStep ==
  ASSUME LimiterInv, Reset
  PROVE  LimiterInv'
<1>1. /\ bucket' = <<>> /\ accepted' = <<>> /\ promised' = Nil
      /\ UNCHANGED <<keepsEdge, clock>>
  BY DEF Reset
<1>2. /\ bucket' \in Seq(0..clock') /\ accepted' \in Seq(0..clock')
      /\ Len(bucket') = 0 /\ Len(accepted') = 0 /\ DOMAIN accepted' = {}
  BY <1>1, EmptySeq
<1>3. LimiterTypeOK'
  BY <1>1, <1>2 DEF LimiterInv, LimiterTypeOK
<1>4. InOrder' /\ CutOffOutdated' /\ PromisedAfterOldest' /\ AtMostLimitPerWindow'
  BY <1>1, <1>2 DEF InOrder, CutOffOutdated, PromisedAfterOldest, AtMostLimitPerWindow
<1>. QED
  BY <1>3, <1>4 DEF LimiterInv

LEMMA TickStep ==
  ASSUME LimiterInv, Tick
  PROVE  LimiterInv'
<1>1. LimiterTypeOK
  BY DEF LimiterInv
<1>2. clock' = clock + 1 /\ clock < MaxTime /\ UNCHANGED <<keepsEdge, bucket, accepted, promised>>
  BY DEF Tick
<1>3. /\ Len(accepted) \in Nat /\ Len(bucket) \in Nat /\ clock \in Nat /\ Len(bucket) <= Len(accepted)
      /\ \A i \in 1..Len(accepted) : accepted[i] \in Nat
  BY <1>1, Stamps DEF LimiterTypeOK
<1>4. LimiterTypeOK'
  <2>1. 0..clock \subseteq 0..clock'
    BY <1>2, <1>3
  <2>2. accepted' \in Seq(0..clock') /\ bucket' \in Seq(0..clock')
    <3>1. accepted \in Seq(0..clock) /\ bucket \in Seq(0..clock)
      BY <1>1 DEF LimiterTypeOK
    <3>. QED
      BY <1>2, <2>1, <3>1, SeqMonotonic
  <2>3. clock' \in 0..MaxTime
    BY <1>1, <1>2 DEF LimiterTypeOK
  <2>. QED
    BY <1>1, <1>2, <2>2, <2>3 DEF LimiterTypeOK
<1>5. InOrder' /\ PromisedAfterOldest' /\ AtMostLimitPerWindow'
  BY <1>2 DEF LimiterInv, InOrder, PromisedAfterOldest, AtMostLimitPerWindow
<1>6. CutOffOutdated'
  <2>1. ASSUME NEW i \in 1..(Len(accepted) - Len(bucket))
        PROVE  ~Within(accepted[i])'
    <3>1. ~Within(accepted[i])
      BY DEF LimiterInv, CutOffOutdated
    <3>2. accepted[i] \in Nat
      BY <1>3
    <3>. QED
      BY <1>2, <1>3, <3>1, <3>2 DEF Within
  <2>. QED
    BY <1>2, <2>1 DEF CutOffOutdated
<1>. QED
  BY <1>4, <1>5, <1>6 DEF LimiterInv

LEMMA LimiterNextInv ==
  ASSUME LimiterInv, [LimiterNext]_limiterVars
  PROVE  LimiterInv'
<1>1. CASE UNCHANGED limiterVars
  <2>1. UNCHANGED <<keepsEdge, clock, bucket, accepted, promised>>
    BY <1>1 DEF limiterVars
  <2>. QED
    BY <2>1 DEF LimiterInv, LimiterTypeOK, InOrder, CutOffOutdated, Within,
               PromisedAfterOldest, AtMostLimitPerWindow
<1>. QED
  BY <1>1, AcceptStep, RefuseStep, ResetStep, TickStep DEF LimiterNext

\* At the time announced the oldest stamp is cut off, and there is room.
LEMMA PromiseKept == LimiterInv => RetryAfterSuffices
<1>. SUFFICES ASSUME LimiterInv, promised # Nil,
                     clock >= promised + (IF keepsEdge THEN 1 ELSE 0), Full(Pruned)
              PROVE  FALSE
  BY DEF RetryAfterSuffices
<1>1. LimiterTypeOK
  BY DEF LimiterInv
<1>2. /\ Len(bucket) \in Nat /\ clock \in Nat /\ promised \in Nat /\ keepsEdge \in BOOLEAN
      /\ Len(bucket) <= Limit
  BY <1>1, Stamps DEF LimiterTypeOK
<1>3. bucket # <<>> /\ promised >= bucket[1] + Window
  BY DEF LimiterInv, PromisedAfterOldest
<1>4. Len(bucket) >= 1 /\ bucket[1] \in Nat
  <2>1. Len(bucket) # 0
    BY <1>1, <1>3, EmptySeq DEF LimiterTypeOK
  <2>. QED
    BY <1>1, <1>2, <2>1, Stamps
<1>5. ~Within(bucket[1])
  BY <1>2, <1>3, <1>4 DEF Within
<1>6. PICK n \in Nat :
         /\ Len(Pruned) = Len(bucket) - n
         /\ n < Len(bucket) => Within(bucket[n + 1])
  <2>1. Outdated \in Nat /\ (Outdated < Len(bucket) => Within(bucket[Outdated + 1]))
    BY <1>1, <1>2, OutdatedIs
  <2>. QED
    BY <1>1, <2>1, PrunedIs
<1>7. n # 0
  BY <1>4, <1>5, <1>6
<1>. QED
  BY <1>2, <1>6, <1>7 DEF Full

\* What the rate limiters promise.
LEMMA LimiterSpecKeepsPromises ==
  LimiterSpec => [](LimiterTypeOK /\ AtMostLimitPerWindow /\ RetryAfterSuffices)
<1>1. LimiterInv => LimiterTypeOK /\ AtMostLimitPerWindow /\ RetryAfterSuffices
  BY PromiseKept DEF LimiterInv
<1>. QED
  BY <1>1, LimiterInitInv, LimiterNextInv, PTL DEF LimiterSpec

-----------------------------------------------------------------------------
(* The registry.  First what its lists are: sequences without repetition,  *)
(* and the set of their members.  Then Kahn's algorithm: inDeg counts the  *)
(* dependencies that are still to come (SortSound), so that what is sorted *)
(* has its dependencies before it, and what is left at the end is a cycle. *)
(* After the sort every list of calls is a beginning of the sorted one.    *)

RegistrySpec == RegistryInit /\ [][RegistryNext]_registryVars

LEMMA ListAppended ==
  ASSUME NEW S, NEW s \in Seq(S), NEW e \in S
  PROVE  /\ Append(s, e) \in Seq(S) /\ ToSet(Append(s, e)) = ToSet(s) \cup {e}
         /\ Len(Append(s, e)) = Len(s) + 1
         /\ \A i \in 1..Len(s) : Append(s, e)[i] = s[i]
         /\ Append(s, e)[Len(s) + 1] = e
         /\ IsInjective(s) /\ e \notin ToSet(s) => IsInjective(Append(s, e))
<1>1. /\ Append(s, e) \in Seq(S) /\ Len(Append(s, e)) = Len(s) + 1
      /\ \A i \in 1..Len(s) : Append(s, e)[i] = s[i]
      /\ Append(s, e)[Len(s) + 1] = e
      /\ Len(s) \in Nat /\ DOMAIN s = 1..Len(s) /\ DOMAIN Append(s, e) = 1..(Len(s) + 1)
  BY AppendProperties, LenProperties
<1>2. PICK t : t = Append(s, e)
  OBVIOUS
<1>3. ToSet(t) = ToSet(s) \cup {e}
  <2>1. \A i \in 1..(Len(s) + 1) : i \in 1..Len(s) \/ i = Len(s) + 1
    BY <1>1
  <2>2. \A i \in 1..Len(s) : i \in 1..(Len(s) + 1)
    BY <1>1
  <2>3. Len(s) + 1 \in 1..(Len(s) + 1)
    BY <1>1
  <2>. QED
    BY <1>1, <1>2, <2>1, <2>2, <2>3 DEF ToSet
<1>4. IsInjective(s) /\ e \notin ToSet(s) => IsInjective(t)
  <2>. SUFFICES ASSUME IsInjective(s), e \notin ToSet(s), NEW i \in 1..(Len(s) + 1), NEW j \in 1..(Len(s) + 1),
                       t[i] = t[j]
                PROVE  i = j
    BY <1>1, <1>2 DEF IsInjective
  <2>1. \A k \in 1..Len(s) : s[k] # e
    BY <1>1 DEF ToSet
  <2>. QED
    BY <1>1, <1>2, <2>1 DEF IsInjective
<1>. QED
  BY <1>1, <1>2, <1>3, <1>4

LEMMA ListShortened ==
  ASSUME NEW S, NEW s \in Seq(S), s # <<>>
  PROVE  /\ Head(s) \in S /\ Head(s) \in ToSet(s) /\ Tail(s) \in Seq(S)
         /\ ToSet(s) = ToSet(Tail(s)) \cup {Head(s)}
         /\ IsInjective(s) => Head(s) \notin ToSet(Tail(s)) /\ IsInjective(Tail(s))
<1>1. /\ Head(s) \in S /\ Tail(s) \in Seq(S) /\ Len(Tail(s)) = Len(s) - 1
      /\ \A i \in 1..Len(Tail(s)) : Tail(s)[i] = s[i + 1]
      /\ Len(s) \in Nat \ {0} /\ DOMAIN s = 1..Len(s) /\ Head(s) = s[1]
  BY HeadTailProperties, LenProperties, EmptySeq
<1>2. PICK t : t = Tail(s)
  OBVIOUS
<1>3. DOMAIN t = 1..(Len(s) - 1) /\ \A i \in 1..(Len(s) - 1) : t[i] = s[i + 1]
  BY <1>1, <1>2, LenProperties
<1>4. PICK h : h = s[1]
  OBVIOUS
<1>5. ToSet(s) = ToSet(t) \cup {h}
  <2>1. ASSUME NEW i \in 1..Len(s) PROVE s[i] \in ToSet(t) \cup {h}
    <3>1. CASE i = 1
      BY <1>4, <3>1
    <3>2. CASE i # 1
      <4>1. i - 1 \in 1..(Len(s) - 1) /\ (i - 1) + 1 = i
        BY <1>1, <3>2
      <4>. QED
        BY <1>3, <4>1 DEF ToSet
    <3>. QED
      BY <3>1, <3>2
  <2>2. \A i \in 1..(Len(s) - 1) : t[i] \in ToSet(s)
    BY <1>1, <1>3 DEF ToSet
  <2>3. h \in ToSet(s)
    BY <1>1, <1>4 DEF ToSet
  <2>. QED
    BY <1>1, <1>3, <2>1, <2>2, <2>3 DEF ToSet
<1>6. IsInjective(s) => h \notin ToSet(t) /\ IsInjective(t)
  <2>. SUFFICES ASSUME IsInjective(s)
                PROVE  h \notin ToSet(t) /\ IsInjective(t)
    OBVIOUS
  <2>1. \A i, j \in 1..Len(s) : s[i] = s[j] => i = j
    BY <1>1 DEF IsInjective
  <2>2. \A i \in 1..(Len(s) - 1) : i + 1 \in 1..Len(s) /\ i + 1 # 1 /\ 1 \in 1..Len(s)
    BY <1>1
  <2>3. h \notin ToSet(t)
    BY <1>3, <1>4, <2>1, <2>2 DEF ToSet
  <2>4. ASSUME NEW i \in 1..(Len(s) - 1), NEW j \in 1..(Len(s) - 1), t[i] = t[j] PROVE i = j
    <3>1. i + 1 = j + 1
      BY <1>3, <2>1, <2>2, <2>4
    <3>. QED
      BY <1>1, <3>1
  <2>. QED
    BY <1>3, <2>3, <2>4 DEF IsInjective
<1>7. h = Head(s) /\ h \in ToSet(s)
  BY <1>1, <1>4, <1>5
<1>. QED
  BY <1>1, <1>2, <1>5, <1>6, <1>7

LEMMA ListsJoined ==
  ASSUME NEW S, NEW s \in Seq(S), NEW t \in Seq(S)
  PROVE  /\ s \o t \in Seq(S) /\ ToSet(s \o t) = ToSet(s) \cup ToSet(t)
         /\ IsInjective(s) /\ IsInjective(t) /\ ToSet(s) \cap ToSet(t) = {} => IsInjective(s \o t)
<1>. DEFINE m == Len(s)
            n == Len(t)
<1>1. /\ s \o t \in Seq(S) /\ Len(s \o t) = m + n
      /\ \A i \in 1..(m + n) : (s \o t)[i] = IF i <= m THEN s[i] ELSE t[i - m]
      /\ m \in Nat /\ n \in Nat /\ DOMAIN s = 1..m /\ DOMAIN t = 1..n
  BY ConcatProperties, LenProperties
<1>2. PICK u : u = s \o t
  OBVIOUS
<1>3. DOMAIN u = 1..(m + n) /\ \A i \in 1..(m + n) : u[i] = IF i <= m THEN s[i] ELSE t[i - m]
  BY <1>1, <1>2, LenProperties
<1>. HIDE DEF m, n
<1>4. ASSUME NEW i \in 1..(m + n)
      PROVE  \/ i \in 1..m /\ u[i] = s[i]
             \/ i \notin 1..m /\ i - m \in 1..n /\ u[i] = t[i - m]
  BY <1>1, <1>3
<1>5. ASSUME NEW i \in 1..m PROVE i \in 1..(m + n) /\ u[i] = s[i]
  BY <1>1, <1>3
<1>6. ASSUME NEW i \in 1..n PROVE m + i \in 1..(m + n) /\ u[m + i] = t[i]
  <2>1. m + i \in 1..(m + n) /\ ~(m + i <= m) /\ (m + i) - m = i
    BY <1>1
  <2>. QED
    BY <1>3, <2>1
<1>7. ToSet(u) = ToSet(s) \cup ToSet(t)
  <2>1. ToSet(u) \subseteq ToSet(s) \cup ToSet(t)
    BY <1>1, <1>3, <1>4 DEF ToSet
  <2>2. ToSet(s) \subseteq ToSet(u)
    BY <1>1, <1>3, <1>5 DEF ToSet
  <2>3. ToSet(t) \subseteq ToSet(u)
    <3>. SUFFICES ASSUME NEW x \in ToSet(t)
                  PROVE  x \in ToSet(u)
      OBVIOUS
    <3>1. PICK i \in 1..n : x = t[i]
      BY <1>1 DEF ToSet
    <3>2. m + i \in DOMAIN u /\ u[m + i] = x
      BY <1>3, <1>6, <3>1
    <3>. QED
      BY <3>2 DEF ToSet
  <2>. QED
    BY <2>1, <2>2, <2>3
<1>8. IsInjective(s) /\ IsInjective(t) /\ ToSet(s) \cap ToSet(t) = {} => IsInjective(u)
  <2>. SUFFICES ASSUME IsInjective(s), IsInjective(t), ToSet(s) \cap ToSet(t) = {},
                       NEW i \in 1..(m + n), NEW j \in 1..(m + n), u[i] = u[j]
                PROVE  i = j
    BY <1>3 DEF IsInjective
  <2>1. \A a \in 1..m, b \in 1..n : s[a] # t[b]
    BY <1>1 DEF ToSet
  <2>2. CASE i \in 1..m /\ j \in 1..m
    BY <1>1, <1>4, <2>2 DEF IsInjective
  <2>3. CASE i \notin 1..m /\ j \notin 1..m
    <3>1. i - m = j - m
      <4>1. i - m \in 1..n /\ j - m \in 1..n /\ t[i - m] = t[j - m]
        BY <1>4, <2>3
      <4>2. \A a, b \in 1..n : t[a] = t[b] => a = b
        BY <1>1 DEF IsInjective
      <4>. QED
        BY <4>1, <4>2
    <3>. QED
      BY <1>1, <3>1
  <2>4. CASE ~(i \in 1..m <=> j \in 1..m)
    BY <1>4, <2>1, <2>4
  <2>. QED
    BY <2>2, <2>3, <2>4
<1>. QED
  BY <1>1, <1>2, <1>7, <1>8

\* A list without repetitions is as long as the set of its members is large.
LEMMA ListLength ==
  ASSUME NEW S, IsFiniteSet(S), NEW s \in Seq(S), IsInjective(s)
  PROVE  /\ IsFiniteSet(ToSet(s)) /\ Cardinality(ToSet(s)) = Len(s) /\ ToSet(s) \subseteq S
<1>1. /\ Len(s) \in Nat /\ s \in [1..Len(s) -> S] /\ DOMAIN s = 1..Len(s)
  BY LenProperties
<1>2. IsFiniteSet(1..Len(s)) /\ Cardinality(1..Len(s)) = Len(s)
  BY <1>1, FS_Interval
<1>3. ToSet(s) \subseteq S
  BY <1>1 DEF ToSet
<1>4. s \in Surjection(1..Len(s), ToSet(s)) /\ s \in Injection(1..Len(s), ToSet(s))
  BY <1>1 DEF ToSet, Surjection, Injection, IsInjective
<1>. QED
  BY <1>2, <1>3, <1>4, FS_Surjection

-----------------------------------------------------------------------------

LEMMA IdsFinite ==
  ASSUME given \in Seq(Entry)
  PROVE  /\ Ids \subseteq Plugin /\ IsFiniteSet(Ids)
         /\ \A p \in Plugin : /\ Needs(p) \subseteq Plugin /\ IsFiniteSet(Needs(p))
                              /\ Cardinality(Needs(p)) \in 0..Cardinality(Plugin)
                              /\ Needs(p) # {} => p \in Ids
                              /\ ~Missing => Needs(p) \subseteq Ids
<1>1. DOMAIN given = 1..Len(given) /\ \A i \in DOMAIN given : given[i].id \in Plugin /\ given[i].needs \subseteq Plugin
  <2>1. DOMAIN given = 1..Len(given) /\ \A i \in DOMAIN given : given[i] \in Entry
    BY LenProperties, ElementOfSeq
  <2>. QED
    BY <2>1 DEF Entry
<1>2. Ids \subseteq Plugin
  BY <1>1 DEF Ids
<1>3. IsFiniteSet(Ids)
  BY <1>2, PluginAssumption, FS_Subset
<1>4. ASSUME NEW p \in Plugin
      PROVE  /\ Needs(p) \subseteq Plugin
             /\ Needs(p) # {} => p \in Ids
             /\ ~Missing => Needs(p) \subseteq Ids
  BY <1>1 DEF Needs, Ids, Missing
<1>5. ASSUME NEW p \in Plugin
      PROVE  IsFiniteSet(Needs(p)) /\ Cardinality(Needs(p)) \in 0..Cardinality(Plugin)
  BY <1>4, PluginAssumption, FS_Subset, FS_CardinalityType
<1>. QED
  BY <1>2, <1>3, <1>4, <1>5

LEMMA InGivenOrderLists ==
  ASSUME given \in Seq(Entry), NEW ids, ids \subseteq Ids, NEW q \in InGivenOrder(ids)
  PROVE  q \in Seq(ids) /\ ToSet(q) = ids /\ IsInjective(q)
<1>. DEFINE n == Cardinality(ids)
<1>1. IsFiniteSet(ids) /\ n \in Nat
  BY IdsFinite, FS_Subset, FS_CardinalityType
<1>2. q \in [1..n -> ids] /\ \A i, j \in 1..n : i < j => At(q[i]) < At(q[j])
  BY DEF InGivenOrder
<1>3. \A p \in Ids : At(p) \in Nat
  BY LenProperties DEF Ids, At
<1>4. \A i, j \in 1..n : q[i] = q[j] => i = j
  <2>. SUFFICES ASSUME NEW i \in 1..n, NEW j \in 1..n, q[i] = q[j], i # j
                PROVE  FALSE
    OBVIOUS
  <2>1. At(q[i]) \in Nat /\ At(q[j]) = At(q[i])
    BY <1>2, <1>3
  <2>2. i < j \/ j < i
    BY <1>1
  <2>. QED
    BY <1>2, <2>1, <2>2
<1>5. q \in Injection(1..n, ids)
  BY <1>2, <1>4 DEF Injection, IsInjective
<1>6. IsFiniteSet(1..n) /\ Cardinality(1..n) = n
  BY <1>1, FS_Interval
<1>7. q \in Surjection(1..n, ids)
  BY <1>1, <1>5, <1>6, FS_Injection
<1>8. ToSet(q) = ids
  BY <1>2, <1>7 DEF Surjection, ToSet
<1>9. q \in Seq(ids)
  BY <1>1, <1>2
<1>. QED
  BY <1>2, <1>4, <1>8, <1>9 DEF IsInjective

-----------------------------------------------------------------------------

\* q is the beginning of s.
Follows(q, s) == Len(q) <= Len(s) /\ \A i \in 1..Len(q) : q[i] = s[i]

NeedsBefore(s) == \A i \in DOMAIN s : \A d \in Needs(s[i]) : \E j \in 1..(i - 1) : s[j] = d

\* While it sorts, inDeg counts the dependencies still to come, and the queue holds
\* those that wait for nothing.
SortSound ==
    /\ ~Duplicate /\ ~Missing
    /\ ToSet(queue) \cap ToSet(sorted) = {}
    /\ \A p \in Ids :
          /\ waiting[p] = Cardinality(Needs(p) \ ToSet(sorted))
          /\ waiting[p] = 0 <=> p \in ToSet(queue) \cup ToSet(sorted)

StagesSound ==
    /\ stage = "check" => queue = <<>> /\ sorted = <<>>
    /\ stage \in {"check", "sort"} => wired = <<>> /\ initialised = <<>> /\ ran = <<>> /\ chain = "none"
    /\ stage = "refused" => Duplicate \/ Missing \/ Cyclic
    /\ stage \in {"routes", "wire", "ready"} => ~(Duplicate \/ Missing \/ Cyclic)

RegistryScalars ==
    /\ stage \in {"check", "sort", "routes", "wire", "ready", "refused", "failed"}
    /\ waiting \in [Plugin -> 0..Cardinality(Plugin)]
    /\ initOver \in BOOLEAN
    /\ chain \in {"none", "before", "challenge", "after", "done"}
    /\ halted \in {"no", "refused", "pending"}

RegistryInv ==
    /\ given \in Seq(Entry) /\ RegistryScalars
    /\ queue \in Seq(Ids) /\ IsInjective(queue)
    /\ sorted \in Seq(Ids) /\ IsInjective(sorted) /\ NeedsBefore(sorted)
    /\ \A q \in {wired, initialised, ran} : q \in Seq(Ids) /\ Follows(q, sorted)
    /\ StagesSound
    /\ stage = "sort" => SortSound

\* The configuration does not change.
LEMMA GivenKept ==
  ASSUME UNCHANGED given
  PROVE  /\ Ids' = Ids /\ (Duplicate <=> Duplicate') /\ (Missing <=> Missing') /\ (Cyclic <=> Cyclic')
         /\ \A s : NeedsBefore(s) <=> NeedsBefore(s)'
<1>1. Ids' = Ids
  BY DEF Ids
<1>2. \A p : Needs(p)' = Needs(p)
  BY DEF Needs
<1>3. Duplicate <=> Duplicate'
  BY DEF Duplicate
<1>4. Missing <=> Missing'
  BY <1>1 DEF Missing
<1>5. Cyclic <=> Cyclic'
  BY <1>1, <1>2 DEF Cyclic
<1>6. \A s : NeedsBefore(s) <=> NeedsBefore(s)'
  BY <1>2 DEF NeedsBefore
<1>. QED
  BY <1>1, <1>3, <1>4, <1>5, <1>6

LEMMA EmptyList ==
  ASSUME NEW S
  PROVE  /\ <<>> \in Seq(S) /\ ToSet(<<>>) = {} /\ IsInjective(<<>>) /\ NeedsBefore(<<>>)
         /\ \A s \in Seq(S) : Follows(<<>>, s)
<1>1. <<>> \in Seq(S) /\ Len(<<>>) = 0 /\ DOMAIN <<>> = {}
  BY EmptySeq
<1>. QED
  BY <1>1, LenProperties DEF ToSet, IsInjective, NeedsBefore, Follows

\* One more is called.
LEMMA NextCalled ==
  ASSUME NEW S, NEW s \in Seq(S), NEW q \in Seq(S), Follows(q, s)
  PROVE  /\ Len(q) < Len(s) =>
               /\ Append(q, s[Len(q) + 1]) \in Seq(S)
               /\ Follows(Append(q, s[Len(q) + 1]), s)
         /\ q # s => Len(q) < Len(s)
<1>1. Len(q) \in Nat /\ Len(s) \in Nat
  BY LenProperties
<1>2. ASSUME Len(q) < Len(s)
      PROVE  Append(q, s[Len(q) + 1]) \in Seq(S) /\ Follows(Append(q, s[Len(q) + 1]), s)
  <2>1. s[Len(q) + 1] \in S
    BY <1>1, <1>2, ElementOfSeq
  <2>2. PICK e \in S : e = s[Len(q) + 1]
    BY <2>1
  <2>3. /\ Append(q, e) \in Seq(S) /\ Len(Append(q, e)) = Len(q) + 1
        /\ \A i \in 1..Len(q) : Append(q, e)[i] = q[i]
        /\ Append(q, e)[Len(q) + 1] = e
    BY ListAppended
  <2>4. PICK t : t = Append(q, e)
    OBVIOUS
  <2>5. \A i \in 1..(Len(q) + 1) : i \in 1..Len(q) \/ i = Len(q) + 1
    BY <1>1
  <2>6. Follows(t, s)
    BY <1>1, <1>2, <2>2, <2>3, <2>4, <2>5 DEF Follows
  <2>. QED
    BY <2>2, <2>3, <2>4, <2>6
<1>3. ASSUME q # s PROVE Len(q) < Len(s)
  <2>1. Len(q) # Len(s)
    BY <1>3, SeqEqual DEF Follows
  <2>. QED
    BY <1>1, <2>1 DEF Follows
<1>. QED
  BY <1>2, <1>3

LEMMA RegistryInitSound == RegistryInit => RegistryInv
<1>. SUFFICES ASSUME RegistryInit
              PROVE  RegistryInv
  OBVIOUS
<1>1. given \in Seq(Entry)
  <2>1. PICK n \in 0..MaxPlugins : given \in [1..n -> Entry]
    BY DEF RegistryInit
  <2>2. n \in Nat
    BY PluginAssumption
  <2>. QED
    BY <2>1, <2>2
<1>2. RegistryScalars
  <2>1. 0 \in 0..Cardinality(Plugin)
    BY PluginAssumption, FS_CardinalityType
  <2>2. waiting \in [Plugin -> 0..Cardinality(Plugin)]
    BY <2>1 DEF RegistryInit
  <2>. QED
    BY <2>2 DEF RegistryInit, RegistryScalars
<1>. QED
  BY <1>1, <1>2, EmptyList DEF RegistryInit, RegistryInv, StagesSound

LEMMA BeginSortKeeps ==
  ASSUME RegistryInv, BeginSort
  PROVE  RegistryInv'
<1>1. /\ UNCHANGED <<given, sorted, wired, initialised, ran, initOver, chain, halted>>
      /\ stage = "check" /\ chain = "none" /\ sorted = <<>> /\ wired = <<>> /\ initialised = <<>> /\ ran = <<>> /\ queue = <<>>
      /\ given \in Seq(Entry) /\ RegistryScalars
  BY DEF BeginSort, KeepInit, KeepSignIn, RegistryInv, StagesSound
<1>2. /\ Ids' = Ids /\ (Duplicate <=> Duplicate') /\ (Missing <=> Missing')
      /\ NeedsBefore(<<>>)' /\ \A p : Needs(p)' = Needs(p)
  BY <1>1, GivenKept, EmptyList DEF Needs
<1>3. CASE Duplicate \/ Missing
  <2>1. stage' = "refused" /\ UNCHANGED <<waiting, queue>>
    BY <1>3 DEF BeginSort
  <2>2. RegistryScalars'
    BY <1>1, <2>1 DEF RegistryScalars
  <2>3. StagesSound'
    BY <1>2, <1>3, <2>1 DEF StagesSound
  <2>. QED
    BY <1>1, <1>2, <2>1, <2>2, <2>3, EmptyList DEF RegistryInv
<1>4. CASE ~(Duplicate \/ Missing)
  <2>. DEFINE F == {p \in Ids : Needs(p) = {}}
  <2>1. /\ stage' = "sort" /\ waiting' = [p \in Plugin |-> Cardinality(Needs(p))]
        /\ queue' \in InGivenOrder(F)
    BY <1>4 DEF BeginSort
  <2>2. queue' \in Seq(F) /\ ToSet(queue') = F /\ IsInjective(queue')
    BY <1>1, <2>1, InGivenOrderLists
  <2>3. queue' \in Seq(Ids)
    BY <2>2, SeqMonotonic
  <2>4. RegistryScalars'
    BY <1>1, <2>1, IdsFinite DEF RegistryScalars
  <2>5. SortSound'
    <3>1. ASSUME NEW p \in Ids
          PROVE  /\ waiting'[p] = Cardinality(Needs(p) \ {})
                 /\ waiting'[p] = 0 <=> p \in ToSet(queue') \cup {}
      <4>1. p \in Plugin /\ IsFiniteSet(Needs(p)) /\ Needs(p) \ {} = Needs(p)
        BY <1>1, IdsFinite
      <4>2. waiting'[p] = Cardinality(Needs(p))
        BY <2>1, <4>1
      <4>3. waiting'[p] = 0 <=> Needs(p) = {}
        BY <4>1, <4>2, FS_EmptySet
      <4>. QED
        BY <2>2, <4>1, <4>2, <4>3
    <3>2. ToSet(sorted') = {}
      BY <1>1, EmptyList
    <3>. QED
      BY <1>2, <1>4, <3>1, <3>2 DEF SortSound
  <2>6. StagesSound'
    BY <1>1, <2>1 DEF StagesSound
  <2>. QED
    BY <1>1, <1>2, <2>2, <2>3, <2>4, <2>5, <2>6, EmptyList DEF RegistryInv
<1>. QED
  BY <1>3, <1>4

LEMMA SortNextKeeps ==
  ASSUME RegistryInv, SortNext
  PROVE  RegistryInv'
<1>1. /\ UNCHANGED <<given, stage, wired, initialised, initOver, chain, ran, halted>>
      /\ stage = "sort" /\ chain = "none" /\ queue # <<>> /\ wired = <<>> /\ initialised = <<>> /\ ran = <<>>
      /\ given \in Seq(Entry) /\ RegistryScalars /\ SortSound
      /\ queue \in Seq(Ids) /\ IsInjective(queue)
      /\ sorted \in Seq(Ids) /\ IsInjective(sorted) /\ NeedsBefore(sorted)
  BY DEF SortNext, KeepInit, KeepSignIn, RegistryInv, StagesSound
<1>2. PICK p \in Ids : p = Head(queue)
  BY <1>1, ListShortened
<1>3. PICK t : t = Tail(queue)
  OBVIOUS
<1>4. /\ t \in Seq(Ids) /\ ToSet(queue) = ToSet(t) \cup {p} /\ p \notin ToSet(t) /\ IsInjective(t)
  BY <1>1, <1>2, <1>3, ListShortened
<1>5. /\ sorted' = Append(sorted, p)
      /\ waiting' = [q \in Plugin |-> IF p \in Needs(q) /\ waiting[q] > 0 THEN waiting[q] - 1 ELSE waiting[q]]
  BY <1>2 DEF SortNext
<1>6. PICK f \in InGivenOrder(Freed(p)) : queue' = t \o f
  BY <1>2, <1>3 DEF SortNext
<1>7. Freed(p) \subseteq Ids /\ \A q : q \in Freed(p) <=> q \in Ids /\ p \in Needs(q) /\ waiting[q] = 1
  BY DEF Freed, Dependents
<1>8. f \in Seq(Ids) /\ ToSet(f) = Freed(p) /\ IsInjective(f)
  BY <1>1, <1>6, <1>7, InGivenOrderLists, SeqMonotonic
<1>9. /\ p \notin ToSet(sorted) /\ waiting[p] = 0
      /\ \A q \in Ids : /\ waiting[q] = Cardinality(Needs(q) \ ToSet(sorted))
                        /\ waiting[q] = 0 <=> q \in ToSet(queue) \cup ToSet(sorted)
  BY <1>1, <1>4 DEF SortSound
<1>10. ToSet(t) \cap ToSet(f) = {}
  <2>1. \A q \in ToSet(t) : q \in Ids /\ waiting[q] = 0
    <3>1. ToSet(t) \subseteq Ids
      BY <1>4, LenProperties, ElementOfSeq DEF ToSet
    <3>. QED
      BY <1>4, <1>9, <3>1
  <2>2. \A q \in Freed(p) : waiting[q] = 1
    BY <1>7
  <2>. QED
    BY <1>8, <2>1, <2>2
<1>11. /\ queue' \in Seq(Ids) /\ IsInjective(queue') /\ ToSet(queue') = ToSet(t) \cup Freed(p)
  BY <1>4, <1>6, <1>8, <1>10, ListsJoined
<1>12. /\ sorted' \in Seq(Ids) /\ IsInjective(sorted') /\ ToSet(sorted') = ToSet(sorted) \cup {p}
       /\ Len(sorted') = Len(sorted) + 1
       /\ \A i \in 1..Len(sorted) : sorted'[i] = sorted[i]
       /\ sorted'[Len(sorted) + 1] = p
  BY <1>1, <1>5, <1>9, ListAppended
<1>13. /\ Ids' = Ids /\ (Duplicate <=> Duplicate') /\ (Missing <=> Missing')
       /\ \A q : Needs(q)' = Needs(q)
  BY <1>1, GivenKept DEF Needs
<1>14. \A q \in Ids : q \in Plugin /\ IsFiniteSet(Needs(q)) /\ waiting[q] \in 0..Cardinality(Plugin)
  BY <1>1, IdsFinite DEF RegistryScalars
<1>15. Cardinality(Plugin) \in Nat
  BY PluginAssumption, FS_CardinalityType
<1>16. ASSUME NEW q \in Ids
       PROVE  /\ waiting'[q] = Cardinality(Needs(q) \ ToSet(sorted'))
              /\ waiting'[q] = 0 <=> q \in ToSet(queue') \cup ToSet(sorted')
  <2>1. Needs(q) \ ToSet(sorted') = (Needs(q) \ ToSet(sorted)) \ {p}
    BY <1>12
  <2>2. IsFiniteSet(Needs(q) \ ToSet(sorted))
    BY <1>14, FS_Subset
  <2>3. CASE p \in Needs(q)
    <3>1. /\ p \in Needs(q) \ ToSet(sorted)
          /\ Cardinality((Needs(q) \ ToSet(sorted)) \ {p}) = waiting[q] - 1
      <4>1. PICK left : left = Needs(q) \ ToSet(sorted)
        OBVIOUS
      <4>2. IsFiniteSet(left) /\ p \in left /\ waiting[q] = Cardinality(left)
        BY <1>9, <2>2, <2>3, <4>1
      <4>3. Cardinality(left \ {p}) = Cardinality(left) - 1
        BY <4>2, FS_RemoveElement
      <4>. QED
        BY <4>1, <4>2, <4>3
    <3>2. waiting[q] # 0
      BY <1>9, <2>2, <3>1, FS_EmptySet
    <3>3. waiting'[q] = waiting[q] - 1
      BY <1>5, <1>14, <1>15, <2>3, <3>2
    <3>4. q \notin ToSet(queue) \cup ToSet(sorted)
      BY <1>9, <3>2
    <3>5. waiting'[q] = 0 <=> q \in Freed(p)
      BY <1>7, <1>14, <1>15, <2>3, <3>3
    <3>6. q # p
      BY <1>9, <3>2
    <3>. QED
      BY <1>4, <1>11, <1>12, <2>1, <3>1, <3>3, <3>4, <3>5, <3>6
  <2>4. CASE p \notin Needs(q)
    <3>1. (Needs(q) \ ToSet(sorted)) \ {p} = Needs(q) \ ToSet(sorted)
      BY <2>4
    <3>2. waiting'[q] = waiting[q] /\ q \notin Freed(p)
      BY <1>5, <1>7, <1>14, <2>4
    <3>. QED
      BY <1>4, <1>9, <1>11, <1>12, <2>1, <3>1, <3>2
  <2>. QED
    BY <2>3, <2>4
<1>17. ToSet(queue') \cap ToSet(sorted') = {}
  <2>1. p \notin Freed(p) /\ Freed(p) \cap ToSet(sorted) = {}
    <3>1. \A q \in Freed(p) : q \in Ids /\ waiting[q] # 0
      BY <1>7
    <3>2. \A q \in Ids : q \in ToSet(sorted) => waiting[q] = 0
      BY <1>9
    <3>. QED
      BY <1>9, <3>1, <3>2
  <2>2. ToSet(t) \cap ToSet(sorted) = {}
    BY <1>1, <1>4 DEF SortSound
  <2>. QED
    BY <1>4, <1>11, <1>12, <2>1, <2>2
<1>18. SortSound'
  BY <1>1, <1>13, <1>16, <1>17 DEF SortSound
<1>19. Needs(p) \subseteq ToSet(sorted)
  <2>1. IsFiniteSet(Needs(p) \ ToSet(sorted)) /\ Cardinality(Needs(p) \ ToSet(sorted)) = 0
    BY <1>9, <1>14, FS_Subset
  <2>2. Needs(p) \ ToSet(sorted) = {}
    BY <2>1, FS_EmptySet
  <2>. QED
    BY <2>2
<1>20. NeedsBefore(sorted)'
  <2>0. Len(sorted) \in Nat /\ DOMAIN sorted = 1..Len(sorted) /\ DOMAIN sorted' = 1..(Len(sorted) + 1)
    BY <1>1, <1>12, LenProperties
  <2>. SUFFICES ASSUME NEW i \in 1..(Len(sorted) + 1), NEW d \in Needs(sorted'[i])
                PROVE  \E j \in 1..(i - 1) : sorted'[j] = d
    BY <1>13, <2>0 DEF NeedsBefore
  <2>1. CASE i \in 1..Len(sorted)
    <3>1. PICK j \in 1..(i - 1) : sorted[j] = d
      BY <1>1, <1>12, <2>0, <2>1 DEF NeedsBefore
    <3>2. j \in 1..Len(sorted)
      BY <2>0, <2>1
    <3>. QED
      BY <1>12, <3>1, <3>2
  <2>2. CASE i = Len(sorted) + 1
    <3>1. PICK j \in 1..Len(sorted) : sorted[j] = d
      BY <1>12, <1>19, <2>0, <2>2 DEF ToSet
    <3>2. j \in 1..(i - 1)
      BY <2>0, <2>2
    <3>. QED
      BY <1>12, <3>1, <3>2
  <2>. QED
    BY <2>0, <2>1, <2>2
<1>21. RegistryScalars'
  <2>1. \A q \in Plugin : waiting[q] \in 0..Cardinality(Plugin)
    BY <1>1 DEF RegistryScalars
  <2>2. waiting' \in [Plugin -> 0..Cardinality(Plugin)]
    BY <1>5, <1>15, <2>1
  <2>. QED
    BY <1>1, <2>2 DEF RegistryScalars
<1>22. StagesSound'
  BY <1>1 DEF StagesSound
<1>23. \A q \in {wired', initialised', ran'} : q \in Seq(Ids) /\ Follows(q, sorted')
  BY <1>1, <1>12, EmptyList
<1>. QED
  BY <1>1, <1>11, <1>12, <1>13, <1>18, <1>20, <1>21, <1>22, <1>23 DEF RegistryInv

\* Without duplicates the ids are as many as the plugins.
LEMMA IdsCounted ==
  ASSUME given \in Seq(Entry), ~Duplicate
  PROVE  Cardinality(Ids) = Len(given)
<1>. DEFINE g == [i \in 1..Len(given) |-> given[i].id]
<1>1. Len(given) \in Nat /\ DOMAIN given = 1..Len(given) /\ \A i \in 1..Len(given) : given[i].id \in Plugin
  <2>1. Len(given) \in Nat /\ DOMAIN given = 1..Len(given) /\ \A i \in 1..Len(given) : given[i] \in Entry
    BY LenProperties, ElementOfSeq
  <2>. QED
    BY <2>1 DEF Entry
<1>2. g \in Seq(Plugin) /\ DOMAIN g = 1..Len(given) /\ Len(g) = Len(given)
  BY <1>1, LenProperties
<1>3. IsInjective(g)
  BY <1>1, <1>2 DEF IsInjective, Duplicate
<1>4. ToSet(g) = Ids
  BY <1>1, <1>2 DEF ToSet, Ids
<1>. QED
  BY <1>2, <1>3, <1>4, ListLength, PluginAssumption

\* Kahn's argument: what is left when the queue is empty waits for one another.
LEMMA EndSortKeeps ==
  ASSUME RegistryInv, EndSort
  PROVE  RegistryInv'
<1>1. /\ UNCHANGED <<given, waiting, queue, sorted, wired, initialised, initOver, chain, ran, halted>>
      /\ stage = "sort" /\ queue = <<>>
      /\ stage' = IF Len(sorted) = Len(given) THEN "routes" ELSE "refused"
      /\ given \in Seq(Entry) /\ SortSound /\ RegistryScalars
      /\ sorted \in Seq(Ids) /\ IsInjective(sorted) /\ NeedsBefore(sorted)
  BY DEF EndSort, KeepInit, KeepSignIn, RegistryInv
<1>2. /\ IsFiniteSet(Ids) /\ Cardinality(Ids) = Len(given)
      /\ Cardinality(ToSet(sorted)) = Len(sorted) /\ ToSet(sorted) \subseteq Ids
  BY <1>1, IdsFinite, IdsCounted, ListLength DEF SortSound
<1>3. Len(sorted) = Len(given) <=> ToSet(sorted) = Ids
  BY <1>2, FS_Subset
<1>4. CASE Len(sorted) = Len(given)
  <2>1. ~Cyclic
    <3>. SUFFICES ASSUME NEW s \in SUBSET Ids, s # {}, \A p \in s : Needs(p) \cap s # {}
                  PROVE  FALSE
      BY DEF Cyclic
    <3>. DEFINE T == {i \in DOMAIN sorted : sorted[i] \in s}
    <3>1. DOMAIN sorted = 1..Len(sorted) /\ Len(sorted) \in Nat
      BY <1>1, LenProperties
    <3>2. T # {} /\ T \subseteq Nat
      BY <1>3, <1>4, <3>1 DEF ToSet
    <3>3. PICK n \in T : \A m \in T : n <= m
      BY <3>2, LeastNatural
    <3>4. PICK d : d \in Needs(sorted[n]) /\ d \in s
      OBVIOUS
    <3>5. PICK j \in 1..(n - 1) : sorted[j] = d
      BY <1>1, <3>4 DEF NeedsBefore
    <3>6. j \in T /\ ~(n <= j)
      BY <3>1, <3>4, <3>5
    <3>. QED
      BY <3>3, <3>6
  <2>2. StagesSound'
    BY <1>1, <1>4, <2>1, GivenKept DEF StagesSound, SortSound
  <2>3. stage' = "routes"
    BY <1>1, <1>4
  <2>4. RegistryScalars'
    BY <1>1, <2>3 DEF RegistryScalars
  <2>. QED
    BY <1>1, <2>2, <2>3, <2>4, GivenKept DEF RegistryInv, Follows
<1>5. CASE Len(sorted) # Len(given)
  <2>1. Cyclic
    <3>. DEFINE s == Ids \ ToSet(sorted)
    <3>1. s \in SUBSET Ids /\ s # {}
      BY <1>2, <1>3, <1>5
    <3>2. ASSUME NEW p \in s PROVE Needs(p) \cap s # {}
      <4>1. p \in Plugin /\ IsFiniteSet(Needs(p)) /\ Needs(p) \subseteq Ids
        BY <1>1, IdsFinite DEF SortSound
      <4>2. ToSet(queue) = {}
        BY <1>1, EmptyList
      <4>3. Cardinality(Needs(p) \ ToSet(sorted)) # 0
        BY <1>1, <4>2 DEF SortSound
      <4>4. Needs(p) \ ToSet(sorted) # {}
        BY <4>3, FS_EmptySet
      <4>. QED
        BY <4>1, <4>4
    <3>. QED
      BY <3>1, <3>2 DEF Cyclic
  <2>2. StagesSound'
    BY <1>1, <1>5, <2>1, GivenKept DEF StagesSound
  <2>3. stage' = "refused"
    BY <1>1, <1>5
  <2>4. RegistryScalars'
    BY <1>1, <2>3 DEF RegistryScalars
  <2>. QED
    BY <1>1, <2>2, <2>3, <2>4, GivenKept DEF RegistryInv, Follows
<1>. QED
  BY <1>4, <1>5

\* After the sort only lists of calls grow, each along the sorted one.
LEMMA CallsKeep ==
  ASSUME RegistryInv, UNCHANGED <<given, waiting, queue, sorted>>,
         stage \notin {"check", "sort"}, RegistryScalars',
         \/ UNCHANGED stage
         \/ stage' \in {"wire", "ready", "failed"} /\ stage \in {"routes", "wire"},
         \A q \in {wired', initialised', ran'} : q \in Seq(Ids) /\ Follows(q, sorted)
  PROVE  RegistryInv'
<1>1. stage' \notin {"check", "sort"}
  OBVIOUS
<1>2. StagesSound'
  BY <1>1, GivenKept DEF StagesSound, RegistryInv
<1>3. /\ given' \in Seq(Entry) /\ queue' \in Seq(Ids') /\ IsInjective(queue')
      /\ sorted' \in Seq(Ids') /\ IsInjective(sorted') /\ NeedsBefore(sorted)'
  BY GivenKept DEF RegistryInv
<1>4. \A q \in {wired', initialised', ran'} : q \in Seq(Ids') /\ Follows(q, sorted')
  BY GivenKept
<1>. QED
  BY <1>1, <1>2, <1>3, <1>4 DEF RegistryInv

LEMMA ValidateRoutesKeeps ==
  ASSUME RegistryInv, ValidateRoutes
  PROVE  RegistryInv'
<1>1. /\ UNCHANGED <<given, waiting, queue, sorted, wired, initialised, initOver, chain, ran, halted>>
      /\ stage = "routes" /\ stage' \in {"wire", "failed"} /\ RegistryScalars
      /\ \A q \in {wired, initialised, ran} : q \in Seq(Ids) /\ Follows(q, sorted)
  BY DEF ValidateRoutes, KeepInit, KeepSignIn, RegistryInv
<1>2. RegistryScalars'
  BY <1>1 DEF RegistryScalars
<1>. QED
  BY <1>1, <1>2, CallsKeep

LEMMA WireKeeps ==
  ASSUME RegistryInv, Wire
  PROVE  RegistryInv'
<1>1. /\ UNCHANGED <<given, waiting, queue, sorted, initialised, initOver, chain, ran, halted>>
      /\ stage = "wire" /\ RegistryScalars /\ sorted \in Seq(Ids)
      /\ \A q \in {wired, initialised, ran} : q \in Seq(Ids) /\ Follows(q, sorted)
      /\ \/ Len(wired) < Len(sorted) /\ wired' = Append(wired, sorted[Len(wired) + 1]) /\ UNCHANGED stage
         \/ stage' \in {"failed", "ready"} /\ UNCHANGED wired
  BY DEF Wire, KeepInit, KeepSignIn, RegistryInv
<1>2. RegistryScalars'
  BY <1>1 DEF RegistryScalars
<1>3. wired' \in Seq(Ids) /\ Follows(wired', sorted)
  BY <1>1, NextCalled
<1>. QED
  BY <1>1, <1>2, <1>3, CallsKeep

LEMMA InitNextKeeps ==
  ASSUME RegistryInv, InitNext
  PROVE  RegistryInv'
<1>1. /\ UNCHANGED <<given, stage, waiting, queue, sorted, wired, chain, ran, halted>>
      /\ stage = "ready" /\ RegistryScalars /\ sorted \in Seq(Ids)
      /\ \A q \in {wired, initialised, ran} : q \in Seq(Ids) /\ Follows(q, sorted)
      /\ initOver' \in {TRUE, initOver}
      /\ \/ UNCHANGED initialised
         \/ initialised # sorted /\ initialised' = Append(initialised, sorted[Len(initialised) + 1])
  BY DEF InitNext, KeepBuild, KeepSignIn, RegistryInv
<1>2. RegistryScalars'
  BY <1>1 DEF RegistryScalars
<1>3. initialised' \in Seq(Ids) /\ Follows(initialised', sorted)
  BY <1>1, NextCalled
<1>. QED
  BY <1>1, <1>2, <1>3, CallsKeep

\* What a sign-in does: it calls one hook more, or begins a list of calls anew.
LEMMA HooksKeep ==
  ASSUME RegistryInv, BeginSignIn \/ CallHook \/ NextChain \/ EndSignIn
  PROVE  RegistryInv'
<1>1. /\ UNCHANGED <<given, stage, waiting, queue, sorted, wired, initialised, initOver>>
      /\ RegistryScalars /\ sorted \in Seq(Ids)
      /\ \A q \in {wired, initialised, ran} : q \in Seq(Ids) /\ Follows(q, sorted)
  BY DEF BeginSignIn, CallHook, NextChain, EndSignIn, KeepBuild, KeepInit, RegistryInv
<1>2. stage \notin {"check", "sort"}
  BY DEF BeginSignIn, CallHook, NextChain, EndSignIn, RegistryInv, StagesSound
<1>3. chain' \in {"none", "before", "challenge", "after", "done"} /\ halted' \in {"no", "refused", "pending"}
  BY <1>1 DEF BeginSignIn, CallHook, NextChain, EndSignIn, RegistryScalars
<1>4. RegistryScalars'
  BY <1>1, <1>3 DEF RegistryScalars
<1>5. \/ ran' \in {ran, <<>>}
      \/ Len(ran) < Len(sorted) /\ ran' = Append(ran, sorted[Len(ran) + 1])
  BY DEF BeginSignIn, CallHook, Called, NextChain, EndSignIn
<1>6. ran' \in Seq(Ids) /\ Follows(ran', sorted)
  BY <1>1, <1>5, NextCalled, EmptyList
<1>. QED
  BY <1>1, <1>2, <1>4, <1>6, CallsKeep

LEMMA RegistryNextKeeps ==
  ASSUME RegistryInv, [RegistryNext]_registryVars
  PROVE  RegistryInv'
<1>1. CASE BeginSort
  BY <1>1, BeginSortKeeps
<1>2. CASE SortNext
  BY <1>2, SortNextKeeps
<1>3. CASE EndSort
  BY <1>3, EndSortKeeps
<1>4. CASE ValidateRoutes
  BY <1>4, ValidateRoutesKeeps
<1>5. CASE Wire
  BY <1>5, WireKeeps
<1>6. CASE InitNext
  BY <1>6, InitNextKeeps
<1>7. CASE BeginSignIn \/ CallHook \/ NextChain \/ EndSignIn
  BY <1>7, HooksKeep
<1>8. CASE UNCHANGED registryVars
  <2>1. UNCHANGED <<given, stage, waiting, queue, sorted, wired, initialised, initOver, chain, ran, halted>>
    BY <1>8 DEF registryVars
  <2>2. RegistryScalars'
    BY <2>1 DEF RegistryScalars, RegistryInv
  <2>3. StagesSound'
    BY <2>1, GivenKept DEF StagesSound, RegistryInv
  <2>4. stage = "sort" => SortSound'
    <3>. SUFFICES ASSUME stage = "sort"
                  PROVE  SortSound'
      OBVIOUS
    <3>1. \A p : Needs(p)' = Needs(p)
      BY <2>1 DEF Needs
    <3>. QED
      BY <2>1, <3>1, GivenKept DEF SortSound, RegistryInv
  <2>. QED
    BY <2>1, <2>2, <2>3, <2>4, GivenKept DEF RegistryInv
<1>. QED
  BY <1>1, <1>2, <1>3, <1>4, <1>5, <1>6, <1>7, <1>8 DEF RegistryNext

\* What is true of a list is true of its beginning.
LEMMA Beginning ==
  ASSUME NEW S, NEW s \in Seq(S), NEW q \in Seq(S), Follows(q, s), IsInjective(s), NeedsBefore(s)
  PROVE  ToSet(q) \subseteq S /\ IsInjective(q) /\ NeedsBefore(q)
<1>1. /\ Len(q) \in Nat /\ Len(s) \in Nat /\ Len(q) <= Len(s)
      /\ DOMAIN q = 1..Len(q) /\ DOMAIN s = 1..Len(s)
      /\ \A i \in 1..Len(q) : q[i] = s[i] /\ q[i] \in S /\ i \in 1..Len(s)
  BY LenProperties, ElementOfSeq DEF Follows
<1>2. ToSet(q) \subseteq S
  BY <1>1 DEF ToSet
<1>3. IsInjective(q)
  BY <1>1 DEF IsInjective
<1>4. NeedsBefore(q)
  <2>. SUFFICES ASSUME NEW i \in 1..Len(q), NEW d \in Needs(q[i])
                PROVE  \E j \in 1..(i - 1) : q[j] = d
    BY <1>1 DEF NeedsBefore
  <2>1. PICK j \in 1..(i - 1) : s[j] = d
    BY <1>1 DEF NeedsBefore
  <2>2. j \in 1..Len(q)
    BY <1>1
  <2>. QED
    BY <1>1, <2>1, <2>2
<1>. QED
  BY <1>2, <1>3, <1>4

LEMMA RegistryInvSays == RegistryInv => RegistryTypeOK /\ DependenciesFirst
<1>. SUFFICES ASSUME RegistryInv
              PROVE  RegistryTypeOK /\ DependenciesFirst
  OBVIOUS
<1>1. \A q \in {sorted, wired, initialised, ran} : ToSet(q) \subseteq Ids /\ IsInjective(q) /\ NeedsBefore(q)
  <2>1. Follows(sorted, sorted)
    BY LenProperties DEF Follows, RegistryInv
  <2>. QED
    BY <2>1, Beginning DEF RegistryInv
<1>2. ToSet(queue) \subseteq Ids /\ IsInjective(queue)
  BY LenProperties, ElementOfSeq DEF ToSet, RegistryInv
<1>3. RegistryTypeOK
  BY <1>1, <1>2 DEF RegistryInv, RegistryScalars, RegistryTypeOK
<1>4. DependenciesFirst
  BY <1>1 DEF RegistryInv, StagesSound, DependenciesFirst, NeedsBefore
<1>. QED
  BY <1>3, <1>4

LEMMA RegistrySpecKeeps == RegistrySpec => [](RegistryTypeOK /\ DependenciesFirst)
<1>1. RegistrySpec => []RegistryInv
  BY RegistryInitSound, RegistryNextKeeps, PTL DEF RegistrySpec
<1>. QED
  BY <1>1, RegistryInvSays, PTL

=============================================================================
