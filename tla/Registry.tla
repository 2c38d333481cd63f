------------------------------ MODULE Registry ------------------------------
(***************************************************************************)
(* The plugins of an instance: sorted by their dependencies, wired,        *)
(* initialised in the background, and called around a sign-in              *)
(* (packages/core/src/plugins/registry.ts, define.ts, flows/signin.ts).    *)
(***************************************************************************)
EXTENDS FiniteSets, Naturals, SequencesExt

CONSTANTS
    Plugin,         \* plugin ids
    MaxPlugins      \* bound: plugins handed to defineHoleauth

ASSUME PluginAssumption == IsFiniteSet(Plugin) /\ MaxPlugins \in Nat

\* A plugin handed in, with its dependsOn.
Entry == [id : Plugin, needs : SUBSET Plugin]

VARIABLES
    given,          \* the plugins, in the order of the configuration
    stage,          \* how far defineHoleauth has come
    waiting,        \* inDeg
    queue, sorted,  \* of topoSort
    wired,          \* plugins whose api was built
    initialised,    \* plugins whose onInit has been awaited
    initOver,       \* runOnInit has ended, by its end or by an onInit that threw
    chain,          \* the hooks a sign-in is in
    ran,            \* plugins whose hook of that chain was called, in order
    halted          \* the sign-in was refused, or handed to a second factor

registryVars ==
    <<given, stage, waiting, queue, sorted, wired, initialised, initOver, chain, ran, halted>>

Ids == {given[i].id : i \in DOMAIN given}

RegistryTypeOK ==
    /\ given \in Seq(Entry)
    /\ stage \in {"check", "sort", "routes", "wire", "ready", "refused", "failed"}
    /\ waiting \in [Plugin -> 0..Cardinality(Plugin)]
    /\ \A q \in {queue, sorted, wired, initialised, ran} :
          ToSet(q) \subseteq Ids /\ IsInjective(q)
    /\ initOver \in BOOLEAN
    /\ chain \in {"none", "before", "challenge", "after", "done"}
    /\ halted \in {"no", "refused", "pending"}

RegistryInit ==
    /\ given \in UNION {[1..n -> Entry] : n \in 0..MaxPlugins}
    /\ stage = "check"
    /\ waiting = [p \in Plugin |-> 0]
    /\ queue = <<>> /\ sorted = <<>> /\ wired = <<>> /\ initialised = <<>> /\ ran = <<>>
    /\ initOver = FALSE /\ chain = "none" /\ halted = "no"

-----------------------------------------------------------------------------

Duplicate == \E i, j \in DOMAIN given : i # j /\ given[i].id = given[j].id
Missing == \E i \in DOMAIN given : ~(given[i].needs \subseteq Ids)

Needs(p) == UNION {given[i].needs : i \in {j \in DOMAIN given : given[j].id = p}}

\* The plugins that depend on p.
Dependents(p) == {d \in Ids : p \in Needs(d)}

At(p) == CHOOSE i \in DOMAIN given : given[i].id = p

\* A list of ids, one after the other in the order of the configuration.
InGivenOrder(ids) ==
    {q \in [1..Cardinality(ids) -> ids] : \A i, j \in DOMAIN q : i < j => At(q[i]) < At(q[j])}

KeepSignIn == UNCHANGED <<chain, ran, halted>>
KeepInit == UNCHANGED <<initialised, initOver>>

\* topoSort: byId, inDeg and the first queue.
BeginSort ==
    /\ stage = "check"
    /\ IF Duplicate \/ Missing
       THEN stage' = "refused" /\ UNCHANGED <<waiting, queue>>
       ELSE /\ stage' = "sort"
            /\ waiting' = [p \in Plugin |-> Cardinality(Needs(p))]
            /\ queue' \in InGivenOrder({p \in Ids : Needs(p) = {}})
    /\ UNCHANGED <<given, sorted, wired>>
    /\ KeepInit /\ KeepSignIn

\* Mutant: a dependent is queued as soon as one of its dependencies is sorted.
FreedEarly(p) == Dependents(p)

\* The dependents whose last dependency p was.
Freed(p) == {d \in Dependents(p) : waiting[d] = 1}

SortNext ==
    /\ stage = "sort" /\ queue # <<>>
    /\ LET p == Head(queue) IN
       /\ sorted' = Append(sorted, p)
       /\ waiting' = [q \in Plugin |-> IF p \in Needs(q) /\ waiting[q] > 0 THEN waiting[q] - 1 ELSE waiting[q]]
       /\ \E freed \in InGivenOrder(Freed(p)) : queue' = Tail(queue) \o freed
    /\ UNCHANGED <<given, stage, wired>>
    /\ KeepInit /\ KeepSignIn

EndSort ==
    /\ stage = "sort" /\ queue = <<>>
    /\ stage' = IF Len(sorted) = Len(given) THEN "routes" ELSE "refused"
    /\ UNCHANGED <<given, waiting, queue, sorted, wired>>
    /\ KeepInit /\ KeepSignIn

\* validatePluginRoutes: a route may begin without a slash or be taken.
ValidateRoutes ==
    /\ stage = "routes"
    /\ stage' \in {"wire", "failed"}
    /\ UNCHANGED <<given, waiting, queue, sorted, wired>>
    /\ KeepInit /\ KeepSignIn

\* p.api(ctx), which may call getPlugin for those wired before it, or throw.
Wire ==
    /\ stage = "wire"
    /\ \/ Len(wired) < Len(sorted) /\ wired' = Append(wired, sorted[Len(wired) + 1]) /\ UNCHANGED stage
       \/ Len(wired) < Len(sorted) /\ stage' = "failed" /\ UNCHANGED wired
       \/ wired = sorted /\ stage' = "ready" /\ UNCHANGED wired
    /\ UNCHANGED <<given, waiting, queue, sorted>>
    /\ KeepInit /\ KeepSignIn

KeepBuild == UNCHANGED <<given, stage, waiting, queue, sorted, wired>>

\* runOnInit, which nobody awaits: the first onInit that throws ends it.
InitNext ==
    /\ stage = "ready" /\ ~initOver
    /\ IF initialised = sorted
       THEN initOver' = TRUE /\ UNCHANGED initialised
       ELSE \/ initialised' = Append(initialised, sorted[Len(initialised) + 1]) /\ UNCHANGED initOver
            \/ initOver' = TRUE /\ UNCHANGED initialised
    /\ KeepBuild /\ KeepSignIn

\* A sign-in need not wait for the initialisation.
BeginSignIn ==
    /\ stage = "ready" /\ chain = "none"
    /\ chain' = "before"
    /\ UNCHANGED <<ran, halted>>
    /\ KeepBuild /\ KeepInit

Called == ran' = Append(ran, sorted[Len(ran) + 1])

\* Before hooks may throw and end the sign-in; every challenge is asked, whoever
\* answered first, and one that throws is passed over; so is an after hook.
CallHook ==
    /\ chain \in {"before", "challenge", "after"} /\ Len(ran) < Len(sorted)
    /\ Called
    /\ \/ UNCHANGED <<chain, halted>>
       \/ chain = "before" /\ halted' = "refused" /\ chain' = "done"
       \/ chain = "challenge" /\ halted' = "pending" /\ UNCHANGED chain
    /\ KeepBuild /\ KeepInit

NextChain ==
    /\ ran = sorted /\ chain \in {"before", "challenge", "after"}
    /\ chain' = CASE chain = "before" -> "challenge"
                  [] chain = "challenge" /\ halted = "no" -> "after"
                  [] OTHER -> "done"
    /\ ran' = IF chain' = "done" THEN ran ELSE <<>>
    /\ UNCHANGED halted
    /\ KeepBuild /\ KeepInit

\* The sign-in is over, and the next may come.
EndSignIn ==
    /\ chain = "done"
    /\ chain' = "none" /\ ran' = <<>> /\ halted' = "no"
    /\ KeepBuild /\ KeepInit

RegistryNext ==
    \/ BeginSort \/ SortNext \/ EndSort \/ ValidateRoutes \/ Wire
    \/ InitNext \/ BeginSignIn \/ CallHook \/ NextChain \/ EndSignIn

-----------------------------------------------------------------------------
(* Properties.                                                             *)

\* A set of plugins each of which waits for another of the set.
Cyclic == \E s \in SUBSET Ids : s # {} /\ \A p \in s : Needs(p) \cap s # {}

\* topoSort refuses exactly the lists with a duplicate, a missing dependency or a
\* cycle, and whatever is called for a plugin, its api, onInit or a hook, was called
\* before for the plugins it depends on (registry.ts:92-129, 380-383, 207-292).
DependenciesFirst ==
    /\ stage = "refused" => Duplicate \/ Missing \/ Cyclic
    /\ stage \in {"routes", "wire", "ready"} => ~(Duplicate \/ Missing \/ Cyclic)
    /\ \A calls \in {sorted, wired, initialised, ran} : \A i \in DOMAIN calls :
          \A d \in Needs(calls[i]) : \E j \in 1..(i - 1) : calls[j] = d

=============================================================================
