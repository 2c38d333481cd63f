------------------------------- MODULE Parts -------------------------------
(***************************************************************************)
(* Seven parts of an installation that share no state: the passkey plugin, *)
(* the rbac plugin, the teams and the signing keys of the OAuth provider,  *)
(* the rate limiters, the browser, and the plugin registry.                *)
(*                                                                         *)
(* A behaviour of the whole is one behaviour of each, interleaved.  As no  *)
(* part reads what another writes, nothing is lost when one part moves and *)
(* the others rest where they began; focus is the one that moves.          *)
(***************************************************************************)
EXTENDS Passkeys, Permissions, Teams, SigningKeys, RateLimiter, Browser, Registry

VARIABLE focus

Part == {"passkeys", "permissions", "teams", "keys", "limiter", "browser", "registry"}

partsVars ==
    <<focus, passkeyVars, permVars, teamVars, keyVars, limiterVars, browserVars, registryVars>>

\* A part that rests has one initial state.
PartsInit ==
    /\ focus \in Part
    /\ IF focus = "passkeys" THEN TRUE ELSE counting = {}
    /\ IF focus = "permissions" THEN TRUE ELSE file = CHOOSE f \in Files : OneDefault(f)
    /\ IF focus = "limiter" THEN TRUE ELSE keepsEdge = TRUE
    /\ IF focus = "registry" THEN TRUE ELSE given = <<>>
    /\ PasskeyInit /\ PermInit /\ TeamInit /\ KeyInit
    /\ LimiterInit /\ BrowserInit /\ RegistryInit

PartsNext ==
    \/ /\ focus = "passkeys" /\ PasskeyNext
       /\ UNCHANGED <<focus, permVars, teamVars, keyVars, limiterVars, browserVars, registryVars>>
    \/ /\ focus = "permissions" /\ PermNext
       /\ UNCHANGED <<focus, passkeyVars, teamVars, keyVars, limiterVars, browserVars, registryVars>>
    \/ /\ focus = "teams" /\ TeamNext
       /\ UNCHANGED <<focus, passkeyVars, permVars, keyVars, limiterVars, browserVars, registryVars>>
    \/ /\ focus = "keys" /\ KeyNext
       /\ UNCHANGED <<focus, passkeyVars, permVars, teamVars, limiterVars, browserVars, registryVars>>
    \/ /\ focus = "limiter" /\ LimiterNext
       /\ UNCHANGED <<focus, passkeyVars, permVars, teamVars, keyVars, browserVars, registryVars>>
    \/ /\ focus = "browser" /\ BrowserNext
       /\ UNCHANGED <<focus, passkeyVars, permVars, teamVars, keyVars, limiterVars, registryVars>>
    \/ /\ focus = "registry" /\ RegistryNext
       /\ UNCHANGED <<focus, passkeyVars, permVars, teamVars, keyVars, limiterVars, browserVars>>

PartsSpec == PartsInit /\ [][PartsNext]_partsVars

-----------------------------------------------------------------------------
(* Properties: those of the parts, and                                     *)

\* the type of every part, with the foreign keys of its tables (the rows of
\* passkeys, groups, nodes and team members belong to users that exist).
PartsTypeOK ==
    /\ focus \in Part
    /\ PasskeyTypeOK /\ PermTypeOK /\ TeamTypeOK /\ KeyTypeOK
    /\ LimiterTypeOK /\ BrowserTypeOK /\ RegistryTypeOK

=============================================================================
