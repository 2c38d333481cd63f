------------------------------ MODULE MCParts ------------------------------
EXTENDS Parts, TLC

CONSTANTS u1, u2, r1, r2, a1, a2, g1, g2, n1

\* YAML files: two with one default group, one with two of them, one with none.
Groups(defaults, nodes) ==
    [groups |-> {g1, g2}, defaults |-> defaults, effective |-> (g1 :> nodes @@ g2 :> {})]

MCFiles ==
    {Groups({g1}, {n1}), Groups({g1, g2}, {n1}), Groups({}, {}),
     [groups |-> {g1}, defaults |-> {g1}, effective |-> (g1 :> {} @@ g2 :> {})]}

Symmetry ==
    Permutations({u1, u2}) \cup Permutations({r1, r2}) \cup Permutations({a1, a2})

=============================================================================
