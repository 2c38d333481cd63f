------------------------------ MODULE MCGrants ------------------------------
(* Small instances of Grants for TLC. *)
EXTENDS Grants, TLC

\* Apps differ in type and scopes in meaning; everything else is told apart by
\* equality only.
Symmetry ==
    Permutations(User) \cup Permutations(Code) \cup Permutations(Token)
        \cup Permutations(Family) \cup Permutations(Request)

=============================================================================
