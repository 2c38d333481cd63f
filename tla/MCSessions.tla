----------------------------- MODULE MCSessions -----------------------------
(* Small instances of Sessions for TLC. *)
EXTENDS Sessions, TLC

\* Users, sessions, families, tokens and request slots are told apart by
\* equality only, and the properties of these runs name none of them.
Symmetry ==
    Permutations(User) \cup Permutations(Session) \cup Permutations(Family)
        \cup Permutations(Token) \cup Permutations(Request)

=============================================================================
