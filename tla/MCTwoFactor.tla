---------------------------- MODULE MCTwoFactor ----------------------------
(* Small instances of TwoFactor for TLC. *)
EXTENDS TwoFactor, TLC

Symmetry ==
    Permutations(User) \cup Permutations(Secret) \cup Permutations(Code) \cup Permutations(Request)

=============================================================================
