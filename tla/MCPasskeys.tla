---------------------------- MODULE MCPasskeys ----------------------------
(* A small instance of Passkeys for TLC. *)
EXTENDS Passkeys, TLC

Symmetry ==
    Permutations(User) \cup Permutations(Challenge) \cup Permutations(Tab) \cup Permutations(Request)

=============================================================================
