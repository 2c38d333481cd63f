----------------------------- MODULE MCAccounts -----------------------------
(* Small instances of Accounts for TLC. *)
EXTENDS Accounts, TLC

MCOffers == {{"register", "reset", "profile"}, {"invite", "profile"}, {"register", "provider"}}

Symmetry ==
    Permutations(User) \cup Permutations(Email) \cup Permutations(Password)
        \cup Permutations(Token) \cup Permutations(Account) \cup Permutations(Request)

=============================================================================
