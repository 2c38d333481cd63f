---------------------------- MODULE MCMagicLinks ----------------------------
(* Small instances of MagicLinks for TLC. *)
EXTENDS MagicLinks, TLC

Deployed(mode, role, useFor, profile) ==
    [mode |-> mode, role |-> role, useFor |-> useFor, profile |-> profile]

MCDeployments ==
    {Deployed("otp", "primary", "both", FALSE), Deployed("magic-link", "secondFactor", "login", FALSE),
     Deployed("magic-link", "primary", "register", TRUE)}

MCSecondFactor == {Deployed("otp", "secondFactor", "login", FALSE)}

Symmetry ==
    Permutations(User) \cup Permutations(Email) \cup Permutations(Token) \cup Permutations(Request)

=============================================================================
