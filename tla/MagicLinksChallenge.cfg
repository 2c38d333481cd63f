CONSTANTS
    User = {u1}
    Email = {e1}
    Token = {t1, t2}
    Request = {r1, r2}
    Deployments <- MCSecondFactor
    NoUser = NoUser
    NoToken = NoToken
    Nil = Nil
SPECIFICATION Spec
SYMMETRY Symmetry
INVARIANT ChallengeHalts
