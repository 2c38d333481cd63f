CONSTANTS
    User = {u1, u2}
    Email = {e1, e2}
    Token = {t1, t2}
    Request = {r1, r2}
    Deployments <- MCDeployments
    NoUser = NoUser
    NoToken = NoToken
    Nil = Nil
SPECIFICATION Spec
SYMMETRY Symmetry
INVARIANTS TypeOK LinkSignsInItsUser VerifiedWasProven
PROPERTIES GoodLinksStay ImplementsTickets
