CONSTANTS
    User = {u1, u2}
    Email = {e1, e2}
    Password = {p1, p2}
    Token = {t1}
    Account = {a1}
    Request = {r1, r2}
    Offers <- MCOffers
    NoUser = NoUser
    NoToken = NoToken
    Nil = Nil
SPECIFICATION Spec
SYMMETRY Symmetry
INVARIANTS TypeOK OldPasswordOnlyByRace TokensSpentOnce InvitationOpensOneAccount ResetStaysWithUser ProviderSignInsVouched EveryUserHasAWayIn
