CONSTANTS
    User = {u1}
    App = {web, spa}
    Public = {spa}
    Code = {c1}
    Token = {t1, t2, t3, t4}
    Family = {f1, f2}
    Scope = {offline, email}
    OfflineAccess = offline
    Request = {r1, r2}
    Unused = Unused
    Gone = Gone
    Nil = Nil
SPECIFICATION Spec
SYMMETRY Symmetry
INVARIANTS TypeOK CodeOpensOneFamily GrantBounded PublicClientsProve ForksOnlyByRace
PROPERTY CondemnedTokensStayOut
