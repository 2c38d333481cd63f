CONSTANTS
    User = {u1, u2}
    Session = {s1, s2}
    Family = {f1, f2}
    Token = {t1, t2, t3}
    Request = {r1, r2}
    NoRow = NoRow
    NoClaims = NoClaims
    Nil = Nil
SPECIFICATION Spec
SYMMETRY Symmetry
INVARIANTS TypeOK HashBinding DetectedFamilyDead NoFalseAlarm
PROPERTIES ImplementsLifecycle CondemnedFamilyAdmitsNobody
