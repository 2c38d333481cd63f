CONSTANTS
    User = {u1}
    Session = {s1}
    Family = {f1}
    Token = {t1, t2, t3}
    Request = {r1, r2}
    NoRow = NoRow
    NoClaims = NoClaims
    Nil = Nil
SPECIFICATION Spec
INVARIANT SingleUse
