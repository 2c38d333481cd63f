CONSTANTS
    User = {u1}
    Secret = {x1, x2}
    Code = {c1, c2, c3, c4}
    BatchSize = 2
    Request = {r1, r2}
    NoRecord = NoRecord
    Nil = Nil
SPECIFICATION Spec
SYMMETRY Symmetry
INVARIANT RecoveryCodesUsedOnce
