CONSTANTS
    User = {u1, u2}
    Credential = {c1}
    Challenge = {ch1, ch2, ch3}
    Tab = {t1, t2}
    Request = {r1, r2}
    MaxCount = 3
    MaxRows = 2
    Nil = Nil
    NoRow = NoRow
SPECIFICATION PasskeySpec
SYMMETRY Symmetry
CHECK_DEADLOCK FALSE
PROPERTY CounterBackByRace
