\* Each of the seven parts on its own instance.  The model values a1, a2 stand
\* for tabs, challenges, teams, sessions and callers.
CONSTANTS
    u1 = u1
    u2 = u2
    r1 = r1
    r2 = r2
    a1 = a1
    a2 = a2
    g1 = g1
    g2 = g2
    n1 = n1
    Nil = Nil
    NoRow = NoRow
    NoEntry = NoEntry
    Request = {r1, r2}
    User = {u1, u2}
    Person = {u1, u2}
    Credential = {c1}
    Challenge = {a1, a2}
    Tab = {a1, a2}
    MaxCount = 2
    MaxRows = 2
    Subject = {w1}
    Group = {g1, g2}
    Node = {n1}
    Files <- MCFiles
    Team = {a1, a2}
    App = {d1}
    Key = {k1, k2, k3}
    Caller = {a1, a2}
    Limit = 2
    Window = 4
    Second = 2
    MaxTime = 9
    Visitor = {v1}
    Session = {a1, a2}
    State = {s1}
    MaxSerial = 1
    Plugin = {p1, p2, p3}
    MaxPlugins = 3
SPECIFICATION PartsSpec
SYMMETRY Symmetry
CHECK_DEADLOCK FALSE
INVARIANTS PartsTypeOK OneSignInPerAnswer AnswersCurrent AtMostLimitPerWindow RetryAfterSuffices TeamKeepsAnOwner OneActiveKey JarIsCurrent OnlySignInsSignIn DependenciesFirst
PROPERTIES GoesByOwner
