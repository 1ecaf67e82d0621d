SPECIFICATION Spec
CONSTANTS
    r1 = r1
    r2 = r2
    c = c
    u1 = u1
    u2 = u2
    s1 = s1
    s2 = s2
    Request <- Two
    Subject <- Subjects
    Root = root
    Chosen <- OneChosen
    Uuid <- TwoUuids
    NoAccount = nobody
    Email = {boss, mail}
    NoEmail = none
    SuperEmail = boss
    Base = {n}
    MaxSuffix = 3
    MaxOps = 3
SYMMETRY Alike
INVARIANTS TypeOK SuperadminsAreMade
PROPERTIES AnswersStand ReturnsToOwnAccount
