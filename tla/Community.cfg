SPECIFICATION Spec
CONSTANTS
    r1 = r1
    r2 = r2
    w1 = w1
    w2 = w2
    w3 = w3
    i1 = i1
    ann = ann
    bob = bob
    n1 = n1
    n2 = n2
    t1 = t1
    t2 = t2
    t3 = t3
    s1 = s1
    Request <- Two
    Work <- AllWorks
    Item <- OneItem
    NoWork = none
    User <- OneUser
    Reader <- Readers
    Name <- TwoNames
    Title <- AllTitles
    Slug <- OneSlug
    Mixes <- Mixed
SYMMETRY Alike
INVARIANTS IndexIsFresh DerivedFollows ToldOnce GoneWithWork
