SPECIFICATION Spec
CONSTANTS
    o1 = o1
    o2 = o2
    a1 = a1
    a2 = a2
    s1 = s1
    s2 = s2
    Owner <- OneOwner
    Admin <- OneAdmin
    Source <- OneSource
    Scales <- OnlyFew
    DraftForm = TRUE
    DeleteWorks = FALSE
PROPERTY ExplicitLock
