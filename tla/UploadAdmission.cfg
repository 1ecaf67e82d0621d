CONSTANTS
    r1 = r1
    r2 = r2
    r3 = r3
    r4 = r4
    u1 = u1
    u2 = u2
    Thread <- ThreeRequests
    User <- TwoUsers
    Mixes <- AllMixes
    MaxConcurrent = 1
    UploadMax = 1
    RateMax = 2
    MaxTracked = 1
SPECIFICATION AdmissionSpec
INVARIANTS
    SessionsWithinLimit
    AccountsBalance
PROPERTIES
    EveryRequestEnds
