CONSTANTS
    r1 = r1
    r2 = r2
    r3 = r3
    r4 = r4
    u1 = u1
    u2 = u2
    Thread <- FourRequests
    User <- OneUser
    Mixes <- ApiOnly
    MaxConcurrent = 2
    UploadMax = 1
    RateMax = 3
    MaxTracked = 1
SPECIFICATION AdmissionSafeSpec
PROPERTIES
    QueueFullIsTrue
