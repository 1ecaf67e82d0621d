CONSTANTS
    t1 = t1
    t2 = t2
    t3 = t3
    t4 = t4
    t5 = t5
    t6 = t6
    Thread <- SixThreads
    MaxConcurrent = 2
SPECIFICATION Spec
INVARIANTS
    TypeOK
    CountersExact
    WithinLimit
    NoLostWakeup
PROPERTIES
    Answered
    ImplementsGate
