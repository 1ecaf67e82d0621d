SPECIFICATION MediaSpec
CONSTANTS
    r1 = r1
    r2 = r2
    p1 = p1
    p2 = p2
    none = none
    j1 = j1
    j2 = j2
    w1 = w1
    NoPicture = none
    Request <- TwoRequests
    Picture <- TwoPictures
    MaxItems = 3
    MaxOps = 6
    SkipChecks = {TRUE, FALSE}
    Job <- TwoJobs
    Work <- OneWork
    Quote <- PlainId
    Mixes <- SomeMixes
    MaxPending = 3
SYMMETRY AllAlike
INVARIANTS ItemsHaveMedia NothingOrphaned UploadHeals NothingDangles PublishedIsStored
