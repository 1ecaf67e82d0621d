SPECIFICATION Spec
CONSTANTS
    h = h
    w = w
    p1 = p1
    p2 = p2
    Home = h
    Worker <- TwoWorkers
    Poll <- TwoPolls
    LastStep = 3
    TTL = 2
    MaxTime = 6
    Prompt = TRUE
SYMMETRY PollsAlike
INVARIANTS HomeAndColdAreCurrent NothingExpiredIsTold
PROPERTY ShownNeverGoesBack
