SPECIFICATION QueueFairSpec
CONSTANTS
    p1 = p1
    p2 = p2
    c1 = c1
    c2 = c2
    Producers = {p1, p2}
    Consumers = {c1, c2}
    Quota <- MCQuota
    Limit = 4
INVARIANTS
    WakeupForFuture
PROPERTIES
    IsFifo
    QueueTerminates
