SPECIFICATION Spec
CONSTANTS
    t1 = t1
    t2 = t2
    t3 = t3
    w1 = w1
    w2 = w2
    NULL = NULL
    Slots = {t1, t2, t3}
    Workers = {w1, w2}
    WorkerOf <- TwoOfOne
    lease_secs = 3
    timeout_secs = 2
    Slack = 2
    LeaseDelay = 2
    RenewDelay = 1
    ReportDelay = 1
INVARIANTS LeaseOutlastsPhase OneRunner WorkIsNotLost
