SPECIFICATION SysSpecMaintained
CONSTANTS
    j1 = j1
    j2 = j2
    q1 = q1
    w1 = w1
    w2 = w2
    t1 = t1
    t2 = t2
    t3 = t3
    NULL = NULL
    JobIds = {j1}
    Queues = {q1}
    Workers = {w1}
    Tasks = {t1}
    Operators = {}
    Reapers = {r1}
    QueueOf <- OneQueue
    Priority <- OnePriority
    MaxAttempts <- OneBudget
    DeadLetter <- OneDeadLetter
    Delay <- OneDelay
    WorkerOf <- OneSlot
    Serves <- ServeAll
    SubmitDelays = {0}
    LeaseSecs = 1
    CoverSecs = 1
    RecoverBatch = 1
    TxAge = 0
    AgeCap = 0
    MaxRows = 4
PROPERTIES AbandonedJobsRecovered EveryJobSettles
