SPECIFICATION ApiSpec
CONSTANTS
    j1 = j1
    j2 = j2
    q1 = q1
    w1 = w1
    w2 = w2
    t1 = t1
    t2 = t2
    t3 = t3
    NULL = NULL
    JobIds = {j1}
    Queues = {q1}
    Workers = {w1}
    Tasks = {t1}
    Operators = {op1}
    Reapers = {r1}
    QueueOf <- OneQueue
    Priority <- OnePriority
    MaxAttempts <- OneShot
    DeadLetter <- OneDeadLetter
    Delay <- OneShotDelay
    WorkerOf <- OneSlot
    Serves <- ServeAll
    SubmitDelays = {0}
    LeaseSecs = 0
    CoverSecs = 0
    RecoverBatch = 1
    TxAge = 0
    AgeCap = 0
    MaxRows = 2
    Watchers = {s1}
    MAX_POLLS = 2
INVARIANT FinalAnswersHold
PROPERTIES EveryStreamEnds ShutdownCompletes RecoveredAcrossRestarts
