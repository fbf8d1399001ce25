SPECIFICATION StoreSpec
CONSTANTS
    j1 = j1
    j2 = j2
    q1 = q1
    w1 = w1
    w2 = w2
    t1 = t1
    t2 = t2
    t3 = t3
    NULL = NULL
    JobIds = {j1, j2}
    Queues = {q1}
    Workers = {w1, w2}
    Tasks = {t1, t2}
    Operators = {}
    Reapers = {r1, r2}
    QueueOf <- TwoQueues
    Priority <- TwoPriorities
    MaxAttempts <- TwoBudgets
    DeadLetter <- TwoDeadLetter
    Delay <- TwoDelays
    WorkerOf <- TwoSlots
    Serves <- ServeAll
    SubmitDelays = {0}
    LeaseSecs = 0
    CoverSecs = 0
    RecoverBatch = 1
    TxAge = 0
    AgeCap = 0
    MaxRows = 3
SYMMETRY ReaperSymmetry
INVARIANTS CompletedLeavesNoneRunning DeadLetterRecorded
PROPERTIES OutcomesAreFinal ImplementsLeaseQueue
