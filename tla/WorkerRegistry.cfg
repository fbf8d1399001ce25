SPECIFICATION Spec
CONSTANTS
    NULL = NULL
    Workers = {w1}
    heartbeat_interval = 3
    worker_ttl_secs = 14
    active_window_secs = 6
    Delay = 2
    StopTime = 3
    MaxMissed = 2
INVARIANTS RowsAreFresh LiveWorkersListed
PROPERTIES PrunedWorkerReturns DeadWorkersForgotten GaugeSettles
