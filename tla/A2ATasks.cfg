\* One task with three attempts, which share a pool of two threads that hung handlers fill.
\* Ttls holds a ttl below the deadline and one that reaches it.
SPECIFICATION A2AFairSpec
CONSTANTS
    Task = {t1}
    MaxAttempts = 3
    Ttls = {1, 3}
    Deadline = 3
    PoolSize = 2
    MaxCancels = 2
    MaxLapses = 1
INVARIANTS
    CanceledStaysSilent
    OneLateAttempt
    SoleAttempt
    RefusedOnlyWhenOver
PROPERTY TaskIsAnswered
CHECK_DEADLOCK FALSE
