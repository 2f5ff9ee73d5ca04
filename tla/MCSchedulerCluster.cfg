SPECIFICATION Spec
CONSTANTS
    n1 = n1
    n2 = n2
    cron = cron
    every = every
    Every <- MCEveryUnit
    Nodes = {n1, n2}
    Tasks = {cron}
    ClusterTasks = {cron}
    RetryTasks = {cron}
    CronTasks = {cron}
    CatchUp = 1
    LockTTL = 1
    MaxTime = 3
    MaxFaults = 1
VIEW ControlView
SYMMETRY NodeSymmetry
INVARIANTS
    LeaseExclusion
    LeaseHeld
    NoStorm
PROPERTIES
    ImplementsLease
CHECK_DEADLOCK FALSE
