SPECIFICATION Spec
CONSTANTS
    n1 = n1
    n2 = n2
    cron = cron
    every = every
    Every <- MCEvery
    Nodes = {n1, n2}
    Tasks = {cron}
    ClusterTasks = {cron}
    RetryTasks = {}
    CronTasks = {cron}
    CatchUp = 1
    LockTTL = 1
    MaxTime = 3
    MaxFaults = 0
INVARIANT OncePerOccurrence
CHECK_DEADLOCK FALSE
