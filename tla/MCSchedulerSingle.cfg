SPECIFICATION FairSpec
CONSTANTS
    n1 = n1
    n2 = n2
    cron = cron
    every = every
    Every <- MCEvery
    Nodes = {n1}
    Tasks = {cron, every}
    ClusterTasks = {cron}
    RetryTasks = {every}
    CronTasks = {cron}
    CatchUp = 1
    LockTTL = 1
    MaxTime = 3
    MaxFaults = 0
INVARIANTS
    OncePerOccurrence
    RunsAccounted
    DisabledNeverRuns
PROPERTIES
    NextRunNeverBack
    DueIsHandled
    StopTerminates
CHECK_DEADLOCK FALSE
