SPECIFICATION NodeSpec
CONSTANTS
    Parts = {"cluster", "lifecycle", "overlay"}
    Procs = {1, 2}
    Host <- MCHost
    Marks = {"healthy", "removed", "stale"}
    HeartbeatInterval = 2
    HeartbeatTimeout = 6
    HeartbeatOffline = 7
    PruneAfter = 8
    WriteDelay = 1
    MaxSilence = 4
    Instances = {p1}
    OverlayNets = {"tor", "i2p"}
    OvOps = {"restart", "regenerate", "apply", "disable"}
    I2PDSometimes = FALSE
    MaxOvStarts = 4
    OvFaults = 2
INVARIANTS
    MembershipSound
PROPERTIES
    MarksAreSticky
    MembershipSettles
    TermStops
    AddressPersists
    CloseCompletes
CHECK_DEADLOCK FALSE
