SPECIFICATION ServerSpec
CONSTANTS
    Parts = {"update"}
    Nodes = {n1, n2}
    Graces = {0, 1}
    MaxVersion = 3
    MaxValues = 4
    MaxTime = 3
    MaxEdits = 2
    MaxStarts = 2
    GeneratedKeys <- MCGeneratedKeys
    GeneratedPorts <- MCGeneratedPorts
    Instances = {n1, n2}
    BackupDays = 2
    TierOf <- MCTierOf
    KeepOf <- MCKeepOf
    BackupSizes = {1, 3}
    SizeCap = 2
    BackupRuns = {"daily", "manual"}
    BackupFaults = 1
    MaxSize = 1
    KeepRotated = 1
    MaxRecords = 5
    MaxLogTime = 2
    LogFaults = 1
    MaxMsg = 4
    Releases = {"v1", "v2", "v3b", "v4", "d5"}
    RelKind <- MCRelKind
    RelAt <- MCRelAt
    RelAssets <- MCRelAssets
    FirstRelease = "v1"
    DeferDays = 2
    AutoInstall = TRUE
    BuildLag = 1
    MaxUpdTime = 7
    UpdFaults = 1
    GeoEnabled = {"country", "city"}
    GeoAllow = {}
    GeoDeny = {"BB"}
    GeoReqs = {q1, q2}
    GeoAddrs = {"aa", "bb", "lan"}
    CountryOf <- MCCountryOf
    PrivateAddrs = {"lan"}
    MaxReaders = 4
    GeoFaults = 1
    UrlPeers = {"dns", "far"}
    PeerClass <- MCPeerClass
    UrlHosts <- MCUrlHosts
    HostClass <- MCHostClass
    HostBase <- MCHostBase
    OnionHost = "x.onion"
    UrlConfs <- MCUrlConfs
    MinSamples = 2
    SampleWindow = 1
    MaxUrlTime = 3
    MaxSamples = 3
SYMMETRY NodeSymmetry
PROPERTY NeverDowngrades
CHECK_DEADLOCK FALSE
