SPECIFICATION TenancySpec
CONSTANTS
    Parts = {"orgs", "domains", "cachelock", "certificates"}
    r1 = r1
    r2 = r2
    Users = {a, b, c}
    Founder = a
    Deputy = b
    Reqs = {r1, r2}
    Grantees = {c}
    Asked = {"owner", "editor"}
    Codes = {c1}
    Tokens = {k1, k2, k3}
    MaxRequests = 4
    MaxPerUser = 1
    DomReqs = {r1, r2}
    DomOrgs = {o1, o2}
    DomNames = {"shop", "own"}
    DomKind <- MCDomKind
    DomAccepted = {"apex", "subdomain"}
    MaxDomainsPerOrg = 1
    MaxIds = 1
    MaxTokens = 2
    Lockers = {"w1", "w2", "w3"}
    LockNode <- MCLockNode
    CacheTTL = 2
    MaxCacheTime = 6
    CertHosts = {"own", "other"}
    CertFqdn = "own"
    ACMEEnabled = TRUE
    CertChallenge = "http-01"
    CertLife = 3
    RenewalWindow = 1
    MaxCertTime = 4
    MaxOrders = 3
    CertFaults = 1
SYMMETRY Interchangeable
INVARIANTS
    OrgsSafe
    DomainsSound
    LockExcludes
    CertificatesSound
PROPERTIES
    OwnershipFromOwners
CHECK_DEADLOCK FALSE
