SPECIFICATION IdentitySpec
CONSTANTS
    Parts = {"accounts", "twofactor", "signup", "admin", "requests", "ratelimit"}
    Reqs = {r1, r2}
    Passwords = {p1, p2}
    Sids = {s1, s2}
    Tokens = {k1}
    MaxFailedLogins = 1
    MaxCount = 1
    MaxFaults = 1
    TFReqs = {r1, r2}
    TFSids = {s1, s2}
    RecoveryCodes = {c1, c2}
    Require2FA = FALSE
    MaxSeeds = 2
    SignupReqs = {r1, r2}
    Usernames = {u1, u2}
    MaxUses = 1
    MaxBroken = 1
    AdminNodes = {n1, n2}
    AdminReqs = {r1, r2}
    MaxAdmins = 2
    MaxPrinted = 3
    AuthWirings = {{}, {"user_session"}}
    UserRole = "admin"
    TokenRole = "viewer"
    RlReqs = {r1, r2}
    RlBudget <- MCBudget
    RlWindow = 2
    MaxRlTime = 3
    RlFaults = 1
SYMMETRY Interchangeable
INVARIANTS
    AccountsSafe
    TwoFactorSound
    SignupSound
    BannerTokenAccepted
    RequestsSound
    BudgetHolds
PROPERTIES
    EndedStaysEnded
CHECK_DEADLOCK FALSE
