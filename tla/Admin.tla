------------------------------- MODULE Admin -------------------------------
(***************************************************************************)
(* The administrator of an installation (src/server/admin, the first run   *)
(* in src/startup/startup.go, --maintenance setup in src/startup/service.go*)
(* and src/backup/setup.go): a first start prints a one-time setup token   *)
(* and stores its hash, the setup wizard turns the token into the first    *)
(* administrator, who signs in and out, and the recovery command clears    *)
(* the credentials.  Every operation is a sequence of statements on two    *)
(* databases.  Nodes that share the databases may start at the same time.  *)
(***************************************************************************)
EXTENDS Naturals, FiniteSets

CONSTANTS
    AdminNodes,   \* nodes on the shared databases, each with its config file
    AdminReqs,    \* browsers and operators: request goroutines and commands
    MaxAdmins,    \* bound: rows of adminRow
    MaxPrinted    \* bound: setup tokens generated

VARIABLES
    hasConfig,  \* nodes whose server.yml exists
    setupHash,  \* app_secrets.setup_token: the token it is the hash of, or 0
    generated,  \* setup tokens generated so far
    banner,     \* tokens printed in a startup banner
    reissued,   \* tokens printed by --maintenance setup
    adminRow,     \* admins: the password of each row, "none" when cleared
    admSessions,\* admin_sessions: the rows, by administrator
    admPc,      \* the next statement of each node or request
    admArg      \* what it has read: a token, an administrator

adminVars == <<hasConfig, setupHash, generated, banner, reissued, adminRow, admSessions, admPc, admArg>>

Actors == AdminNodes \cup AdminReqs
AdminIds == 1..MaxAdmins
CountAdmins == Cardinality({a \in AdminIds : adminRow[a] # "absent"})
NeedsSetup == CountAdmins = 0

AdminInit ==
    /\ hasConfig = {}
    /\ setupHash = 0
    /\ generated = 0
    /\ banner = {}
    /\ reissued = {}
    /\ adminRow = [a \in AdminIds |-> "absent"]
    /\ admSessions = {}
    /\ admPc = [x \in Actors |-> "idle"]
    /\ admArg = [x \in Actors |-> 0]

AdmTo(x, label, arg) == admPc' = [admPc EXCEPT ![x] = label] /\ admArg' = [admArg EXCEPT ![x] = arg]
AdmStay == UNCHANGED <<admPc, admArg>>

-----------------------------------------------------------------------------
(* FirstRun is decided before config.Load creates the file; a start may    *)
(* fail in any of the steps between.                                       *)
FirstRun(n) ==
    /\ admPc[n] = "idle"
    /\ n \notin hasConfig
    /\ hasConfig' = hasConfig \cup {n}
    /\ \/ generated < MaxPrinted /\ generated' = generated + 1 /\ AdmTo(n, "ensure", generated + 1)
       \/ UNCHANGED generated /\ AdmStay
    /\ UNCHANGED <<setupHash, banner, reissued, adminRow, admSessions>>

(* EnsureSecret stores the hash unless there is one, ...                   *)
EnsureSetupToken(n) ==
    /\ admPc[n] = "ensure"
    /\ setupHash' = IF setupHash = 0 THEN admArg[n] ELSE setupHash
    /\ AdmTo(n, "announce", admArg[n])
    /\ UNCHANGED <<hasConfig, generated, banner, reissued, adminRow, admSessions>>

(* Mutant: the banner shows the token that was generated.                  *)
AnnounceGenerated(n) ==
    /\ admPc[n] = "announce"
    /\ banner' = banner \cup {admArg[n]}
    /\ AdmTo(n, "idle", 0)
    /\ UNCHANGED <<hasConfig, setupHash, generated, reissued, adminRow, admSessions>>

(* ... and the banner shows the token only if it is the one stored.        *)
AnnounceToken(n) ==
    /\ admPc[n] = "announce"
    /\ banner' = IF setupHash = admArg[n] THEN banner \cup {admArg[n]} ELSE banner
    /\ AdmTo(n, "idle", 0)
    /\ UNCHANGED <<hasConfig, setupHash, generated, reissued, adminRow, admSessions>>

-----------------------------------------------------------------------------
(* CompleteSetup counts the administrators, compares the token and inserts *)
(* the row: three statements.                                              *)
CompleteSetup(r, token) ==
    /\ admPc[r] = "idle"
    /\ NeedsSetup
    /\ AdmTo(r, "verifytoken", token)
    /\ UNCHANGED <<hasConfig, setupHash, generated, banner, reissued, adminRow, admSessions>>
VerifySetupToken(r) ==
    /\ admPc[r] = "verifytoken"
    /\ IF setupHash # 0 /\ admArg[r] = setupHash THEN AdmTo(r, "create", admArg[r]) ELSE AdmTo(r, "idle", 0)
    /\ UNCHANGED <<hasConfig, setupHash, generated, banner, reissued, adminRow, admSessions>>
CreateAdmin(r) ==
    /\ admPc[r] = "create"
    /\ \E a \in AdminIds : adminRow[a] = "absent" /\ adminRow' = [adminRow EXCEPT ![a] = "set"]
    /\ AdmTo(r, "idle", 0)
    /\ UNCHANGED <<hasConfig, setupHash, generated, banner, reissued, admSessions>>

(* Login verifies the password it has read, stamps the row and opens the   *)
(* session; the dashboard and logout look the session up by its hash.      *)
AdminLogin(r, a) ==
    /\ admPc[r] = "idle"
    /\ adminRow[a] = "set"
    /\ AdmTo(r, "opensession", a)
    /\ UNCHANGED <<hasConfig, setupHash, generated, banner, reissued, adminRow, admSessions>>
OpenAdminSession(r) ==
    /\ admPc[r] = "opensession"
    /\ admSessions' = admSessions \cup {admArg[r]}
    /\ AdmTo(r, "idle", 0)
    /\ UNCHANGED <<hasConfig, setupHash, generated, banner, reissued, adminRow>>
AdminLogout(a) ==
    /\ a \in admSessions
    /\ admSessions' = admSessions \ {a}
    /\ UNCHANGED <<hasConfig, setupHash, generated, banner, reissued, adminRow, admPc, admArg>>

(* --maintenance setup, for root or while there is no administrator:       *)
(* ClearAdminCredentials empties the hashes, and a token is generated and  *)
(* printed.                                                                *)
AuthorizeSetup(root) == root \/ NeedsSetup
ClearAdminCredentials ==
    adminRow' = [a \in AdminIds |-> IF adminRow[a] = "set" THEN "none" ELSE adminRow[a]]
RunSetup(r) ==
    /\ admPc[r] = "idle"
    /\ \E root \in BOOLEAN : AuthorizeSetup(root)
    /\ ClearAdminCredentials
    /\ AdmTo(r, "print", 0)
    /\ UNCHANGED <<hasConfig, setupHash, generated, banner, reissued, admSessions>>
PrintToken(r) ==
    /\ admPc[r] = "print"
    /\ generated < MaxPrinted
    /\ generated' = generated + 1
    /\ reissued' = reissued \cup {generated + 1}
    /\ AdmTo(r, "idle", 0)
    /\ UNCHANGED <<hasConfig, setupHash, banner, adminRow, admSessions>>

AdminNext ==
    \/ \E n \in AdminNodes : FirstRun(n) \/ EnsureSetupToken(n) \/ AnnounceToken(n)
    \/ \E r \in AdminReqs :
           \/ \E t \in banner \cup reissued : CompleteSetup(r, t)
           \/ VerifySetupToken(r) \/ CreateAdmin(r)
           \/ (\E a \in AdminIds : AdminLogin(r, a)) \/ OpenAdminSession(r)
           \/ RunSetup(r) \/ PrintToken(r)
    \/ \E a \in AdminIds : AdminLogout(a)

-----------------------------------------------------------------------------
(* A token a startup banner shows is the one the wizard accepts: of nodes  *)
(* that start at the same time on one database, and of starts after one    *)
(* that failed, only the one whose hash is stored shows its token.         *)
BannerTokenAccepted == banner \subseteq {setupHash}

(* The token --maintenance setup prints is one the first-run wizard        *)
(* accepts, as the command's documentation says (src/startup/service.go).  *)
RecoveryTokenAccepted ==
    \A t \in reissued : t = setupHash /\ NeedsSetup
=============================================================================
