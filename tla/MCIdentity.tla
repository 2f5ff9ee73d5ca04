----------------------------- MODULE MCIdentity -----------------------------
(***************************************************************************)
(* Who a caller is and what it may do, for TLC: accounts, second factor,   *)
(* sign-up, the administrator's setup, the way of a request through the    *)
(* middleware, and the rate limiter.  A behaviour runs one part, chosen at *)
(* the start, and leaves the others in their initial state.                *)
(***************************************************************************)
EXTENDS Accounts, TwoFactor, Signup, Admin, Requests, RateLimit, TLC

CONSTANT Parts \* the parts a run lets behaviours choose from

VARIABLE part

(* Two reads or one login in a window, two requests of any kind.           *)
MCBudget == "read" :> 2 @@ "login" :> 1 @@ "global" :> 2

identityVars == <<part, vars, twoFactorVars, signupVars, adminVars, requestVars, rateLimitVars>>

IdentityInit ==
    /\ part \in Parts
    /\ Init /\ TwoFactorInit /\ SignupInit /\ AdminInit /\ RequestsInit /\ RateLimitInit
    /\ part # "accounts" => user.status = "active" /\ ~user.old
    /\ part # "signup" => mode = "open"
    /\ part # "requests" => rqCookies = {}

IdentityNext ==
    /\ \/ /\ part = "accounts" /\ Next
          /\ UNCHANGED <<twoFactorVars, signupVars, adminVars, requestVars, rateLimitVars>>
       \/ /\ part = "twofactor" /\ TwoFactorNext
          /\ UNCHANGED <<vars, signupVars, adminVars, requestVars, rateLimitVars>>
       \/ /\ part = "signup" /\ SignupNext
          /\ UNCHANGED <<vars, twoFactorVars, adminVars, requestVars, rateLimitVars>>
       \/ /\ part = "admin" /\ AdminNext
          /\ UNCHANGED <<vars, twoFactorVars, signupVars, requestVars, rateLimitVars>>
       \/ /\ part = "requests" /\ RequestsNext
          /\ UNCHANGED <<vars, twoFactorVars, signupVars, adminVars, rateLimitVars>>
       \/ /\ part = "ratelimit" /\ RateLimitNext
          /\ UNCHANGED <<vars, twoFactorVars, signupVars, adminVars, requestVars>>
    /\ UNCHANGED part

IdentitySpec == IdentityInit /\ [][IdentityNext]_identityVars

Interchangeable ==
    Permutations(Reqs) \cup Permutations(Passwords)
        \cup Permutations(Sids) \cup Permutations(Tokens)
=============================================================================
