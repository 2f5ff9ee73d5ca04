------------------------------- MODULE Signup -------------------------------
(***************************************************************************)
(* Registration of accounts and creation of shared organizations           *)
(* (src/server/service/auth.go Register and redeemInvite, org.go CreateOrg *)
(* and createPersonalOrg, src/user/mode.go).                               *)
(*                                                                         *)
(* Register redeems the invite, inserts the account, creates its personal  *)
(* organization and joins the inviting one, each in a transaction of its   *)
(* own.  User names and organization slugs are the same strings, but each  *)
(* table has a uniqueness constraint of its own.                           *)
(***************************************************************************)
EXTENDS Integers, FiniteSets

CONSTANTS
    SignupReqs,    \* request goroutines
    Usernames,     \* names that may be asked for
    MaxUses,       \* max_uses of the invitation
    MaxBroken      \* bound: registrations cut short

ASSUME SignupAssumption == MaxUses \in Nat \ {0} /\ MaxBroken \in Nat

VARIABLES
    mode,      \* users.registration.mode
    accounts,  \* names with a users row
    slug,      \* what holds each organizations.slug
    joined,    \* accounts that joined the inviting organization
    useCount,  \* invitations.use_count
    suPc,      \* the next transaction of each request
    suArg,     \* the name it registers and how it arrived
    invited,   \* accounts created on the strength of the invite (history)
    broken     \* registrations cut short

signupVars == <<mode, accounts, slug, joined, useCount, suPc, suArg, invited, broken>>

RegistrationModes == {"open", "invite", "admin_only", "disabled"}
Arrivals == {"admin", "invite", "self"}
NoSignup == [name |-> "none", how |-> "none"]

(* SelfServiceAllowed, InviteAllowed and AdminCreateAllowed.               *)
RegistrationAllowed(m, how) ==
    \/ how = "self" /\ m = "open"
    \/ how = "invite" /\ m \in {"open", "invite"}
    \/ how = "admin" /\ m # "disabled"

SignupInit ==
    /\ mode \in RegistrationModes
    /\ accounts = {}
    /\ slug = [n \in Usernames |-> "free"]
    /\ joined = {}
    /\ useCount = 0
    /\ suPc = [r \in SignupReqs |-> "idle"]
    /\ suArg = [r \in SignupReqs |-> NoSignup]
    /\ invited = {}
    /\ broken = 0

SUGoto(r, label) == suPc' = [suPc EXCEPT ![r] = label] /\ UNCHANGED suArg
SUReturn(r) ==
    /\ suPc' = [suPc EXCEPT ![r] = "idle"]
    /\ suArg' = [suArg EXCEPT ![r] = NoSignup]

-----------------------------------------------------------------------------
(* Which policy applies is decided by how the request arrived.             *)
Register(r, n, how) ==
    /\ suPc[r] = "idle"
    /\ RegistrationAllowed(mode, how)
    /\ suPc' = [suPc EXCEPT ![r] = IF how = "invite" THEN "redeem" ELSE "create"]
    /\ suArg' = [suArg EXCEPT ![r] = [name |-> n, how |-> how]]
    /\ UNCHANGED <<mode, accounts, slug, joined, useCount, invited, broken>>

(* Mutant: the use is checked but only one of the racing requests counts.  *)
RedeemUncounted(r) ==
    /\ suPc[r] = "redeem"
    /\ \/ /\ useCount < MaxUses
          /\ useCount' \in {useCount, useCount + 1}
          /\ SUGoto(r, "create")
       \/ /\ useCount >= MaxUses
          /\ SUReturn(r)
          /\ UNCHANGED useCount
    /\ UNCHANGED <<mode, accounts, slug, joined, invited, broken>>

(* redeemInvite: the guard is part of the counting statement.              *)
RedeemInvite(r) ==
    /\ suPc[r] = "redeem"
    /\ \/ /\ useCount < MaxUses
          /\ useCount' = useCount + 1
          /\ SUGoto(r, "create")
       \/ /\ useCount >= MaxUses
          /\ SUReturn(r)
          /\ UNCHANGED useCount
    /\ UNCHANGED <<mode, accounts, slug, joined, invited, broken>>

(* A name already taken is a conflict; a redeemed use stays spent.         *)
CreateUser(r) ==
    LET n == suArg[r].name IN
    /\ suPc[r] = "create"
    /\ \/ /\ n \notin accounts
          /\ accounts' = accounts \union {n}
          /\ invited' = IF suArg[r].how = "invite" THEN invited \union {n} ELSE invited
          /\ SUGoto(r, "home")
       \/ /\ n \in accounts
          /\ SUReturn(r)
          /\ UNCHANGED <<accounts, invited>>
    /\ UNCHANGED <<mode, slug, joined, useCount, broken>>

(* createPersonalOrg: the user name is the slug, which may be taken.       *)
CreatePersonalOrg(r) ==
    LET n == suArg[r].name IN
    /\ suPc[r] = "home"
    /\ \/ /\ slug[n] = "free"
          /\ slug' = [slug EXCEPT ![n] = "personal"]
          /\ IF suArg[r].how = "invite" THEN SUGoto(r, "join") ELSE SUReturn(r)
       \/ /\ slug[n] # "free"
          /\ SUReturn(r)
          /\ UNCHANGED slug
    /\ UNCHANGED <<mode, accounts, joined, useCount, invited, broken>>

JoinInvitedOrg(r) ==
    /\ suPc[r] = "join"
    /\ joined' = joined \union {suArg[r].name}
    /\ SUReturn(r)
    /\ UNCHANGED <<mode, accounts, slug, useCount, invited, broken>>

(* CreateOrg by some member: only slugs are compared with the slug.        *)
CreateSharedOrg(n) ==
    /\ accounts # {}
    /\ slug[n] = "free"
    /\ slug' = [slug EXCEPT ![n] = "shared"]
    /\ UNCHANGED <<mode, accounts, joined, useCount, suPc, suArg, invited, broken>>

(* A statement fails or the process dies between two transactions.         *)
Break(r) ==
    /\ suPc[r] # "idle"
    /\ broken < MaxBroken
    /\ broken' = broken + 1
    /\ SUReturn(r)
    /\ UNCHANGED <<mode, accounts, slug, joined, useCount, invited>>

SignupNext ==
    \/ \E r \in SignupReqs :
        \/ \E n \in Usernames, how \in Arrivals : Register(r, n, how)
        \/ RedeemInvite(r) \/ CreateUser(r) \/ CreatePersonalOrg(r)
        \/ JoinInvitedOrg(r) \/ Break(r)
    \/ \E n \in Usernames : CreateSharedOrg(n)

-----------------------------------------------------------------------------
SignupTypeOK ==
    /\ mode \in RegistrationModes
    /\ accounts \subseteq Usernames /\ joined \subseteq accounts
    /\ slug \in [Usernames -> {"free", "shared", "personal"}]
    /\ useCount \in 0..MaxUses

(* Redeeming first is the safe direction: however registrations race on an *)
(* invitation and wherever they break off, it never lets in more accounts  *)
(* than the uses it has counted, and a member of the inviting organization *)
(* has a personal one as well.                                             *)
InviteCoversSignups ==
    /\ Cardinality(invited) <= useCount
    /\ \A n \in joined : n \in invited /\ slug[n] = "personal"

(* Registrations keep the tables well formed and invitations covered.      *)
SignupSound == SignupTypeOK /\ InviteCoversSignups

(* Register's comment: every user has a personal organization, since one   *)
(* without would have nowhere to put anything.                             *)
EveryAccountHasHome ==
    \A n \in accounts :
        \/ slug[n] = "personal"
        \/ \E r \in SignupReqs : suPc[r] = "home" /\ suArg[r].name = n
=============================================================================
