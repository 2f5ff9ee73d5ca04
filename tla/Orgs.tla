-------------------------------- MODULE Orgs --------------------------------
(***************************************************************************)
(* One shared organization (src/server/service/org.go, token.go and the    *)
(* store beneath them): its owner, its members and their roles, the zone   *)
(* grants, invitations and API tokens that hang on a membership.           *)
(*                                                                         *)
(* Every operation reads first (Access reads the organization and then the *)
(* caller's membership; some read the target's membership too), decides on *)
(* those copies, and writes in one statement or one transaction.  Between  *)
(* a read and the write any other request may come.  Deleting the          *)
(* organization cascades to members, grants and invitations, and a row     *)
(* that refers to a deleted organization cannot be inserted (foreign keys  *)
(* are on).  Audit rows and profile fields are left out.                   *)
(***************************************************************************)
EXTENDS Integers, FiniteSets

CONSTANTS
    Users,
    Founder,    \* the user who created the organization
    Deputy,     \* a member it already has, an admin
    Reqs,       \* request goroutines
    Grantees,   \* users that requests grant the zone to, or revoke it from
    Asked,      \* roles requests may ask for
    Codes,      \* invitations that may be issued, each for one use
    Tokens,     \* API tokens that may be issued
    MaxRequests,\* bound: requests in a behaviour
    MaxPerUser  \* users.tokens.max_per_user, when the cap is on

ASSUME OrgsAssumption ==
    /\ Founder \in Users /\ Deputy \in Users /\ Founder # Deputy
    /\ Grantees \subseteq Users
    /\ IsFiniteSet(Reqs) /\ IsFiniteSet(Tokens)
    /\ Asked \subseteq {"owner", "admin", "editor", "viewer"}
    /\ MaxRequests \in Nat
    /\ MaxPerUser \in Nat \ {0}

VARIABLES
    org,      \* the organizations row: does it exist, and owner_id
    role,     \* organization_members: the role of each user, or "none"
    grants,   \* zone_grants: the users granted the zone
    invites,  \* the invitations row of each code
    tokens,   \* the api_tokens row of each token
    pc,       \* where each request is
    arg,      \* what each request was given and has read
    begun,    \* how many requests have begun (bound)
    since,    \* was the holder of a token being checked a member meanwhile? (history)
    owners,   \* users who have held the owner role (history)
    joined    \* how often each code made somebody a member (history)

db == <<org, role, grants, invites, tokens>>
history == <<since, owners, joined>>
vars == <<db, pc, arg, begun, history>>

Rank == [none |-> 0, viewer |-> 1, editor |-> 2, admin |-> 3, owner |-> 4]
Roles == DOMAIN Rank \ {"none"}

(* rolePermissions, as far as these operations ask.                        *)
ManagesMembers(r) == r \in {"owner", "admin"}
ManagesTokens(r) == r \in {"owner", "admin"}
DeletesOrg(r) == r = "owner"

CanManageMember(r, target) ==
    ManagesMembers(r) /\ (r = "owner" \/ Rank[r] > Rank[target])

CanGrantRole(r, target) ==
    ManagesMembers(r) /\ (r = "owner" \/ Rank[r] > Rank[target])

(* Mutant: the role asked for is not capped.                               *)
CapRoleNone(issuer, requested) == requested

CapRole(issuer, requested) ==
    IF Rank[requested] > Rank[issuer] THEN issuer ELSE requested

-----------------------------------------------------------------------------
None == "none"
NoArg == [op |-> None, actor |-> None, target |-> None, ask |-> None,
          id |-> None, owner |-> None, mine |-> None]
(* The other fields of a row are kept while something can read them.       *)
Invite(st) == [st |-> st, role |-> None, by |-> None]
Token(st) == [st |-> st, user |-> None]
LiveTokens(u) == {k \in Tokens : tokens[k].st = "live" /\ tokens[k].user = u}

(* CreateOrg's transaction has made Founder owner and first member.        *)
Init ==
    /\ org = [in |-> TRUE, owner |-> Founder]
    /\ role = [u \in Users |-> IF u = Founder THEN "owner"
                               ELSE IF u = Deputy THEN "admin" ELSE None]
    /\ grants = {}
    /\ invites = [c \in Codes |-> Invite("unused")]
    /\ tokens = [k \in Tokens |-> Token("unused")]
    /\ pc = [r \in Reqs |-> "idle"]
    /\ arg = [r \in Reqs |-> NoArg]
    /\ begun = 0
    /\ since = [r \in Reqs |-> FALSE]
    /\ owners = {Founder}
    /\ joined = [c \in Codes |-> 0]

Begin(r, label, given) ==
    /\ pc[r] = "idle" /\ begun < MaxRequests
    /\ begun' = begun + 1
    /\ pc' = [pc EXCEPT ![r] = label]
    /\ arg' = [arg EXCEPT ![r] = given]
Return(r) ==
    /\ UNCHANGED begun
    /\ pc' = [pc EXCEPT ![r] = "idle"]
    /\ arg' = [arg EXCEPT ![r] = NoArg]
Goto(r, label) == pc' = [pc EXCEPT ![r] = label] /\ UNCHANGED <<arg, begun>>

Confer(u, new) ==
    /\ role' = [role EXCEPT ![u] = new]
    /\ owners' = IF new = "owner" THEN owners \cup {u} ELSE owners

-----------------------------------------------------------------------------
(* The operations that start with Access(org, actor); its first read is    *)
(* OrgByID, and the request ends there when the organization is gone.      *)
Request(r, op, u, v, ask, id) ==
    /\ org.in
    /\ Begin(r, "member", [op |-> op, actor |-> u, target |-> v, ask |-> ask, id |-> id,
                           owner |-> org.owner, mine |-> None])
    /\ since' = [since EXCEPT ![r] = op = "auth" /\ role[u] # None]
    /\ UNCHANGED <<db, owners, joined>>

(* What each operation checks before it reads or writes any further; the   *)
(* label is the statement that follows.                                    *)
Checked(a, mine) ==
    CASE a.op \in {"set-role", "grant-zone"} /\ ManagesMembers(mine) -> "target"
      [] a.op = "revoke-zone" /\ ManagesMembers(mine) -> "write"
      [] a.op = "remove" /\ a.owner # a.target ->
             IF a.target = a.actor THEN "write"
             ELSE IF ManagesMembers(mine) THEN "target" ELSE "idle"
      [] a.op = "transfer" /\ mine = "owner" /\ a.owner = a.actor /\ a.target # a.actor -> "write"
      [] a.op = "delete" /\ DeletesOrg(mine) -> "write"
      [] a.op = "invite" /\ ManagesMembers(mine) -> "write"
      [] a.op = "revoke-invite" /\ ManagesMembers(mine) -> "write"
      [] a.op = "issue" /\ ManagesTokens(mine) -> "count"
      [] a.op = "revoke-token" /\ ManagesTokens(mine) -> "write"
      [] a.op = "auth" -> "granted"
      [] OTHER -> "idle"

(* Mutant: a token is good without the membership behind it.               *)
AccessMemberTrusting(r) ==
    /\ pc[r] = "member"
    /\ IF arg[r].op # "auth" /\ (role[arg[r].actor] = None \/ Checked(arg[r], role[arg[r].actor]) = "idle")
       THEN Return(r)
       ELSE /\ pc' = [pc EXCEPT ![r] = Checked(arg[r], role[arg[r].actor])]
            /\ arg' = [arg EXCEPT ![r].mine = role[arg[r].actor], ![r].owner = None]
            /\ UNCHANGED begun
    /\ UNCHANGED <<db, history>>

(* Access, second read: the caller's Membership; then the checks.          *)
AccessMember(r) ==
    LET mine == role[arg[r].actor] IN
    /\ pc[r] = "member"
    /\ IF mine = None \/ Checked(arg[r], mine) = "idle"
       THEN Return(r)
       ELSE /\ pc' = [pc EXCEPT ![r] = Checked(arg[r], mine)]
            /\ arg' = [arg EXCEPT ![r].mine = mine, ![r].owner = None]
            /\ UNCHANGED begun
    /\ UNCHANGED <<db, history>>

(* The target's Membership, and whether the caller may act on that role.   *)
ReadTarget(r) ==
    LET a == arg[r]
        theirs == role[a.target] IN
    /\ pc[r] = "target"
    /\ IF /\ theirs # None
          /\ a.op \in {"set-role", "remove"} => CanManageMember(a.mine, theirs)
          /\ a.op = "set-role" => CanGrantRole(a.mine, a.ask)
       THEN Goto(r, "write") ELSE Return(r)
    /\ UNCHANGED <<db, history>>

Writing(r, op) == pc[r] = "write" /\ arg[r].op = op /\ Return(r)

(* UPDATE ... WHERE org_id AND user_id: nothing when the row is gone.      *)
SetMemberRole(r) ==
    LET a == arg[r] IN
    /\ Writing(r, "set-role")
    /\ IF role[a.target] # None THEN Confer(a.target, a.ask)
                                ELSE UNCHANGED <<role, owners>>
    /\ UNCHANGED <<org, grants, invites, tokens, since, joined>>

(* RemoveMember's transaction: membership, grants, tokens.                 *)
RemoveMember(r) ==
    LET u == arg[r].target IN
    /\ Writing(r, "remove")
    /\ IF role[u] # None
       THEN /\ role' = [role EXCEPT ![u] = None]
            /\ grants' = grants \ {u}
            /\ tokens' = [k \in Tokens |-> IF k \in LiveTokens(u)
                             THEN Token("revoked") ELSE tokens[k]]
       ELSE UNCHANGED <<role, grants, tokens>>
    /\ UNCHANGED <<org, invites, history>>

(* TransferOrg's transaction, rolled back when the new owner is no member. *)
TransferOrg(r) ==
    LET a == arg[r] IN
    /\ Writing(r, "transfer")
    /\ IF role[a.target] # None
       THEN /\ org' = [org EXCEPT !.owner = a.target]
            /\ role' = [role EXCEPT ![a.target] = "owner",
                                    ![a.actor] = IF @ = None THEN None ELSE "admin"]
            /\ owners' = owners \cup {a.target}
       ELSE UNCHANGED <<org, role, owners>>
    /\ UNCHANGED <<grants, invites, tokens, since, joined>>

(* DELETE FROM organizations, with its cascades; tokens have none.         *)
DeleteOrg(r) ==
    /\ Writing(r, "delete")
    /\ org' = [in |-> FALSE, owner |-> None]
    /\ role' = [u \in Users |-> None]
    /\ grants' = {}
    /\ invites' = [c \in Codes |-> IF invites[c].st = "unused" THEN invites[c]
                                   ELSE Invite("gone")]
    /\ UNCHANGED <<tokens, history>>

(* GrantZone replaces the row, RevokeZone deletes it.                      *)
GrantZone(r) ==
    /\ Writing(r, "grant-zone")
    /\ grants' = IF org.in THEN grants \cup {arg[r].target} ELSE grants
    /\ UNCHANGED <<org, role, invites, tokens, history>>

RevokeZone(r) ==
    /\ Writing(r, "revoke-zone")
    /\ grants' = grants \ {arg[r].target}
    /\ UNCHANGED <<org, role, invites, tokens, history>>

-----------------------------------------------------------------------------
(* InviteMember: the role asked for, capped to the inviter's.              *)
InviteMember(r) ==
    LET a == arg[r] IN
    /\ Writing(r, "invite")
    /\ IF org.in /\ invites[a.id].st = "unused"
       THEN invites' = [invites EXCEPT ![a.id] =
                [st |-> "open", role |-> CapRole(a.mine, a.ask), by |-> a.actor]]
       ELSE UNCHANGED invites
    /\ UNCHANGED <<org, role, grants, tokens, history>>

(* RevokeInvite: DeleteInvite, whatever the row's state.                   *)
RevokeInvite(r) ==
    LET c == arg[r].id IN
    /\ Writing(r, "revoke-invite")
    /\ invites' = IF invites[c].st = "unused" THEN invites
                  ELSE [invites EXCEPT ![c] = Invite("gone")]
    /\ UNCHANGED <<org, role, grants, tokens, history>>

(* AcceptInvite: redeemInvite reads the invitation, ...                    *)
AcceptInvite(r, u, c) ==
    /\ invites[c].st = "open"
    /\ Begin(r, "redeem", [op |-> "accept", actor |-> u, target |-> invites[c].by,
                           ask |-> invites[c].role, id |-> c, owner |-> None, mine |-> None])
    /\ UNCHANGED <<db, history>>

(* ... RedeemInvite counts the use, guarded in the statement itself, ...   *)
RedeemInvite(r) ==
    LET c == arg[r].id IN
    /\ pc[r] = "redeem"
    /\ IF invites[c].st = "open"
       THEN invites' = [invites EXCEPT ![c] = Invite("used")] /\ Goto(r, "join")
       ELSE UNCHANGED invites /\ Return(r)
    /\ UNCHANGED <<org, role, grants, tokens, history>>

(* ... and AddMember inserts, unless the user is a member already or the   *)
(* organization has been deleted.                                          *)
AddMember(r) ==
    LET a == arg[r] IN
    /\ pc[r] = "join"
    /\ IF org.in /\ role[a.actor] = None
       THEN /\ Confer(a.actor, a.ask)
            /\ joined' = [joined EXCEPT ![a.id] = @ + 1]
            /\ since' = [s \in Reqs |-> since[s] \/ (arg[s].op = "auth" /\ arg[s].actor = a.actor)]
       ELSE UNCHANGED <<role, history>>
    /\ Return(r)
    /\ UNCHANGED <<org, grants, invites, tokens>>

-----------------------------------------------------------------------------
(* IssueToken counts the user's live tokens, ...                           *)
CountLiveTokens(r) ==
    /\ pc[r] = "count"
    /\ IF Cardinality(LiveTokens(arg[r].actor)) < MaxPerUser
       THEN Goto(r, "write") ELSE Return(r)
    /\ UNCHANGED <<db, history>>

(* ... and stores the new one; its role is left out, because the role a    *)
(* token gives is capped again by the membership whenever it is used.      *)
CreateToken(r) ==
    LET a == arg[r] IN
    /\ Writing(r, "issue")
    /\ \E k \in Tokens :
          /\ tokens[k].st = "unused"
          /\ tokens' = [tokens EXCEPT ![k] =
                [st |-> "live", user |-> a.actor]]
    /\ UNCHANGED <<org, role, grants, invites, history>>

(* RevokeToken by its owner: read and write (the guard repeats the read).  *)
RevokeToken(k) ==
    /\ tokens[k].st = "live"
    /\ tokens' = [tokens EXCEPT ![k] = Token("revoked")]
    /\ UNCHANGED <<org, role, grants, invites, pc, arg, begun, history>>

(* RevokeOrgToken by a token manager, after Access.                        *)
RevokeOrgToken(r) ==
    LET k == arg[r].id IN
    /\ Writing(r, "revoke-token")
    /\ tokens' = IF tokens[k].st = "live" THEN [tokens EXCEPT ![k] = Token("revoked")] ELSE tokens
    /\ UNCHANGED <<org, role, grants, invites, history>>

(* AuthenticateToken reads a usable token, then resolves the access of its *)
(* owner; "granted" is the call's answer.                                  *)
AuthenticateToken(r, k) ==
    /\ tokens[k].st = "live"
    /\ Request(r, "auth", tokens[k].user, None, None, k)

Granted(r) ==
    /\ pc[r] = "granted"
    /\ Return(r)
    /\ since' = [since EXCEPT ![r] = FALSE]
    /\ UNCHANGED <<db, owners, joined>>

-----------------------------------------------------------------------------
Step(r) ==
    \/ AccessMember(r) \/ ReadTarget(r)
    \/ SetMemberRole(r) \/ RemoveMember(r) \/ TransferOrg(r) \/ DeleteOrg(r)
    \/ GrantZone(r) \/ RevokeZone(r)
    \/ InviteMember(r) \/ RevokeInvite(r) \/ RedeemInvite(r) \/ AddMember(r)
    \/ CountLiveTokens(r) \/ CreateToken(r) \/ RevokeOrgToken(r) \/ Granted(r)

Next ==
    \/ \E k \in Tokens : RevokeToken(k)
    \/ \E r \in Reqs :
          \/ Step(r)
          \/ \E u, v \in Users, ask \in Asked : Request(r, "set-role", u, v, ask, None)
          \/ \E u, v \in Users, op \in {"remove", "transfer"} : Request(r, op, u, v, None, None)
          \/ \E u \in Users, v \in Grantees, op \in {"grant-zone", "revoke-zone"} :
                Request(r, op, u, v, None, None)
          \/ \E u \in Users, op \in {"delete", "issue"} : Request(r, op, u, None, None, None)
          \/ \E u \in Users, c \in Codes :
                \/ \E ask \in Asked : Request(r, "invite", u, None, ask, c)
                \/ Request(r, "revoke-invite", u, None, None, c)
                \/ AcceptInvite(r, u, c)
          \/ \E u \in Users, k \in Tokens : Request(r, "revoke-token", u, None, None, k)
          \/ \E k \in Tokens : AuthenticateToken(r, k)

Spec == Init /\ [][Next]_vars

-----------------------------------------------------------------------------
(* Type invariant.                                                         *)
TypeOK ==
    /\ org \in [in : BOOLEAN, owner : Users \cup {None}]
    /\ role \in [Users -> Roles \cup {None}]
    /\ grants \subseteq Users
    /\ invites \in [Codes -> [st : {"unused", "open", "used", "gone"},
                              role : Roles \cup {None}, by : Users \cup {None}]]
    /\ tokens \in [Tokens -> [st : {"unused", "live", "revoked"},
                              user : Users \cup {None}]]
    /\ pc \in [Reqs -> {"idle", "member", "target", "write", "count", "granted",
                        "redeem", "join"}]
    /\ \A r \in Reqs : pc[r] \in {"target", "write", "count"} => arg[r].mine \in Roles
    /\ begun \in 0 .. MaxRequests
    /\ since \in [Reqs -> BOOLEAN]
    /\ owners \subseteq Users
    /\ joined \in [Codes -> Nat]

(* AuthenticateToken's comment: a credential stops working when its holder *)
(* left the organization, even one issued after the revocation sweep.  A   *)
(* token is accepted only if its holder was a member at some time since    *)
(* the request began.                                                      *)
RemovedIsLockedOut ==
    \A r \in Reqs : pc[r] = "granted" => since[r]

(* CanGrantRole and CapRole: whoever becomes an owner owes it, directly or *)
(* through an invitation, to somebody who has been one, whatever changes   *)
(* of role overtake the request that confers it.                           *)
OwnershipFromOwners ==
    [][\A u \in Users : role[u] # "owner" /\ role'[u] = "owner" =>
          \E r \in Reqs : /\ pc[r] \in {"write", "join"} /\ pc'[r] = "idle"
                          /\ (IF pc[r] = "join" THEN arg[r].target ELSE arg[r].actor) \in owners]_vars

(* RedeemInvite's comment: requests racing on the last use of an           *)
(* invitation cannot both succeed.                                         *)
InviteNotOverused == \A c \in Codes : joined[c] <= 1

(* Nothing that hangs on the organization outlives it, although requests   *)
(* that had found it still write afterwards.                               *)
NoOrphans ==
    ~org.in => /\ \A u \in Users : role[u] = None
               /\ grants = {}
               /\ \A c \in Codes : invites[c].st # "open"

(* The token cap is checked before the insert, so requests of one user may *)
(* overrun it together, but by no more than the number of the others.      *)
QuotaOverrunBounded ==
    \A u \in Users :
        Cardinality(LiveTokens(u)) <= MaxPerUser + Cardinality(Reqs) - 1

(* What keeps an organization's rows consistent under racing requests.     *)
OrgsSafe ==
    TypeOK /\ RemovedIsLockedOut /\ InviteNotOverused /\ NoOrphans /\ QuotaOverrunBounded

(* CreateOrg's comment: an organization without an owner row would be      *)
(* unreachable; so the user owner_id names is a member.                    *)
OwnerIsMember == org.in => role[org.owner] # None
=============================================================================
