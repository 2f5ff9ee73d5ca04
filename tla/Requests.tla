------------------------------ MODULE Requests ------------------------------
(***************************************************************************)
(* A request on its way through the middleware chain (src/server/          *)
(* middleware) to the handler of its route (src/server/handler): which     *)
(* stage answers it, as whom the Auth stage identifies the caller, which   *)
(* guard the handler applies and which service operation it reaches.  The  *)
(* route tables are the ones of the REST mux, of its documentation and of  *)
(* the server-rendered pages.                                              *)
(***************************************************************************)
EXTENDS Integers

CONSTANTS
    AuthWirings,    \* the values of AuthOptions.SessionCookieNames to check
    UserRole,       \* the caller's role in the organization
    TokenRole       \* the role the caller's API token was narrowed to

UserSession == "user_session"

ASSUME RequestsAssumption ==
    /\ AuthWirings \subseteq SUBSET {UserSession}
    /\ {UserRole, TokenRole} \subseteq {"owner", "admin", "editor", "viewer"}

VARIABLES
    rqCookies, \* AuthOptions.SessionCookieNames of this server
    rq,        \* the request
    rqStage,   \* the stage it is at
    rqWho,     \* the identity in its context
    rqCors,    \* the Access-Control-Allow-* headers of the response
    rqAnswer,  \* the response
    rqDone     \* the service operation that was called

requestVars == <<rqCookies, rq, rqStage, rqWho, rqCors, rqAnswer, rqDone>>

-----------------------------------------------------------------------------
(* The routes: a name, the guard of the handler, the permission the        *)
(* service operation behind it requires in the organization ("none" where  *)
(* it is about the caller's own account), the operation, whether the       *)
(* method is a safe one and whether the operation changes anything.        *)
RouteRow(name, guard, needs, op, safe, changes) ==
    [name |-> name, guard |-> guard, needs |-> needs, op |-> op, safe |-> safe, changes |-> changes]
Reads(name, guard, needs, op) == RouteRow(name, guard, needs, op, TRUE, FALSE)
Writes(name, guard, needs, op) == RouteRow(name, guard, needs, op, FALSE, TRUE)

SigninHandlers ==
    {Writes("api.register", "open", "none", "Register"),
     Writes("api.register.invite", "open", "none", "Register"),
     Writes("api.login", "open", "none", "Login"),
     Writes("api.2fa", "cookie", "none", "VerifyTwoFactor"),
     Writes("api.logout", "open", "none", "Logout")}

RecoveryHandlers ==
    {Writes("api.password.forgot", "open", "none", "StartPasswordReset"),
     Writes("api.password.reset", "open", "none", "CompletePasswordReset"),
     Writes("api.email.verify", "open", "none", "CompleteEmailVerification")}

ProfileHandlers ==
    {Reads("api.me", "user", "none", "User"),
     Writes("api.profile.update", "user", "none", "UpdateProfile")}
PreferenceHandlers ==
    {Reads("api.preferences", "user", "none", "Preferences"),
     Writes("api.preferences.update", "user", "none", "SavePreferences")}

SecurityHandlers ==
    {Reads("api.security", "user", "none", "SecurityOverview"),
     Writes("api.password.change", "session", "none", "ChangePassword"),
     Writes("api.email.change", "session", "none", "StartEmailVerification"),
     Reads("api.sessions", "user", "none", "ListSessions"),
     Writes("api.sessions.revoke", "user", "none", "RevokeSession")}

CredentialHandlers ==
    {Writes("api.2fa.start", "session", "none", "StartTwoFactor"),
     Writes("api.2fa.confirm", "session", "none", "ConfirmTwoFactor"),
     Writes("api.2fa.disable", "session", "none", "DisableTwoFactor"),
     Reads("api.tokens", "user", "none", "ListTokens"),
     Writes("api.tokens.issue", "session", "tokens:manage", "IssueToken")}
TokenHandlers ==
    {Writes("api.tokens.revoke", "session", "none", "RevokeToken"),
     Reads("api.profile", "open", "none", "UserProfile")}

OrgHandlers ==
    {Reads("api.orgs", "user", "none", "OrgsForUser"),
     Writes("api.orgs.create", "session", "none", "CreateOrg"),
     Writes("api.invites.accept", "session", "none", "AcceptInvite"),
     Reads("api.org", "org", "org:read", "Access"),
     Writes("api.org.update", "org", "org:settings", "UpdateOrg"),
     Writes("api.org.delete", "org", "org:delete", "DeleteOrg")}

OrgAdminHandlers ==
    {Reads("api.org.settings", "org", "org:read", "Access"),
     Writes("api.org.settings.update", "org", "org:settings", "SetOrgVisibility"),
     Writes("api.org.transfer", "org", "org:transfer", "TransferOrg"),
     Reads("api.members", "org", "org:read", "Members"),
     Writes("api.members.role", "org", "members:manage", "SetMemberRole"),
     Writes("api.members.remove", "org", "members:manage", "RemoveMember")}

InviteHandlers ==
    {Reads("api.invites", "org", "members:manage", "ListInvites"),
     Writes("api.invites.create", "org", "members:manage", "InviteMember"),
     Writes("api.invites.revoke", "org", "members:manage", "RevokeInvite"),
     Reads("api.audit", "org", "org:settings", "OrgAudit")}

GrantHandlers ==
    {Reads("api.org.tokens", "org", "tokens:manage", "ListOrgTokens"),
     Writes("api.org.tokens.revoke", "org", "tokens:manage", "RevokeOrgToken"),
     Writes("api.zones.grant", "org", "members:manage", "GrantZone"),
     Writes("api.zones.revoke", "org", "members:manage", "RevokeZone")}

DomainHandlers ==
    {Reads("api.domains", "org", "org:read", "ListDomains"),
     Writes("api.domains.add", "org", "org:settings", "AddDomain"),
     Writes("api.domains.update", "org", "org:settings", "SetDomainPurpose"),
     Writes("api.domains.remove", "org", "org:settings", "RemoveDomain")}
DomainProofHandlers ==
    {Reads("api.domains.challenge", "org", "org:settings", "VerificationInstructions"),
     Writes("api.domains.verify", "org", "org:settings", "VerifyDomain"),
     Writes("api.domains.suspend", "org", "org:settings", "SuspendDomain")}

(* The pages.  webUser refuses a token and sends a caller without a        *)
(* session to the sign-in form.                                            *)
WebSigninPages ==
    {Reads("web.forms", "open", "none", "Page"),
     Writes("web.login", "open", "none", "Login"),
     Writes("web.register", "open", "none", "Register"),
     Writes("web.logout", "open", "none", "Logout")}
WebRecoveryPages ==
    {Writes("web.2fa", "cookie", "none", "VerifyTwoFactor"),
     Writes("web.password.forgot", "open", "none", "StartPasswordReset"),
     Writes("web.password.reset", "open", "none", "CompletePasswordReset"),
     RouteRow("web.email.verify", "open", "none", "CompleteEmailVerification", TRUE, TRUE)}
WebAccountPages ==
    {Reads("web.account", "web", "none", "User"),
     Writes("web.account.save", "web", "none", "UpdateProfile"),
     Reads("web.settings", "web", "none", "Preferences"),
     Writes("web.settings.save", "web", "none", "SavePreferences")}
WebSecurityPages ==
    {Reads("web.security", "web", "none", "SecurityOverview"),
     Writes("web.password.change", "web", "none", "ChangePassword"),
     Writes("web.2fa.start", "web", "none", "StartTwoFactor"),
     Writes("web.2fa.confirm", "web", "none", "ConfirmTwoFactor"),
     Writes("web.2fa.disable", "web", "none", "DisableTwoFactor")}
WebTokenPages ==
    {Writes("web.sessions.revoke", "web", "none", "RevokeSession"),
     Writes("web.tokens.issue", "web", "tokens:manage", "IssueToken"),
     Writes("web.tokens.revoke", "web", "none", "RevokeToken"),
     Reads("web.profile", "open", "none", "UserProfile")}
WebOrgPages ==
    {Reads("web.orgs", "web", "none", "OrgsForUser"),
     Writes("web.orgs.create", "web", "none", "CreateOrg"),
     Writes("web.invites.accept", "web", "none", "AcceptInvite")}
WebOrgProfilePages ==
    {Reads("web.org", "weborg", "org:read", "Access"),
     Writes("web.org.save", "weborg", "org:settings", "UpdateOrg")}
WebMemberPages ==
    {Writes("web.members.role", "weborg", "members:manage", "SetMemberRole"),
     Writes("web.members.remove", "weborg", "members:manage", "RemoveMember"),
     Writes("web.invites.create", "weborg", "members:manage", "InviteMember"),
     Writes("web.invites.revoke", "weborg", "members:manage", "RevokeInvite"),
     Reads("web.audit", "weborg", "org:settings", "OrgAudit")}
WebDomainPages ==
    {Writes("web.domains.add", "weborg", "org:settings", "AddDomain"),
     Reads("web.domain", "weborg", "org:read", "ListDomains"),
     Writes("web.domain.save", "weborg", "org:settings", "SetDomainPurpose"),
     Writes("web.domains.verify", "weborg", "org:settings", "VerifyDomain"),
     Writes("web.domains.remove", "weborg", "org:settings", "RemoveDomain")}

APIHandlers ==
    SigninHandlers \cup RecoveryHandlers \cup ProfileHandlers \cup PreferenceHandlers \cup SecurityHandlers
    \cup CredentialHandlers \cup TokenHandlers \cup OrgHandlers \cup OrgAdminHandlers \cup InviteHandlers
    \cup GrantHandlers \cup DomainHandlers \cup DomainProofHandlers
WebPages ==
    WebSigninPages \cup WebRecoveryPages \cup WebAccountPages \cup WebSecurityPages \cup WebTokenPages
    \cup WebOrgPages \cup WebOrgProfilePages \cup WebMemberPages \cup WebDomainPages
AllRoutes == APIHandlers \cup WebPages

(* What the API documentation says each operation accepts: "none", a       *)
(* browser session only, or a session or a token ("bearer").               *)
DocumentedAs(auth, ops) == ops \X {auth}
DocumentedSignin ==
    DocumentedAs("none", {"Register", "Login", "VerifyTwoFactor", "StartPasswordReset",
                          "CompletePasswordReset", "CompleteEmailVerification"})
    \cup DocumentedAs("session", {"Logout"})
DocumentedUsers ==
    DocumentedAs("bearer", {"User", "UpdateProfile", "Preferences", "SavePreferences",
                            "SecurityOverview", "ListSessions", "RevokeSession"})
    \cup DocumentedAs("session", {"ChangePassword", "StartEmailVerification", "StartTwoFactor",
                                "ConfirmTwoFactor", "DisableTwoFactor"})
DocumentedTokens ==
    DocumentedAs("bearer", {"ListTokens"}) \cup DocumentedAs("none", {"UserProfile"})
    \cup DocumentedAs("session", {"IssueToken", "RevokeToken", "AcceptInvite"})
DocumentedOrgs ==
    DocumentedAs("session", {"CreateOrg"})
    \cup DocumentedAs("bearer", {"OrgsForUser", "Access", "UpdateOrg", "DeleteOrg", "SetOrgVisibility",
                               "TransferOrg"})
DocumentedMembers ==
    DocumentedAs("bearer", {"Members", "SetMemberRole", "RemoveMember", "ListInvites", "InviteMember",
                            "RevokeInvite", "OrgAudit"})
DocumentedDomains ==
    DocumentedAs("bearer", {"ListOrgTokens", "RevokeOrgToken", "GrantZone", "RevokeZone", "ListDomains",
                            "AddDomain", "SetDomainPurpose", "RemoveDomain", "VerificationInstructions",
                            "VerifyDomain", "SuspendDomain"})
Documented ==
    DocumentedSignin \cup DocumentedUsers \cup DocumentedTokens \cup DocumentedOrgs \cup DocumentedMembers
    \cup DocumentedDomains \cup DocumentedAs("none", {"Page"})

-----------------------------------------------------------------------------
(* The permissions of the four roles.                                      *)
AdminPermissions ==
    {"org:read", "records:write", "zones:manage", "keys:manage", "keys:export", "tokens:manage",
     "members:manage", "org:settings"}
RolePermissions ==
    [owner |-> AdminPermissions \cup {"org:transfer", "org:delete"},
     admin |-> AdminPermissions,
     editor |-> {"org:read", "records:write"},
     viewer |-> {"org:read"}]
RoleCan(role, needs) == needs = "none" \/ needs \in RolePermissions[role]

(* A request: the route it names and how its path is spelled, the session  *)
(* cookie and the token it carries, the page it comes from, what it says   *)
(* of that page, whether it echoes the CSRF cookie, and whether it is a    *)
(* CORS preflight.  A page of another site cannot add headers, so it can   *)
(* neither send a bearer token nor echo the cookie, and what it declares   *)
(* is never the server's own origin.  The browser decides by SameSite      *)
(* whether its requests carry the session cookie.                          *)
CrossSiteCookie(r) == r.sameSite = "none" \/ (r.sameSite = "lax" /\ r.route.safe)
RequestSpace ==
    {r \in [route : AllRoutes, spelled : {"plain", "slash", "dotdot"},
             cookie : {"none", "user", "pending"}, token : {"none", "bearer", "query"},
             site : {"own", "other"}, origin : {"none", "own", "other"}, echo : BOOLEAN,
             sameSite : {"strict", "lax", "none"}, preflight : BOOLEAN] :
        /\ r.site = "own" => r.origin # "other"
        /\ r.site = "other" => /\ r.origin # "own" /\ r.token # "bearer" /\ ~r.echo
                               /\ CrossSiteCookie(r) \/ r.cookie = "none"
        /\ r.preflight \/ r.spelled # "plain" =>
              r.cookie = "user" /\ r.token = "none" /\ ~r.echo /\ r.sameSite = "none"}

NoRequest == [route |-> "none"]

At(stage) == rqStage = stage
Forward(stage) == rqStage' = stage /\ UNCHANGED <<rqCookies, rq, rqAnswer, rqDone>>
Answer(code) == rqStage' = "answered" /\ rqAnswer' = code /\ UNCHANGED <<rqCookies, rq, rqWho, rqDone>>

(* The public chain is New's; each stage answers or calls the next.        *)
ArriveRequest ==
    /\ At("idle")
    /\ \E r \in RequestSpace : rq' = r
    /\ rqStage' = "normalize"
    /\ UNCHANGED <<rqCookies, rqWho, rqCors, rqAnswer, rqDone>>

(* A trailing slash is redirected away (301); the path length, dot-dot and *)
(* encoded-separator checks answer 400.                                    *)
URLNormalize ==
    /\ At("normalize") /\ UNCHANGED rqCors
    /\ IF rq.spelled = "slash" THEN Answer(301) ELSE Forward("pathsec") /\ UNCHANGED rqWho
PathSecurity ==
    /\ At("pathsec") /\ UNCHANGED rqCors
    /\ IF rq.spelled = "dotdot" THEN Answer(400) ELSE Forward("cors") /\ UNCHANGED rqWho

(* web.cors wins when it names origins, "" turns the stage off; otherwise  *)
(* DOMAIN and the host a trusted proxy forwards name the server's own      *)
(* origins, and with neither the answer is "*".  Credentials go with a     *)
(* named list only.                                                        *)
CORSDecisions ==
    [enabled : {FALSE}, explicit : {FALSE}, origins : {{}}]
    \cup [enabled : {TRUE}, explicit : {TRUE}, origins : {{"own"}}]
    \cup [enabled : {TRUE}, explicit : {FALSE}, origins : {{"*"}}]
CORSAllows(d, origin) == d.enabled /\ (d.explicit => origin \in d.origins)
CORS ==
    /\ At("cors")
    /\ \E d \in CORSDecisions :
          rqCors' = [origin |-> IF CORSAllows(d, rq.origin) THEN IF d.explicit THEN rq.origin ELSE "*"
                               ELSE "none",
                    credentials |-> d.explicit /\ CORSAllows(d, rq.origin)]
    /\ IF rq.preflight THEN Answer(204) ELSE Forward("csrf") /\ UNCHANGED rqWho

(* CSRFRequired: an unsafe method, no credential only a program can add, a *)
(* session cookie, and an origin that is not the server's own; a missing   *)
(* origin is trusted only under SameSite=Strict.  The default exempt_paths *)
(* take the whole REST surface out of the check.                           *)
CSRFRequired(r) ==
    /\ ~r.route.safe
    /\ r.token # "bearer"
    /\ r.cookie # "none"
    /\ r.route \notin APIHandlers
    /\ ~(r.sameSite = "strict" /\ r.origin = "none")
    /\ r.origin # "own"
\* Mutant: a request that declares no origin is taken for the server's own.
CSRFPassesSilent(r) == (CSRFRequired(r) /\ r.origin # "none") => r.echo
CSRFPasses(r) == CSRFRequired(r) => r.echo
CSRF ==
    /\ At("csrf") /\ UNCHANGED rqCors
    /\ IF CSRFPasses(rq) THEN Forward("ratelimit") /\ UNCHANGED rqWho ELSE Answer(403)

(* The access lists are left disabled by startup and pass everything.  The *)
(* rate limit may refuse (RateLimit.tla); a failing store lets through.    *)
RateLimitStage ==
    /\ At("ratelimit") /\ UNCHANGED rqCors
    /\ \/ Forward("geoip") /\ UNCHANGED rqWho
       \/ Answer(429)
(* A country on the deny list is refused, everything else is annotated.    *)
GeoIPStage ==
    /\ At("geoip") /\ UNCHANGED rqCors
    /\ \/ Forward("auth") /\ UNCHANGED rqWho
       \/ Answer(403)

(* resolveIdentity: the cookies the stage was told of, then the token.     *)
VerifySession(cookie) ==
    CASE cookie = "user" -> "session" [] cookie = "pending" -> "pending" [] OTHER -> "none"
VerifyToken(token) == IF token = "none" THEN "none" ELSE "token"
ResolveIdentity(r) ==
    IF UserSession \in rqCookies /\ VerifySession(r.cookie) # "none" THEN VerifySession(r.cookie)
    ELSE VerifyToken(r.token)

(* IsPublicPath: the sign-in tree, the vanity profiles, /orgs/{slug} and   *)
(* every page.                                                             *)
PublicRoutes ==
    WebPages \cup SigninHandlers \cup RecoveryHandlers
    \cup {row \in APIHandlers : row.name \in {"api.profile", "api.org", "api.org.update", "api.org.delete"}}

AuthStage ==
    /\ At("auth") /\ UNCHANGED rqCors
    /\ LET who == ResolveIdentity(rq) IN
       IF who # "none" \/ rq.route \in PublicRoutes
       THEN Forward("handler") /\ rqWho' = who
       ELSE Answer(401)

(* The guards of the handlers: 0 lets the request on.                      *)
RequireUser(who) == CASE who = "none" -> 401 [] who = "pending" -> 401 [] OTHER -> 0
RequireSession(who) == IF RequireUser(who) = 0 /\ who = "token" THEN 403 ELSE RequireUser(who)
WebUser(who) == IF who = "session" THEN 0 ELSE 303
GuardAnswer(r, who) ==
    LET guard == r.route.guard IN
    CASE guard = "open" -> 0
      [] guard = "cookie" -> IF r.cookie = "none" THEN 401 ELSE 0
      [] guard \in {"user", "org"} -> RequireUser(who)
      [] guard = "session" -> RequireSession(who)
      [] guard \in {"web", "weborg"} -> WebUser(who)

(* The handler: its guard, the body it decodes, and the service operation, *)
(* which checks the permission of the caller's role and may fail for its   *)
(* own reasons.                                                            *)
Handle ==
    /\ At("handler")
    /\ LET guard == GuardAnswer(rq, rqWho) IN
       IF guard # 0 THEN Answer(guard)
       ELSE IF ~RoleCan(UserRole, rq.route.needs) THEN Answer(403)
       ELSE \/ Answer(400)
            \/ /\ rqStage' = "answered" /\ rqAnswer' = 200 /\ rqDone' = rq.route.op
               /\ UNCHANGED <<rqCookies, rq, rqWho>>
    /\ UNCHANGED rqCors

(* The access log is written and the connection is done with the request.  *)
FinishRequest ==
    /\ At("answered")
    /\ rqStage' = "idle" /\ rq' = NoRequest /\ rqWho' = "none" /\ rqAnswer' = 0 /\ rqDone' = "none"
    /\ rqCors' = [origin |-> "none", credentials |-> FALSE]
    /\ UNCHANGED rqCookies

RequestsInit ==
    /\ rqCookies \in AuthWirings
    /\ rq = NoRequest /\ rqStage = "idle" /\ rqWho = "none" /\ rqAnswer = 0 /\ rqDone = "none"
    /\ rqCors = [origin |-> "none", credentials |-> FALSE]

RequestsNext ==
    \/ ArriveRequest \/ URLNormalize \/ PathSecurity \/ CORS \/ CSRF \/ RateLimitStage \/ GeoIPStage
    \/ AuthStage \/ Handle \/ FinishRequest

-----------------------------------------------------------------------------
(* What a request did happened as documented: an operation the API         *)
(* documentation reserves to a browser session was asked for by one that   *)
(* answered its second factor, one it opens to tokens by a session or a    *)
(* token, on the REST surface and on the pages alike.  Logout is left out: *)
(* its handler ends whatever session the cookie names and asks for none.   *)
DocumentedAuthEnforced ==
    rqDone \notin {"none", "Logout"} =>
        /\ <<rqDone, "session">> \in Documented => rqWho = "session"
        /\ <<rqDone, "bearer">> \in Documented => rqWho \in {"session", "token"}

(* The operations that act with the authority of the session cookie.       *)
ActsAsSession(r) == r.route.guard # "open" \/ r.route.op = "Logout"

(* A page of another site has no power over a signed-in visitor: what its  *)
(* requests to the server's pages change, they do not change on the        *)
(* authority of the visitor's session (CSRF), and it may not read the      *)
(* answer to a request that carried the session (CORS).                    *)
CrossSitePowerless ==
    (rqStage = "answered" /\ rq.site = "other" /\ rq.cookie # "none") =>
        /\ ~(/\ rq.route \in WebPages
             /\ rqDone # "none" /\ rq.route.changes /\ ActsAsSession(rq))
        /\ ~(rqCors.credentials /\ rqCors.origin = rq.origin)

(* Whatever headers a request carries, the chain of middleware and guards  *)
(* lets it do only what its credentials and its origin allow.              *)
RequestsSound == DocumentedAuthEnforced /\ CrossSitePowerless

(* A caller holding a token does no more than the role the token was       *)
(* narrowed to allows (verifier.go VerifyToken: "a handler asking what a   *)
(* token may do gets the capped answer, never the issuer's full            *)
(* standing").  currentUser drops the scopes and every handler asks about  *)
(* the user.                                                               *)
TokenStaysNarrowed ==
    (rqDone # "none" /\ rqWho = "token") => RoleCan(TokenRole, rq.route.needs)

(* A visitor with a valid session cookie is recognised by every handler    *)
(* (api.go IsPublicPath: "The middleware still resolves a session when the *)
(* request carries one, so a signed-in visitor is recognised on exactly    *)
(* the same paths").  startup names no cookie to the Auth stage.           *)
SignedInRecognised ==
    (rqStage = "handler" /\ rq.cookie = "user") => rqWho = "session"
=============================================================================
