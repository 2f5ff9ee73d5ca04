------------------------------ MODULE Domains ------------------------------
(***************************************************************************)
(* Custom domains (src/server/service/domain.go, src/server/store/         *)
(* domain.go): an organization claims a name, proves it owns it by         *)
(* publishing a token in DNS, and the name is served and given a           *)
(* certificate until it is suspended or released.                          *)
(*                                                                         *)
(* Every operation loads the row, then writes it by id in statements of    *)
(* their own, with a DNS lookup and an ACME order in between.  The id is   *)
(* an INTEGER PRIMARY KEY, so SQLite gives a new row the largest id in use *)
(* plus one: the id of a deleted row may come back.                        *)
(***************************************************************************)
EXTENDS Integers, FiniteSets

CONSTANTS
    DomReqs,    \* request goroutines
    DomOrgs,    \* organizations
    DomNames,   \* names a member may ask for
    DomKind,    \* what each is: an apex, a subdomain, a wildcard, reserved or blocked
    DomAccepted,\* the kinds the operator's policy accepts
    MaxDomainsPerOrg, \* domains.max_domains_per_org
    MaxIds,     \* bound: row ids
    MaxTokens   \* bound: verification tokens issued

ASSUME DomainsAssumption ==
    MaxIds \in Nat \ {0} /\ MaxTokens \in Nat /\ MaxDomainsPerOrg \in Nat \ {0}

VARIABLES
    dom,      \* custom_domains: the row of each id
    domTokens,   \* verification tokens issued
    txt,      \* tokens published in the TXT records of each name
    certs,    \* names with a certificate in the app-managed tree
    domPc,    \* the next statement of each request
    domArg,   \* what each request keeps of the row it loaded
    matched,  \* tokens a lookup has found published (history)
    reused    \* ids a second row has been given (history)

domainsVars == <<dom, domTokens, txt, certs, domPc, domArg, matched, reused>>

DomIds == 1..MaxIds
NoDomain == [in |-> FALSE, org |-> "none", name |-> "none", token |-> 0,
             verification |-> "pending", ssl |-> "none", status |-> "pending"]
NoDomArg == [id |-> 0, org |-> "none", name |-> "none", token |-> 0]

(* normalizeClaim: no policy accepts a name the operator serves, or blocks. *)
NormalizeClaim(n) == DomKind[n] \in DomAccepted \ {"reserved", "blocked"}

Verified(row) == row.verification = "verified"
Servable(row) == Verified(row) /\ row.status = "active"
(* The rows the server answers for under the name of a Host header.        *)
ResolveServableDomain(n) == {i \in DomIds : dom[i].in /\ dom[i].name = n /\ Servable(dom[i])}

DomainsInit ==
    /\ dom = [i \in DomIds |-> NoDomain]
    /\ domTokens = 0
    /\ txt = [n \in DomNames |-> {}]
    /\ certs = {}
    /\ domPc = [r \in DomReqs |-> "idle"]
    /\ domArg = [r \in DomReqs |-> NoDomArg]
    /\ matched = {}
    /\ reused = {}

DomGoto(r, label) == domPc' = [domPc EXCEPT ![r] = label] /\ UNCHANGED domArg
DomReturn(r) ==
    /\ domPc' = [domPc EXCEPT ![r] = "idle"]
    /\ domArg' = [domArg EXCEPT ![r] = NoDomArg]
(* UPDATE ... WHERE id = ?: no row, no effect.                             *)
SetRow(i, row) == dom' = [dom EXCEPT ![i] = IF dom[i].in THEN row ELSE NoDomain]

-----------------------------------------------------------------------------
(* AddDomain: the claims of the organization are counted, ...              *)
AddDomain(r, o, n) ==
    /\ domPc[r] = "idle"
    /\ NormalizeClaim(n)
    /\ Cardinality({i \in DomIds : dom[i].in /\ dom[i].org = o}) < MaxDomainsPerOrg
    /\ domPc' = [domPc EXCEPT ![r] = "insert"]
    /\ domArg' = [domArg EXCEPT ![r] = [NoDomArg EXCEPT !.org = o, !.name = n]]
    /\ UNCHANGED <<dom, domTokens, txt, certs, matched, reused>>

(* ... then an unverified row is inserted, unless the name is claimed.     *)
CreateDomain(r) ==
    LET claim == domArg[r] IN
    /\ domPc[r] = "insert"
    /\ \/ /\ \A i \in DomIds : dom[i].in => dom[i].name # claim.name
          /\ domTokens < MaxTokens
          /\ domTokens' = domTokens + 1
          /\ \E i \in DomIds :
                /\ \A j \in DomIds : dom[j].in => j < i
                /\ i > 1 => dom[i - 1].in
                /\ dom' = [dom EXCEPT ![i] = [NoDomain EXCEPT !.in = TRUE, !.org = claim.org,
                                             !.name = claim.name, !.token = domTokens']]
                /\ reused' = IF \E q \in DomReqs : domArg[q].id = i
                             THEN reused \union {i} ELSE reused
       \/ /\ \E i \in DomIds : dom[i].in /\ dom[i].name = claim.name
          /\ UNCHANGED <<dom, domTokens, reused>>
    /\ DomReturn(r)
    /\ UNCHANGED <<txt, certs, matched>>

(* The owner of a name publishes the token it was shown, or removes it.    *)
Publish(i) ==
    /\ dom[i].in
    /\ txt' = [txt EXCEPT ![dom[i].name] = @ \union {dom[i].token}]
    /\ UNCHANGED <<dom, domTokens, certs, domPc, domArg, matched, reused>>
Unpublish(n) ==
    /\ txt' = [txt EXCEPT ![n] = {}]
    /\ UNCHANGED <<dom, domTokens, certs, domPc, domArg, matched, reused>>

(* domainForOrg: the row must belong to the caller's organization.         *)
DomainForOrg(r, o, i, op) ==
    /\ domPc[r] = "idle"
    /\ dom[i].in /\ dom[i].org = o
    /\ op = "lookup" => ~Verified(dom[i])
    /\ domPc' = [domPc EXCEPT ![r] = op]
    /\ domArg' = [domArg EXCEPT ![r] = IF op = "lookup"
         THEN [id |-> i, org |-> o, name |-> dom[i].name, token |-> dom[i].token]
         ELSE [NoDomArg EXCEPT !.id = i]]
    /\ UNCHANGED <<dom, domTokens, txt, certs, matched, reused>>

(* Mutant: a lookup that fails counts as a match.                          *)
CheckFailsOpen(r) ==
    /\ domPc[r] = "lookup"
    /\ DomGoto(r, "pass")
    /\ UNCHANGED <<dom, domTokens, txt, certs, matched, reused>>

(* VerifyDomain: the lookup, which may fail whatever is published, ...     *)
CheckOwnership(r) ==
    LET claim == domArg[r] IN
    /\ domPc[r] = "lookup"
    /\ \/ /\ claim.token \in txt[claim.name]
          /\ matched' = matched \union {claim.token}
          /\ domPc' = [domPc EXCEPT ![r] = "pass"]
       \/ domPc' = [domPc EXCEPT ![r] = "fail"] /\ UNCHANGED matched
    /\ domArg' = [domArg EXCEPT ![r] = [NoDomArg EXCEPT !.id = claim.id]]
    /\ UNCHANGED <<dom, domTokens, txt, certs, reused>>

(* ... the outcome recorded, whatever the row has become, ...              *)
RecordVerificationAttempt(r) ==
    LET i == domArg[r].id IN
    /\ \/ /\ domPc[r] = "pass"
          /\ SetRow(i, [dom[i] EXCEPT !.verification = "verified"])
          /\ IF dom[i].in THEN DomGoto(r, "activate") ELSE DomReturn(r)
       \/ /\ domPc[r] = "fail"
          /\ SetRow(i, [dom[i] EXCEPT !.verification = "failed"])
          /\ DomReturn(r)
    /\ UNCHANGED <<domTokens, txt, certs, matched, reused>>

(* ... activation, only of a row that is verified, ...                     *)
ActivateDomain(r) ==
    LET i == domArg[r].id IN
    /\ domPc[r] = "activate"
    /\ \/ /\ dom[i].in /\ Verified(dom[i])
          /\ SetRow(i, [dom[i] EXCEPT !.status = "active"])
          /\ DomGoto(r, "reload")
       \/ /\ ~(dom[i].in /\ Verified(dom[i]))
          /\ DomReturn(r)
          /\ UNCHANGED dom
    /\ UNCHANGED <<domTokens, txt, certs, matched, reused>>

(* ... and the row read again for issueCertificate, if SSL is required and *)
(* the row is still there and verified.                                    *)
Reload(r) ==
    LET i == domArg[r].id IN
    /\ domPc[r] = "reload"
    /\ \/ /\ dom[i].in /\ Verified(dom[i])
          /\ domPc' = [domPc EXCEPT ![r] = "issue"]
          /\ domArg' = [domArg EXCEPT ![r].name = dom[i].name]
       \/ DomReturn(r)
    /\ UNCHANGED <<dom, domTokens, txt, certs, matched, reused>>

(* The ACME order succeeds or fails; SetDomainSSL records which.  A row    *)
(* that had a certificate keeps its expiry when a renewal fails, unless    *)
(* the request read it before there was one: it is failed and overdue.     *)
AfterFailure(ssl) == {"failed"} \union (IF ssl \in {"issued", "overdue"} THEN {"overdue"} ELSE {})
IssueCertificate(r) ==
    LET i == domArg[r].id IN
    /\ domPc[r] = "issue"
    /\ \/ /\ certs' = certs \union {domArg[r].name}
          /\ SetRow(i, [dom[i] EXCEPT !.ssl = "issued"])
       \/ /\ \E ssl \in AfterFailure(dom[i].ssl) : SetRow(i, [dom[i] EXCEPT !.ssl = ssl])
          /\ UNCHANGED certs
    /\ DomReturn(r)
    /\ UNCHANGED <<domTokens, txt, matched, reused>>

VerifyDomain(r) ==
    \/ CheckOwnership(r) \/ RecordVerificationAttempt(r) \/ ActivateDomain(r)
    \/ Reload(r) \/ IssueCertificate(r)

(* RenewCertificates: the order of an active row whose certificate is due, *)
(* one whose renewal failed before included.                               *)
RenewCertificates(r, i) ==
    /\ domPc[r] = "idle"
    /\ dom[i].in /\ Servable(dom[i]) /\ dom[i].ssl \in {"issued", "overdue"}
    /\ domPc' = [domPc EXCEPT ![r] = "issue"]
    /\ domArg' = [domArg EXCEPT ![r] = [NoDomArg EXCEPT !.id = i, !.name = dom[i].name]]
    /\ UNCHANGED <<dom, domTokens, txt, certs, matched, reused>>

SuspendDomain(r) ==
    LET i == domArg[r].id IN
    /\ domPc[r] = "suspend"
    /\ SetRow(i, [dom[i] EXCEPT !.status = "suspended"])
    /\ DomReturn(r)
    /\ UNCHANGED <<domTokens, txt, certs, matched, reused>>

RemoveDomain(r) ==
    /\ domPc[r] = "remove"
    /\ SetRow(domArg[r].id, NoDomain)
    /\ DomReturn(r)
    /\ UNCHANGED <<domTokens, txt, certs, matched, reused>>

DomainsNext ==
    \/ \E r \in DomReqs, o \in DomOrgs :
        \/ \E n \in DomNames : AddDomain(r, o, n)
        \/ \E i \in DomIds, op \in {"lookup", "suspend", "remove"} :
              DomainForOrg(r, o, i, op)
    \/ \E i \in DomIds : Publish(i) \/ \E r \in DomReqs : RenewCertificates(r, i)
    \/ \E n \in DomNames : Unpublish(n)
    \/ \E r \in DomReqs :
        \/ CreateDomain(r) \/ VerifyDomain(r) \/ SuspendDomain(r) \/ RemoveDomain(r)

-----------------------------------------------------------------------------
DomainsTypeOK ==
    /\ \A i \in DomIds :
        /\ dom[i].verification \in {"pending", "verified", "failed"}
        /\ dom[i].status \in {"pending", "active", "suspended"}
        /\ dom[i].ssl \in {"none", "issued", "failed", "overdue"}
    /\ domTokens \in 0..MaxTokens

(* What the server answers for has been proven: a lookup found the token   *)
(* of this very claim published, however checks, suspensions, releases and *)
(* new claims interleave around it; a claim given the id of one that some  *)
(* request still holds is set apart.                                       *)
ServableIsProven ==
    \A n \in DomNames : \A i \in ResolveServableDomain(n) \ reused : dom[i].token \in matched

(* Claims stay well formed, and only proven names are answered for.        *)
DomainsSound == DomainsTypeOK /\ ServableIsProven

(* The comment on VerifyDomain, without the exception: activation happens  *)
(* only after a published record matches the token this server issued.     *)
VerificationNeverAssumed ==
    \A n \in DomNames : \A i \in ResolveServableDomain(n) : dom[i].token \in matched
=============================================================================
