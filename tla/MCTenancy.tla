----------------------------- MODULE MCTenancy ------------------------------
(***************************************************************************)
(* Tenants and the names they are served under, for TLC: organizations,    *)
(* custom domains, the cache lock and certificates.  A behaviour runs one  *)
(* part, chosen at the start, and leaves the others in their initial       *)
(* state.                                                                  *)
(***************************************************************************)
EXTENDS Orgs, Domains, CacheLock, Certificates, TLC

CONSTANTS
    Parts,   \* the parts a run lets behaviours choose from
    r1, r2   \* request goroutines

VARIABLE part

(* A name anybody may claim, and one of the server's own.                  *)
MCDomKind == "shop" :> "apex" @@ "own" :> "reserved"

(* Two goroutines of one node and one of another.                          *)
MCLockNode == "w1" :> "a" @@ "w2" :> "a" @@ "w3" :> "b"

tenancyVars == <<part, vars, domainsVars, cacheVars, certVars>>

TenancyInit ==
    /\ part \in Parts
    /\ Init /\ DomainsInit /\ CacheInit /\ CertInit
    /\ part # "certificates" => foreign.system = NoPair /\ chainFile[CertFqdn] = NoPair

TenancyNext ==
    /\ \/ /\ part = "orgs" /\ Next
          /\ UNCHANGED <<domainsVars, cacheVars, certVars>>
       \/ /\ part = "domains" /\ DomainsNext
          /\ UNCHANGED <<vars, cacheVars, certVars>>
       \/ /\ part = "cachelock" /\ CacheNext
          /\ UNCHANGED <<vars, domainsVars, certVars>>
       \/ /\ part = "certificates" /\ CertNext
          /\ UNCHANGED <<vars, domainsVars, cacheVars>>
    /\ UNCHANGED part

TenancySpec == TenancyInit /\ [][TenancyNext]_tenancyVars

Interchangeable == Permutations({r1, r2}) \cup Permutations(Tokens)
=============================================================================
