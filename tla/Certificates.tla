---------------------------- MODULE Certificates ----------------------------
(* TLS certificates (src/ssl): the lookup order, what the HTTPS listener     *)
(* serves, ACME issuance with its challenge responders, the daily renewal,   *)
(* and the two files an issued pair is written to.  Issuances run            *)
(* concurrently: the first certificate is ordered in the background of       *)
(* startup, the renewal task may be due at the same moment, and verifying a  *)
(* custom domain orders one too.  The CA and certbot are external.           *)
EXTENDS Integers, Sequences, FiniteSets

CONSTANTS
  CertHosts,      \* host names with a directory under letsencrypt/
  CertFqdn,       \* Manager.fqdn, one of CertHosts
  ACMEEnabled,    \* letsencrypt.enabled
  CertChallenge,  \* "http-01", "tls-alpn-01" or "dns-01"
  CertLife,       \* ticks an issued certificate is valid
  RenewalWindow,  \* ticks before expiry renewal starts
  MaxCertTime,    \* bound: clock
  MaxOrders,      \* bound: ACME orders placed
  CertFaults      \* bound: failed calls and crashes

ASSUME CertAssumption ==
  /\ CertFqdn \in CertHosts /\ "" \notin CertHosts
  /\ CertLife \in Nat /\ MaxOrders \in Nat /\ CertFaults \in Nat

VARIABLES
  chainFile,      \* host -> certificate in fullchain.pem
  keyFile,        \* host -> order whose key is in privkey.pem, 0 for none
  foreign,        \* pairs redxt does not manage, by tier
  served,         \* Manager.current
  armed,          \* Manager.httpTokens and alpnCerts: responder -> order
  issuer,         \* what each caller of IssueFor is doing
  tlsUp,          \* the HTTPS side of the server is running
  certClock, orderCount, certFaults

certVars == <<chainFile, keyFile, foreign, served, armed, issuer, tlsUp,
              certClock, orderCount, certFaults>>

Issuers == {"first", "renewal", "domain"}
NoPair == [host |-> "", order |-> 0, until |-> 0]
NotServing == [cert |-> NoPair, key |-> 0]
IssuerIdle == [at |-> "idle", host |-> "", order |-> 0, todo |-> {}]

---------------------------------------------------------------------------
(* Lookup.                                                                   *)

\* Mutant: the chain is taken without looking whether the key fits it.
ParseChainOnly(h) == chainFile[h] # NoPair

\* The files parse into a pair: tls.X509KeyPair refuses a foreign key.
ParseCandidate(h) == chainFile[h] # NoPair /\ chainFile[h].order = keyFile[h]

ManagedPair(h) == IF ParseCandidate(h) THEN chainFile[h] ELSE NoPair

ValidateCert(c) == c.host = CertFqdn /\ c.until >= certClock

\* An explicit pair replaces the lookup; else system, managed, local.
Candidates ==
  IF foreign.explicit # NoPair THEN <<foreign.explicit>>
  ELSE <<foreign.system, ManagedPair(CertFqdn), foreign.local>>

\* What is served: a certificate and the key read with it.
PairOf(c, key) == [cert |-> c, key |-> key]

\* The first candidate that is usable.
DiscoverAt ==
  LET usable == {i \in DOMAIN Candidates : ValidateCert(Candidates[i])}
  IN IF usable = {} THEN NoPair ELSE Candidates[CHOOSE i \in usable : \A j \in usable : i <= j]

NeedsRenewal(h) == ParseCandidate(h) /\ certClock >= chainFile[h].until - RenewalWindow

---------------------------------------------------------------------------
(* IssueFor, one network or file step at a time.                             *)

IssuerAt(w, s) == tlsUp /\ issuer[w].at = s
IssuerMove(w, s) == issuer' = [issuer EXCEPT ![w].at = s]

\* A new order for h.
PlaceOrder(w, h, todo) ==
  /\ orderCount < MaxOrders
  /\ orderCount' = orderCount + 1
  /\ issuer' = [issuer EXCEPT ![w] = [at |-> "solve", host |-> h, order |-> orderCount + 1, todo |-> todo]]

\* The caller is done with this host; RenewAll goes on to the next.
IssuerDone(w) == issuer' = [issuer EXCEPT ![w] = [IssuerIdle EXCEPT !.todo = issuer[w].todo]]

Responder(w) == IF CertChallenge = "http-01" THEN issuer[w].order ELSE issuer[w].host

Disarm(w) == armed' = {a \in armed : a.at # Responder(w)}

\* What solve does when the challenge does not validate.
DisarmFailed(w) == Disarm(w)

PrepareChallenge(w) ==
  /\ IssuerAt(w, "solve")
  /\ IF CertChallenge = "dns-01"
     THEN IssuerDone(w) /\ UNCHANGED armed
     ELSE /\ armed' = {a \in armed : a.at # Responder(w)}
                        \union {[at |-> Responder(w), order |-> issuer[w].order]}
          /\ IssuerMove(w, "wait")
  /\ UNCHANGED <<chainFile, keyFile, foreign, served, tlsUp, certClock, orderCount, certFaults>>

\* The CA still holds a valid authorization: no challenge is needed.
AlreadyAuthorized(w) ==
  /\ IssuerAt(w, "solve")
  /\ IssuerMove(w, "finalize")
  /\ UNCHANGED <<chainFile, keyFile, foreign, served, armed, tlsUp, certClock, orderCount, certFaults>>

Answerable(w) == [at |-> Responder(w), order |-> issuer[w].order] \in armed

WaitAuthorization(w) ==
  /\ IssuerAt(w, "wait")
  /\ \/ Answerable(w) /\ IssuerMove(w, "finalize") /\ Disarm(w)
     \/ ~Answerable(w) /\ IssuerDone(w) /\ DisarmFailed(w)
  /\ UNCHANGED <<chainFile, keyFile, foreign, served, tlsUp, certClock, orderCount, certFaults>>

\* Any call to the CA fails, or stopHTTP cancels it.
CAFails(w) ==
  /\ tlsUp /\ issuer[w].at \in {"solve", "wait", "finalize"}
  /\ certFaults < CertFaults
  /\ certFaults' = certFaults + 1
  /\ IssuerDone(w)
  /\ IF issuer[w].at = "wait" THEN DisarmFailed(w) ELSE UNCHANGED armed
  /\ UNCHANGED <<chainFile, keyFile, foreign, served, tlsUp, certClock, orderCount>>

WriteChain(w) ==
  /\ IssuerAt(w, "finalize")
  /\ chainFile' = [chainFile EXCEPT ![issuer[w].host] =
                     [host |-> issuer[w].host, order |-> issuer[w].order, until |-> certClock + CertLife]]
  /\ IssuerMove(w, "key")
  /\ UNCHANGED <<keyFile, foreign, served, armed, tlsUp, certClock, orderCount, certFaults>>

WritePrivateKey(w) ==
  /\ IssuerAt(w, "key")
  /\ keyFile' = [keyFile EXCEPT ![issuer[w].host] = issuer[w].order]
  /\ IssuerMove(w, "parse")
  /\ UNCHANGED <<chainFile, foreign, served, armed, tlsUp, certClock, orderCount, certFaults>>

OwnHost(h) == h = CertFqdn

\* The written pair is read back and installed.
InstallIssued(w) ==
  /\ IssuerAt(w, "parse")
  /\ served' = IF ParseCandidate(issuer[w].host) /\ OwnHost(issuer[w].host)
                THEN PairOf(chainFile[issuer[w].host], keyFile[issuer[w].host]) ELSE served
  /\ IssuerDone(w)
  /\ UNCHANGED <<chainFile, keyFile, foreign, armed, tlsUp, certClock, orderCount, certFaults>>

---------------------------------------------------------------------------
(* The callers.                                                              *)

\* openTLS, then issueCertificate when the lookup found nothing.
OpenTLS ==
  /\ ~tlsUp
  /\ tlsUp' = (DiscoverAt # NoPair \/ ACMEEnabled)
  /\ served' = IF DiscoverAt = NoPair THEN NotServing
                ELSE PairOf(DiscoverAt, IF DiscoverAt = chainFile[CertFqdn] THEN keyFile[CertFqdn]
                                        ELSE DiscoverAt.order)
  /\ IF DiscoverAt = NoPair /\ ACMEEnabled THEN PlaceOrder("first", CertFqdn, {})
     ELSE UNCHANGED <<issuer, orderCount>>
  /\ UNCHANGED <<chainFile, keyFile, foreign, armed, certClock, certFaults>>

ManagedDue == {h \in CertHosts : NeedsRenewal(h)}

\* RenewAll lists the due hosts once ...
StartRenewAll ==
  /\ tlsUp /\ ACMEEnabled /\ issuer["renewal"] = IssuerIdle
  /\ ManagedDue # {}
  /\ issuer' = [issuer EXCEPT !["renewal"].todo = ManagedDue]
  /\ UNCHANGED <<chainFile, keyFile, foreign, served, armed, tlsUp, certClock, orderCount, certFaults>>

\* ... and renews them one after the other.
RenewNext ==
  /\ IssuerAt("renewal", "idle")
  /\ \E h \in issuer["renewal"].todo : PlaceOrder("renewal", h, issuer["renewal"].todo \ {h})
  /\ UNCHANGED <<chainFile, keyFile, foreign, served, armed, tlsUp, certClock, certFaults>>

\* The domain service orders a certificate for a proven custom domain.
IssueForDomain ==
  /\ IssuerAt("domain", "idle") /\ ACMEEnabled
  /\ \E h \in CertHosts \ {CertFqdn} : PlaceOrder("domain", h, {})
  /\ UNCHANGED <<chainFile, keyFile, foreign, served, armed, tlsUp, certClock, certFaults>>

---------------------------------------------------------------------------
(* The world.                                                                *)

\* The process dies; files stay as they are.
KillTLS ==
  /\ tlsUp /\ certFaults < CertFaults
  /\ certFaults' = certFaults + 1
  /\ tlsUp' = FALSE /\ served' = NotServing /\ armed' = {}
  /\ issuer' = [w \in Issuers |-> IssuerIdle]
  /\ UNCHANGED <<chainFile, keyFile, foreign, certClock, orderCount>>

CertbotRenews ==
  /\ foreign.system # NoPair /\ foreign.system.until < certClock + CertLife
  /\ foreign' = [foreign EXCEPT !.system.until = certClock + CertLife]
  /\ UNCHANGED <<chainFile, keyFile, served, armed, issuer, tlsUp, certClock, orderCount, certFaults>>

CertTick ==
  /\ certClock < MaxCertTime
  /\ certClock' = certClock + 1
  /\ UNCHANGED <<chainFile, keyFile, foreign, served, armed, issuer, tlsUp, orderCount, certFaults>>

CertInit ==
  /\ \E due \in {1, 1 + CertLife} :
       \E h0 \in {NoPair, [host |-> CertFqdn, order |-> -1, until |-> due]} :
         chainFile = [h \in CertHosts |-> IF h = CertFqdn THEN h0 ELSE NoPair]
  /\ keyFile = [h \in CertHosts |-> IF chainFile[h] = NoPair THEN 0 ELSE -1]
  /\ \E s \in {NoPair, [host |-> CertFqdn, order |-> -2, until |-> 1]} :
       foreign = [explicit |-> NoPair, system |-> s, local |-> NoPair]
  /\ served = NotServing /\ armed = {} /\ tlsUp = FALSE
  /\ issuer = [w \in Issuers |-> IssuerIdle]
  /\ certClock = 2 /\ orderCount = 0 /\ certFaults = 0

CertNext ==
  \/ OpenTLS \/ StartRenewAll \/ RenewNext \/ IssueForDomain
  \/ \E w \in Issuers : \/ PrepareChallenge(w) \/ AlreadyAuthorized(w) \/ WaitAuthorization(w)
                        \/ CAFails(w) \/ WriteChain(w) \/ WritePrivateKey(w) \/ InstallIssued(w)
  \/ KillTLS \/ CertbotRenews \/ CertTick

CertTypeOK ==
  /\ \A h \in CertHosts : keyFile[h] \in -1..MaxOrders /\ chainFile[h].order \in -1..MaxOrders
  /\ \A w \in Issuers : issuer[w].at \in {"idle", "solve", "wait", "finalize", "key", "parse"}
  /\ \A w \in Issuers : issuer[w].todo \subseteq CertHosts
  /\ tlsUp \in BOOLEAN /\ orderCount \in 0..MaxOrders /\ certFaults \in 0..CertFaults

---------------------------------------------------------------------------
\* What the listener serves is this server's certificate with the key that
\* belongs to it, however the issuances for this host and others interleave,
\* fail or are cut short between the two files: a pair that cannot be read
\* back is never installed, nor is another host's.
ServesOwnPair ==
  served # NotServing => served.cert.host = CertFqdn /\ served.key = served.cert.order

\* The challenge responders hold exactly the challenges in flight: each
\* caller waiting on the CA is answered with its own order, and nothing is
\* left behind when a validation fails, a call errors or another caller
\* finishes first (HTTP01Handler "serves only tokens for challenges currently
\* in flight").  Holds for http-01, whose responder is the token's own path.
ResponderTracksOrders ==
  CertChallenge = "http-01" =>
    armed = {[at |-> Responder(w), order |-> issuer[w].order] : w \in {v \in Issuers : issuer[v].at = "wait"}}

\* Issuers that interleave, fail and are cut short leave the listener and the
\* responders right.
CertificatesSound == CertTypeOK /\ ServesOwnPair /\ ResponderTracksOrders

\* The Manager "is safe for concurrent use": as long as the process never
\* died, the files of a host nobody is writing are a usable pair.
PairsIntact ==
  \A h \in CertHosts :
    (certFaults = 0 /\ ~\E w \in Issuers : issuer[w].host = h /\ issuer[w].at = "key")
      => (chainFile[h] # NoPair => ParseCandidate(h))
=============================================================================
