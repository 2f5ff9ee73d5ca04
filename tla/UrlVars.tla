------------------------------ MODULE UrlVars ------------------------------
(* The URL variable resolver (src/urlvars): which proto, host, port, base    *)
(* path and client address a request is answered with, and the host names    *)
(* it learns from trusted reverse proxies.                                   *)
(*                                                                           *)
(* A host name is a model string with a class (HostClass) and a base domain  *)
(* (HostBase); a chain of alternative headers is the sequence of the values  *)
(* they carry, in the order the code consults them.  Change notices (logging *)
(* after the lock is released) are left out.  The observations are a set:    *)
(* their order is never read, and equal ones are numbered.                   *)
EXTENDS Integers, Sequences, FiniteSets, Functions

CONSTANTS
  UrlPeers,      \* immediate TCP peers
  PeerClass,     \* peer -> "private", "sidecar", "listed", "named", "stranger"
  UrlHosts,      \* host names a header may carry
  HostClass,     \* host -> class, see IsValidHost
  HostBase,      \* host -> its registrable domain, "" when it has none
  OnionHost,     \* the configured hidden service
  UrlConfs,      \* configurations New is called with
  MinSamples,    \* distinct hosts needed for a wildcard
  SampleWindow,  \* ticks an observation counts for
  MaxUrlTime,    \* bound: clock
  MaxSamples     \* bound: observations made

ASSUME UrlAssumption ==
  /\ MinSamples \in Nat /\ SampleWindow \in Nat /\ MaxSamples \in Nat
  /\ MaxUrlTime \in Nat /\ SampleWindow <= MaxUrlTime
  /\ \A conf \in UrlConfs : conf.domains \in Seq(DOMAIN HostClass)

VARIABLES
  urlConf,       \* the options, fixed by New
  trustedPeers,  \* the peers the trusted networks contain
  urlSamples,    \* Resolver.samples
  urlPinned,     \* Resolver.pinned
  urlLast,       \* Resolver.lastFQDN
  urlClock,      \* Resolver.now
  vouched        \* history: what proxies said within the window

urlVars == <<urlConf, trustedPeers, urlSamples, urlPinned, urlLast, urlClock, vouched>>

Blank == "" \* what a missing header, host or base reads as

NoResolver == [none |-> TRUE] \* before New

FirstUsable(values, Usable(_), otherwise) ==
  LET usable == {i \in DOMAIN values : Usable(values[i])}
  IN IF usable = {} THEN otherwise ELSE values[CHOOSE i \in usable : \A j \in usable : i <= j]

---------------------------------------------------------------------------
(* Host validation.  "suffix" is a bare public suffix, "unlisted" a name     *)
(* under no ICANN suffix, "project" one under the project's own TLD.         *)

IsValidHost(h, dev) ==
  \/ HostClass[h] \in {"public", "overlay"}
  \/ dev /\ HostClass[h] \in {"localhost", "devtld", "project", "unlisted"}

IsValidSSLHost(h) == HostClass[h] # "overlay" /\ IsValidHost(h, FALSE)

BaseDomainOf(h) == IF HostClass[h] \in {"ip", "single", "localhost"} THEN Blank ELSE HostBase[h]

plausibleHost(h) == HostClass[h] # "garbled"

SelectPublicIPs(ips, v6) ==
  FirstUsable(ips, LAMBDA a : a.public /\ a.v6 = v6, [addr |-> Blank]).addr

---------------------------------------------------------------------------
(* New and the trusted networks.  A DNS name of the allow-list is resolved   *)
(* once: nothing in the server calls RefreshTrustedProxies.                  *)

BuildTrusted(conf, resolved) ==
  {p \in UrlPeers : \/ PeerClass[p] = "private"
                    \/ PeerClass[p] = "sidecar" /\ conf.listenV4
                    \/ PeerClass[p] = "listed"
                    \/ PeerClass[p] = "named" /\ p \in resolved}

NewResolver(conf, resolved) ==
  /\ urlConf = NoResolver
  /\ urlConf' = conf
  /\ trustedPeers' = BuildTrusted(conf, resolved)
  /\ UNCHANGED <<urlSamples, urlPinned, urlLast, urlClock, vouched>>

IsTrustedProxy(p) == p \in trustedPeers

staticFQDN ==
  LET named == FirstUsable(urlConf.domains \o urlConf.hostnames,
                           LAMBDA h : IsValidHost(h, urlConf.dev), Blank)
      addrs == <<SelectPublicIPs(urlConf.ifaces, TRUE), SelectPublicIPs(urlConf.ifaces, FALSE)>>
      addr  == FirstUsable(addrs, LAMBDA a : a # Blank, "localhost")
  IN IF named # Blank THEN named ELSE addr

---------------------------------------------------------------------------
(* Resolution of one request.                                                *)

normalizeScheme(v) == IF v \in {"http", "https"} THEN v ELSE Blank

resolveProto(q) ==
  LET claimed == FirstUsable(q.fwdProto, LAMBDA v : normalizeScheme(v) # Blank, Blank)
  IN IF IsTrustedProxy(q.peer) /\ claimed # Blank THEN claimed
     ELSE IF q.tls THEN "https" ELSE "http"

proxyHost(q) ==
  LET nobody == [host |-> Blank, port |-> Blank]
  IN IF IsTrustedProxy(q.peer) THEN FirstUsable(q.fwdHost, LAMBDA v : plausibleHost(v.host), nobody)
     ELSE nobody

validPort(p) == p \notin {Blank, "bad"}

resolvePort(q) ==
  LET claimed == IF IsTrustedProxy(q.peer) THEN q.fwdPort ELSE <<>>
      carried == IF proxyHost(q).port # Blank THEN proxyHost(q).port ELSE q.hostPort
  IN FirstUsable(claimed \o <<carried, urlConf.port>>, validPort, Blank)

normalizePort(proto, p) ==
  IF <<proto, p>> \in {<<"http", "80">>, <<"https", "443">>} THEN Blank ELSE p

isOnion(h) == urlConf.onion /\ h = OnionHost

\* The host before observe has its say.
ResolvedHost(q) == IF proxyHost(q).host # Blank THEN proxyHost(q).host ELSE staticFQDN

\* What observe returns: the pinned host when live reload is off.
PinnedOr(h) == IF ~urlConf.liveReload /\ urlPinned # Blank THEN urlPinned ELSE h

Answer(q) ==
  IF isOnion(q.host) \/ isOnion(ResolvedHost(q))
  THEN [proto |-> "http", fqdn |-> OnionHost, port |-> Blank]
  ELSE [proto |-> resolveProto(q), fqdn |-> PinnedOr(ResolvedHost(q)),
        port |-> normalizePort(resolveProto(q), resolvePort(q))]

BaseURLPrefix(q) ==
  LET claimed == FirstUsable(q.prefix, LAMBDA v : v # Blank, Blank)
  IN IF IsTrustedProxy(q.peer) /\ claimed # Blank THEN claimed ELSE urlConf.baseURL

ClientIP(q) ==
  LET claimed == FirstUsable(q.fwdFor, LAMBDA v : v \notin {Blank, "bad"}, Blank)
  IN IF IsTrustedProxy(q.peer) /\ claimed # Blank THEN claimed ELSE q.peer

---------------------------------------------------------------------------
(* Learning.                                                                 *)

InWindow(s) == s.at > urlClock - SampleWindow

pruneLocked == {s \in urlSamples : InWindow(s)}

\* The samples with one more of a host.
Observed(samples, h) ==
  samples \union {[host |-> h, at |-> urlClock,
                   nr |-> Cardinality({s \in samples : s.host = h /\ s.at = urlClock})]}

Learns(fromProxy) == urlConf.learning /\ fromProxy /\ Len(urlConf.domains) < 2

observe(h, fromProxy) ==
  IF ~urlConf.liveReload /\ urlPinned # Blank
  THEN UNCHANGED <<urlSamples, urlPinned, urlLast>>
  ELSE /\ urlPinned' = IF urlPinned = Blank THEN h ELSE urlPinned
       /\ urlSamples' = IF Learns(fromProxy)
                        THEN Observed(pruneLocked, h) ELSE urlSamples
       /\ urlLast' = h

URLVars(q) ==
  /\ urlConf # NoResolver
  /\ Cardinality(urlSamples) < MaxSamples /\ Cardinality(vouched) < MaxSamples
  /\ vouched' = {v \in vouched : InWindow(v)} \union
                 IF PeerClass[q.peer] # "stranger"
                 THEN {[host |-> v.host, at |-> urlClock] : v \in Range(q.fwdHost)} ELSE {}
  /\ IF isOnion(q.host) \/ isOnion(ResolvedHost(q))
     THEN UNCHANGED <<urlSamples, urlPinned, urlLast>>
     ELSE observe(ResolvedHost(q), proxyHost(q).host # Blank)
  /\ UNCHANGED <<urlConf, trustedPeers, urlClock>>

HostsUnder(hosts, b) == {h \in Range(hosts) : BaseDomainOf(h) = b}

\* The base with most distinct hosts, then most observations; the
\* alphabetical tie break is a choice.
dominantBase(hosts) ==
  LET bases == {BaseDomainOf(h) : h \in Range(hosts)} \ {Blank}
      Total(b) == Cardinality({i \in DOMAIN hosts : BaseDomainOf(hosts[i]) = b})
      Rank(b) == Cardinality(HostsUnder(hosts, b)) * (MaxSamples + 1) + Total(b)
  IN IF bases = {} THEN Blank
     ELSE CHOOSE b \in bases : \A c \in bases : Rank(b) >= Rank(c)

HostsOf(samples) == [s \in samples |-> s.host]

\* Mutant: the read side trusts that the last write pruned.
DominantHostsUnpruned == HostsOf(urlSamples)

DominantHosts == HostsOf(pruneLocked)

\* The base a "*." wildcard is established for, Blank for none.
WildcardDomain ==
  LET hosts  == IF Len(urlConf.domains) >= 2 THEN urlConf.domains ELSE DominantHosts
      needed == IF Len(urlConf.domains) >= 2 THEN 2 ELSE MinSamples
      base   == dominantBase(hosts)
  IN IF base # Blank /\ Cardinality(HostsUnder(hosts, base)) >= needed THEN base ELSE Blank

BaseDomain ==
  IF urlConf.domains # <<>>
  THEN LET base == BaseDomainOf(urlConf.domains[1])
       IN IF base # Blank THEN base ELSE urlConf.domains[1]
  ELSE LET base == dominantBase(DominantHosts)
       IN IF base # Blank \/ urlLast = Blank THEN base ELSE BaseDomainOf(urlLast)

\* The clock counts from New.
UrlTick == urlConf # NoResolver /\ urlClock < MaxUrlTime /\ urlClock' = urlClock + 1
           /\ UNCHANGED <<urlConf, trustedPeers, urlSamples, urlPinned, urlLast, vouched>>

---------------------------------------------------------------------------
\* Requests: what the client says of itself, and what it claims was forwarded.
UrlForwards ==
  {<<>>} \union {<<[host |-> h, port |-> Blank]>> : h \in UrlHosts}
         \union {<<[host |-> g, port |-> Blank], [host |-> h, port |-> "8443"]>> :
                   g \in {g \in UrlHosts : HostClass[g] = "garbled"},
                   h \in {h \in UrlHosts : HostClass[h] = "public"}}

UrlRequests ==
  [peer : UrlPeers, host : {OnionHost, "site"}, hostPort : {Blank, "8080"}, tls : BOOLEAN,
   fwdHost : UrlForwards, fwdProto : {<<"off", "https">>}, fwdPort : {<<"bad", "443">>},
   fwdFor : {<<"bad", "client">>}, prefix : {<<Blank, "/app">>}]

\* Only the peer, the host and the forwarded host reach the resolver's state.
LearningRequests == {q \in UrlRequests : q.hostPort = Blank /\ ~q.tls}

UrlInit ==
  /\ urlConf = NoResolver /\ trustedPeers = {}
  /\ urlSamples = {} /\ urlPinned = Blank /\ urlLast = Blank
  /\ urlClock = SampleWindow
  /\ vouched = {}

UrlNext ==
  \/ UrlTick
  \/ \E q \in LearningRequests : URLVars(q)
  \/ \E conf \in UrlConfs, resolved \in SUBSET {p \in UrlPeers : PeerClass[p] = "named"} :
       NewResolver(conf, resolved)

UrlTypeOK ==
  /\ urlConf \in UrlConfs \union {NoResolver}
  /\ trustedPeers \subseteq UrlPeers
  /\ urlClock \in SampleWindow..MaxUrlTime
  /\ Cardinality(urlSamples) <= MaxSamples
  /\ \A s \in urlSamples : s.at \in 0..urlClock

---------------------------------------------------------------------------
\* The request as the peer would have sent it had it claimed nothing.
Unclaimed(q) == [q EXCEPT !.fwdHost = <<>>, !.fwdProto = <<>>, !.fwdPort = <<>>,
                          !.fwdFor = <<>>, !.prefix = <<>>]

\* Forwarding headers count for nothing unless the immediate peer is a
\* trusted proxy: in every state the resolver learns its way into, a request
\* from any other peer gets the scheme, host, port, base path and client
\* address it would get without them, and learns nothing either (URLVars,
\* BaseURLPrefix, ClientIP; a peer is trusted by class, not by the resolver's
\* word).
HeadersNeedTrust ==
  urlConf # NoResolver =>
     \A q \in {r \in UrlRequests : PeerClass[r.peer] = "stranger"} :
       /\ Answer(q) = Answer(Unclaimed(q))
       /\ BaseURLPrefix(q) = BaseURLPrefix(Unclaimed(q))
       /\ ClientIP(q) = q.peer

\* A wildcard host is never inferred from less than the policy asks: unless
\* DOMAIN lists it, MinSamples distinct hosts under it were each forwarded by
\* a trusted proxy within the current sample window, even when nothing has
\* been written since the older ones fell out of it.
WildcardEarned ==
  (urlConf # NoResolver /\ Len(urlConf.domains) < 2 /\ WildcardDomain # Blank) =>
     Cardinality({v.host : v \in {w \in vouched : InWindow(w) /\ BaseDomainOf(w.host) = WildcardDomain}})
       >= MinSamples

\* What strangers say about the server is ignored, and what proxies say is
\* forgotten in time.
UrlVarsSound == UrlTypeOK /\ HeadersNeedTrust /\ WildcardEarned
=============================================================================
