------------------------------- MODULE GeoIP -------------------------------
(***************************************************************************)
(* The GeoIP databases of one server (src/geoip/*.go,                      *)
(* src/startup/geoip.go, src/server/middleware/geoip.go): the readers that *)
(* answer requests, the scheduled download that replaces them, and the     *)
(* GeoIP stage of the middleware chain.                                    *)
(*                                                                         *)
(* A file is absent, good, or bad (it does not parse).  A reader is the    *)
(* number of the Open call that made it, 0 being a nil reader; a request   *)
(* copies the readers it needs under the lock and consults them after it.  *)
(* A closed reader reports an error, or, when Close unmaps the file under  *)
(* a lookup, the process dies.                                             *)
(***************************************************************************)
EXTENDS Integers, FiniteSets, FiniteSetsExt

CONSTANTS
    GeoEnabled,  \* the databases server.geoip.databases switches on
    GeoAllow,    \* allow_countries
    GeoDeny,     \* deny_countries
    GeoReqs,     \* request goroutines
    GeoAddrs,    \* client addresses
    CountryOf,   \* the country of each address, "" when no database knows it
    PrivateAddrs, \* the addresses of GeoAddrs that are not public
    MaxReaders,  \* bound: readers opened
    GeoFaults    \* bound: failed or garbled downloads

ASSUME GeoIPAssumption ==
    /\ GeoEnabled \subseteq {"asn", "country", "city"}
    /\ PrivateAddrs \subseteq GeoAddrs
    /\ MaxReaders \in Nat /\ GeoFaults \in Nat

VARIABLES
    geoUp,     \* "new" before startGeoIP, then "up", "closed" or "dead"
    geoFile,   \* the file of each database
    geoRdr,    \* s.rdr: the current reader of each database
    opened,    \* readers opened so far
    shut,      \* the readers that were closed
    geoTask,   \* where Load or Refresh is
    geoNew,    \* the readers Load has opened for the swap
    geoOld,    \* the readers it has replaced and not closed yet
    fetched,   \* the databases this refresh has downloaded (history)
    geoReq,    \* each request in the GeoIP stage
    geoFaults

geoIPVars == <<geoUp, geoFile, geoRdr, opened, shut, geoTask, geoNew, geoOld,
               fetched, geoReq, geoFaults>>

(* targets and Load go through the databases in this order.  (The two city *)
(* files differ in the address family only and are one here.)              *)
GeoOrder == [asn |-> 1, country |-> 2, city |-> 3]
targets == GeoEnabled
NoReaders == [d \in targets |-> 0]
Idle == [at |-> "idle"]
Loaded(r) == {r[d] : d \in targets} \ {0}

GeoIPInit ==
    /\ geoUp = "new"
    /\ geoFile \in [targets -> {"none", "good", "bad"}]
    /\ geoRdr = NoReaders /\ geoNew = NoReaders
    /\ opened = 0 /\ shut = {} /\ geoOld = {} /\ fetched = {}
    /\ geoTask = "idle"
    /\ geoReq = [q \in GeoReqs |-> Idle]
    /\ geoFaults = 0

-----------------------------------------------------------------------------
(* Load opens what is on disk: a missing file leaves a nil reader, and so  *)
(* does one that does not parse, whose error is only reported at the end.  *)
Opens(d) == geoFile[d] = "good"
LoadReaders ==
    LET good == {d \in targets : Opens(d)}
        nth(d) == Cardinality({e \in good : GeoOrder[e] <= GeoOrder[d]})
    IN  /\ opened + Cardinality(good) <= MaxReaders
        /\ geoNew' = [d \in targets |-> IF Opens(d) THEN opened + nth(d) ELSE 0]
        /\ opened' = opened + Cardinality(good)

startGeoIP ==
    /\ geoUp = "new"
    /\ LoadReaders
    /\ geoUp' = "up"
    /\ geoTask' = "swap"
    /\ UNCHANGED <<geoFile, geoRdr, shut, geoOld, fetched, geoReq, geoFaults>>

(* swap installs the new readers under the lock ...                        *)
swap ==
    /\ geoTask = "swap"
    /\ geoRdr' = geoNew
    /\ geoOld' = Loaded(geoRdr)
    /\ geoNew' = NoReaders
    /\ geoTask' = "close"
    /\ UNCHANGED <<geoUp, geoFile, opened, shut, fetched, geoReq, geoFaults>>

(* ... and closes the old ones, one after the other, without it.           *)
closeReader ==
    /\ geoTask = "close"
    /\ geoOld # {}
    /\ shut' = shut \union {Min(geoOld)}
    /\ geoOld' = geoOld \ {Min(geoOld)}
    /\ UNCHANGED <<geoUp, geoFile, geoRdr, opened, geoTask, geoNew, fetched, geoReq, geoFaults>>

swapDone ==
    /\ geoTask = "close"
    /\ geoOld = {}
    /\ geoTask' = "idle"
    /\ fetched' = {}
    /\ UNCHANGED <<geoUp, geoFile, geoRdr, opened, shut, geoNew, geoOld, geoReq, geoFaults>>

(* The geoip_update task: every enabled database in turn ...               *)
Refresh ==
    /\ geoUp = "up"
    /\ geoTask = "idle"
    /\ targets # {}
    /\ geoTask' = "fetch"
    /\ UNCHANGED <<geoUp, geoFile, geoRdr, opened, shut, geoNew, geoOld, fetched, geoReq, geoFaults>>

Pending == targets \ fetched
NextPending == CHOOSE d \in Pending : \A e \in Pending : GeoOrder[d] <= GeoOrder[e]

(* ... is downloaded beside its file and renamed over it.  Nothing checks  *)
(* that the body is a database.                                            *)
Downloaded ==
    /\ Pending # {}
    /\ \E body \in {"good", "bad"} :
        /\ geoFaults' = geoFaults + (IF body = "bad" THEN 1 ELSE 0)
        /\ geoFile' = [geoFile EXCEPT ![NextPending] = body]
    /\ fetched' = fetched \union {NextPending}
    /\ UNCHANGED <<geoTask, geoNew, opened>>

(* Mutant: a failed download is skipped and the rest is still loaded.      *)
DownloadSkipped ==
    /\ Pending # {}
    /\ geoFaults' = geoFaults + 1
    /\ LoadReaders
    /\ geoTask' = "swap"
    /\ UNCHANGED <<geoFile, fetched>>

(* A failed download leaves the file alone and ends the refresh.           *)
DownloadFails ==
    /\ Pending # {}
    /\ geoFaults' = geoFaults + 1
    /\ geoTask' = "idle"
    /\ fetched' = {}
    /\ UNCHANGED <<geoFile, geoNew, opened>>

(* Once all are in place they are loaded.                                  *)
Reload ==
    /\ Pending = {}
    /\ LoadReaders
    /\ geoTask' = "swap"
    /\ UNCHANGED <<geoFile, fetched, geoFaults>>

RefreshStep ==
    /\ geoUp = "up"
    /\ geoTask = "fetch"
    /\ Downloaded \/ DownloadFails \/ Reload
    /\ geoFaults' <= GeoFaults
    /\ UNCHANGED <<geoUp, geoRdr, shut, geoOld, geoReq>>

(* Shutdown closes the service once the scheduler has stopped; a request   *)
(* that outlasted the HTTP server's grace is still running.                *)
Close ==
    /\ geoUp = "up"
    /\ geoTask = "idle"
    /\ geoUp' = "closed"
    /\ geoTask' = "swap"
    /\ UNCHANGED <<geoFile, geoRdr, opened, shut, geoNew, geoOld, fetched, geoReq, geoFaults>>

-----------------------------------------------------------------------------
(* allow_countries wins when both lists are set.                           *)
countryBlocked(c) == IF GeoAllow # {} THEN c \notin GeoAllow ELSE c \in GeoDeny

(* Blocked: everything that lets a request pass before a reader is asked.  *)
NeverAsked(a, allowlisted) ==
    \/ allowlisted
    \/ GeoAllow = {} /\ GeoDeny = {}
    \/ a \in PrivateAddrs
    \/ "country" \notin targets
    \/ geoRdr["country"] = 0

(* A request enters the stage; Blocked copies the country reader.          *)
EnterStage(q, a, allowlisted) ==
    /\ geoUp = "up"
    /\ geoReq[q].at = "idle"
    /\ geoReq' = [geoReq EXCEPT ![q] =
                    IF NeverAsked(a, allowlisted)
                    THEN [at |-> "annotate", addr |-> a]
                    ELSE [at |-> "judge", addr |-> a, rdr |-> geoRdr["country"]]]
    /\ UNCHANGED <<geoUp, geoFile, geoRdr, opened, shut, geoTask, geoNew, geoOld, fetched, geoFaults>>

(* What asking reader r about address a returns: nothing when r is closed. *)
CountryFrom(r, a) == IF r \in shut THEN "" ELSE CountryOf[a]

(* Blocked asks the reader it copied; an error fails open.                 *)
Blocked(q) ==
    /\ geoUp # "dead"
    /\ geoReq[q].at = "judge"
    /\ LET c == CountryFrom(geoReq[q].rdr, geoReq[q].addr)
       IN  geoReq' = [geoReq EXCEPT ![q] =
            [at |-> IF c # "" /\ countryBlocked(c) THEN "refused" ELSE "annotate",
             addr |-> geoReq[q].addr]]
    /\ UNCHANGED <<geoUp, geoFile, geoRdr, opened, shut, geoTask, geoNew, geoOld, fetched, geoFaults>>

(* Lookup copies all the readers, unless the address is private; after     *)
(* Shutdown has dropped the service the call panics and Recover answers.   *)
Lookup(q) ==
    /\ geoUp # "dead"
    /\ geoReq[q].at = "annotate"
    /\ geoReq' = [geoReq EXCEPT ![q] =
        IF geoUp = "closed" \/ geoReq[q].addr \in PrivateAddrs
        THEN [at |-> "passed", country |-> ""]
        ELSE [at |-> "resolve", addr |-> geoReq[q].addr, rdrs |-> geoRdr]]
    /\ UNCHANGED <<geoUp, geoFile, geoRdr, opened, shut, geoTask, geoNew, geoOld, fetched, geoFaults>>

(* The country database names the country, the city database when the      *)
(* former does not.                                                        *)
Resolve(q) ==
    LET r == geoReq[q].rdrs
        told(d) == d \in targets /\ r[d] # 0 /\ r[d] \notin shut
    IN  /\ geoUp # "dead"
        /\ geoReq[q].at = "resolve"
        /\ geoReq' = [geoReq EXCEPT ![q] =
            [at |-> "passed",
             country |-> IF told("country") \/ told("city")
                         THEN CountryOf[geoReq[q].addr] ELSE ""]]
        /\ UNCHANGED <<geoUp, geoFile, geoRdr, opened, shut, geoTask, geoNew, geoOld, fetched, geoFaults>>

(* A lookup in a file that Close is unmapping kills the process.           *)
LookupFaults(q) ==
    /\ geoUp # "dead"
    /\ \/ geoReq[q].at = "judge" /\ geoReq[q].rdr \in shut
       \/ geoReq[q].at = "resolve" /\ Loaded(geoReq[q].rdrs) \intersect shut # {}
    /\ geoUp' = "dead"
    /\ UNCHANGED <<geoFile, geoRdr, opened, shut, geoTask, geoNew, geoOld, fetched, geoReq, geoFaults>>

LeaveStage(q) ==
    /\ geoUp # "dead"
    /\ geoReq[q].at \in {"passed", "refused"}
    /\ geoReq' = [geoReq EXCEPT ![q] = Idle]
    /\ UNCHANGED <<geoUp, geoFile, geoRdr, opened, shut, geoTask, geoNew, geoOld, fetched, geoFaults>>

GeoIPNext ==
    \/ startGeoIP \/ Close
    \/ geoUp # "dead" /\ (swap \/ closeReader \/ swapDone)
    \/ Refresh \/ RefreshStep
    \/ \E q \in GeoReqs :
        \/ \E a \in GeoAddrs, allowlisted \in BOOLEAN : EnterStage(q, a, allowlisted)
        \/ Blocked(q) \/ Lookup(q) \/ Resolve(q) \/ LookupFaults(q) \/ LeaveStage(q)

-----------------------------------------------------------------------------
GeoIPTypeOK ==
    /\ geoUp \in {"new", "up", "closed", "dead"}
    /\ geoFile \in [targets -> {"none", "good", "bad"}]
    /\ geoRdr \in [targets -> 0..MaxReaders] /\ geoNew \in [targets -> 0..MaxReaders]
    /\ opened \in 0..MaxReaders
    /\ shut \subseteq 1..opened /\ geoOld \subseteq 1..opened
    /\ geoTask \in {"idle", "fetch", "swap", "close"}
    /\ fetched \subseteq targets

(* Refresh's comment: "If any download fails, Refresh returns that error   *)
(* and leaves the previously loaded readers untouched": while the server   *)
(* runs, readers that were serving are replaced only by a refresh that has *)
(* fetched every enabled database, and never by readers already closed.    *)
RefreshAllOrNothing ==
    [][/\ geoUp = "up" /\ geoRdr # NoReaders /\ geoRdr' # geoRdr => fetched = targets
       /\ Loaded(geoRdr') \intersect shut' = {}
       /\ GeoIPTypeOK']_geoIPVars

(* Refresh's comment: when a downloaded file does not parse, "the previous *)
(* readers, if any, stay in place until a later successful reload": while  *)
(* the server runs, a database that was answering goes on answering.       *)
PreviousReadersStay ==
    [][geoUp = "up" => \A d \in targets : geoRdr[d] # 0 => geoRdr'[d] # 0]_geoIPVars

(* The comment on Service: it "answers Lookup and Blocked calls            *)
(* concurrently with a refresh swapping readers underneath" (geoip.go): no *)
(* request of a running server holds a reader that is closed, and none     *)
(* dies in one that is being unmapped.                                     *)
ReadersHeld(q) ==
    CASE geoReq[q].at = "judge" -> {geoReq[q].rdr}
      [] geoReq[q].at = "resolve" -> Loaded(geoReq[q].rdrs)
      [] OTHER -> {}
NoLookupOnClosed ==
    [][geoUp = "up" =>
           /\ geoUp' # "dead"
           /\ \A q \in GeoReqs : ReadersHeld(q)' \intersect shut' = {}]_geoIPVars
=============================================================================
