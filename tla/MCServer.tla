----------------------------- MODULE MCServer -------------------------------
(***************************************************************************)
(* What a server keeps on disk, in its database and in memory about        *)
(* itself, for TLC: application secrets, configuration, the resources of   *)
(* its process, backups, logs, its own binary, GeoIP databases and the     *)
(* names it is reached under.  A behaviour runs one part, chosen at the    *)
(* start, and leaves the others in their initial state.                    *)
(***************************************************************************)
EXTENDS Secrets, Config, Lifecycle, Backup, LogFile, LogLines, Update, GeoIP, UrlVars, TLC

CONSTANT Parts \* the parts a run lets behaviours choose from

VARIABLE part

(* The second day is a Sunday, and as by default no weekly backup is kept. *)
MCTierOf == [d \in 1..BackupDays |-> IF d = 2 THEN "weekly" ELSE "daily"]
MCKeepOf == [t \in {"daily", "weekly"} |-> IF t = "daily" THEN 2 ELSE 0]

MCGeneratedKeys == <<"k1", "k2", "k3">>
MCGeneratedPorts == <<"p3", "p4">>

(* Three stable releases, a beta without a checksum and a daily build.     *)
MCRelKind == "v1" :> "stable" @@ "v2" :> "stable" @@ "v3b" :> "beta" @@ "v4" :> "stable"
                 @@ "d5" :> "daily"
MCRelAt == "v1" :> 1 @@ "v2" :> 2 @@ "v3b" :> 3 @@ "v4" :> 4 @@ "d5" :> 5
MCRelAssets == [r \in {"v1", "v2", "v4", "d5"} |-> {"binary", "sha256"}] @@ "v3b" :> {"binary"}

MCCountryOf == "aa" :> "AA" @@ "bb" :> "BB" @@ "lan" :> ""

(* Hosts of two registrable domains, one that is no host name, the server's *)
(* own onion address, and what it falls back to.                           *)
MCUrlHosts == {"a.one", "b.one", "c.two", "junk", "x.onion"}
MCHostClass ==
    "junk" :> "garbled" @@ "x.onion" :> "overlay" @@ "localhost" :> "localhost"
        @@ "site" :> "single" @@ "ip4" :> "ip"
        @@ [h \in {"a.one", "b.one", "c.two"} |-> "public"]
MCHostBase ==
    [h \in {"a.one", "b.one"} |-> "one"] @@ "c.two" :> "two"
        @@ [h \in {"junk", "x.onion", "localhost", "site", "ip4"} |-> ""]
MCPeerClass == "dns" :> "named" @@ "far" :> "stranger"

(* A server that learns its name behind a proxy, one that knows it and may *)
(* not change it while it runs, and one the operator gave two names.       *)
MCConf(domains, live, hostnames, ifaces) ==
    [domains |-> domains, hostnames |-> hostnames, ifaces |-> ifaces, dev |-> FALSE,
     liveReload |-> live, learning |-> TRUE, onion |-> TRUE, listenV4 |-> TRUE,
     port |-> "443", baseURL |-> "/"]
MCUrlConfs ==
    {MCConf(<<>>, TRUE, <<"site">>, <<[v6 |-> FALSE, public |-> TRUE, addr |-> "ip4"]>>),
     MCConf(<<>>, FALSE, <<"a.one">>, <<>>),
     MCConf(<<"a.one", "b.one">>, TRUE, <<>>, <<>>)}

serverVars == <<part, vars, configVars, lifecycleVars, backupVars, logFileVars, logLinesVars,
                updateVars, geoIPVars, urlVars>>

ServerInit ==
    /\ part \in Parts
    /\ Init /\ ConfigInit /\ LifecycleInit /\ BackupInit /\ LogFileInit /\ LogLinesInit
    /\ UpdateInit /\ GeoIPInit /\ UrlInit
    /\ part # "geoip" => \A d \in targets : geoFile[d] = "none"

ServerNext ==
    /\ \/ /\ part = "secrets" /\ Next
          /\ UNCHANGED <<configVars, lifecycleVars, backupVars, logFileVars, logLinesVars, updateVars, geoIPVars, urlVars>>
       \/ /\ part = "config" /\ ConfigNext
          /\ UNCHANGED <<vars, lifecycleVars, backupVars, logFileVars, logLinesVars, updateVars, geoIPVars, urlVars>>
       \/ /\ part = "lifecycle" /\ LifecycleNext
          /\ UNCHANGED <<vars, configVars, backupVars, logFileVars, logLinesVars, updateVars, geoIPVars, urlVars>>
       \/ /\ part = "backup" /\ BackupNext
          /\ UNCHANGED <<vars, configVars, lifecycleVars, logFileVars, logLinesVars, updateVars, geoIPVars, urlVars>>
       \/ /\ part = "logfile" /\ LogFileNext
          /\ UNCHANGED <<vars, configVars, lifecycleVars, backupVars, logLinesVars, updateVars, geoIPVars, urlVars>>
       \/ /\ part = "loglines" /\ LogLinesNext
          /\ UNCHANGED <<vars, configVars, lifecycleVars, backupVars, logFileVars, updateVars, geoIPVars, urlVars>>
       \/ /\ part = "update" /\ UpdateNext
          /\ UNCHANGED <<vars, configVars, lifecycleVars, backupVars, logFileVars, logLinesVars, geoIPVars, urlVars>>
       \/ /\ part = "geoip" /\ GeoIPNext
          /\ UNCHANGED <<vars, configVars, lifecycleVars, backupVars, logFileVars, logLinesVars, updateVars, urlVars>>
       \/ /\ part = "urlvars" /\ UrlNext
          /\ UNCHANGED <<vars, configVars, lifecycleVars, backupVars, logFileVars, logLinesVars, updateVars, geoIPVars>>
    /\ UNCHANGED part

ServerSpec == ServerInit /\ [][ServerNext]_serverVars

(* Of a run that is idle, and of a restore that is over, nothing is read   *)
(* any more; of the history only what ABackupSurvives asks.                *)
BackupView ==
    <<bkFile, bkSize, bkDay, bkPc, [t \in {u \in BackupRuns : bkPc[u] # "idle"} |-> bkName[t]], bkFaults,
      bkPc["daily"] # "idle" /\ bkFailed,
      bkFaults < BackupFaults => installed = "own",
      IF restoring = "nothing" THEN verifiedArchive ELSE <<restoring, installed>>,
      spoiled \/ oversized \/ \A tier \in backedUp : KeepOf[tier] = 0, spoiled \/ oversized>>

(* After the last start nothing reads the file; what the server ran with   *)
(* is asked for where RestartKeepsSettings promises something only.        *)
ConfigView ==
    LET last == cfStarts = MaxStarts
        promised == ~cfTorn /\ cfRan.env = cfEnv /\ cfEnv \subseteq {"PORT", "SMTP_PASSWORD"}
    IN IF last /\ cfStage = "stopped" THEN "over"
       ELSE <<cfEnv, cfMem, cfStage, cfKeys, IF promised THEN cfRan.set ELSE "none",
              IF last THEN "last" ELSE <<cfFile, cfStarts, cfEdits>>>>

(* What tells two states of a run apart: the state of the part it runs.    *)
PartView ==
    <<part, CASE part = "secrets" -> vars [] part = "config" -> ConfigView [] part = "lifecycle" -> lifecycleVars
              [] part = "backup" -> BackupView [] part = "logfile" -> logFileVars [] part = "loglines" -> logLinesVars
              [] part = "update" -> updateVars [] part = "geoip" -> geoIPVars [] part = "urlvars" -> urlVars>>

NodeSymmetry == Permutations(Nodes)
=============================================================================
