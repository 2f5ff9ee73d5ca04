------------------------------- MODULE Config -------------------------------
(***************************************************************************)
(* server.yml (src/config): what Load makes of a file an operator edited,  *)
(* what validation repairs, what environment and command line add on top,  *)
(* and what is written back.  A setting holds "def" (its default), "alt"   *)
(* (another valid value), "raw" (valid once folded or trimmed), "unset"    *)
(* (empty or zero) or "bad"; settings compared with one another hold "low" *)
(* or "high", flags "on" or "off", ports "p1" .. "p4".  Settings of a      *)
(* section that are checked alike are represented by one.  A configuration *)
(* holds the settings that differ from DefaultConfig.                      *)
(***************************************************************************)
EXTENDS Integers, FiniteSets

CONSTANTS
    MaxEdits,  \* bound: edits of the file and of the environment
    MaxStarts, \* bound: starts of the server
    GeneratedKeys,  \* the encryption keys the random source yields, in order
    GeneratedPorts  \* the free ports it finds, by the start that asks

ASSUME ConfigAssumption ==
    /\ MaxEdits \in Nat /\ MaxStarts \in Nat
    /\ \A n \in 1..MaxStarts : GeneratedKeys[n] \notin {"unset", "bad"} /\ GeneratedPorts[n] \in {"p3", "p4"}

VARIABLES
    cfFile,    \* server.yml: [exists, set]
    cfEnv,     \* the environment variables and flags the server is started with
    cfMem,     \* the configuration in memory
    cfStage,   \* how far the start has come; see Truncating, Saved
    cfRan,     \* what the server last ran with, while nothing was edited since
    cfTorn,    \* history: since then a save was ended between its two steps
    cfKeys,    \* encryption keys generated so far
    cfEdits, cfStarts

configVars == <<cfFile, cfEnv, cfMem, cfStage, cfRan, cfTorn, cfKeys, cfEdits, cfStarts>>

-----------------------------------------------------------------------------
(* The settings of each section and the values an operator may give them.  *)
AnyOf(settings, values) == settings \X values
Enum == {"def", "alt", "raw", "unset", "bad"}
Number == {"def", "alt", "unset", "bad"}
Text == {"def", "alt", "unset"}
Flag == {"on", "off"}
Sized == {"low", "high", "unset", "bad"}
ServerSettings ==
    AnyOf({"mode", "base_url"}, Enum) \cup AnyOf({"listen", "admin_path", "api_version"}, Number)
    \cup AnyOf({"application_name"}, Text)
    \cup AnyOf({"port"}, {"unset", "bad", "p1", "p2"}) \cup AnyOf({"key"}, {"unset"})
UserSettings ==
    AnyOf({"registration_mode", "visibility"}, Enum) \cup AnyOf({"password_min_length", "max_per_user"}, Number)
    \cup AnyOf({"users", "allow_2fa", "require_2fa"}, Flag)
OrgSettings ==
    AnyOf({"orgs"}, Flag) \cup AnyOf({"creation_mode"}, Enum) \cup AnyOf({"default_role"}, Enum \cup {"owner"})
DomainSettings ==
    AnyOf({"custom_domains", "apex", "subdomain", "wildcard"}, Flag) \cup AnyOf({"verification_ttl"}, Number)
    \cup AnyOf({"blocked_patterns"}, Enum)
NotificationSettings ==
    AnyOf({"position", "smtp_tls"}, Enum) \cup AnyOf({"smtp_port"}, Number) \cup AnyOf({"smtp_password"}, {"unset", "alt"})
SSLSettings ==
    AnyOf({"ssl_port"}, {"unset", "bad", "p1", "p3"}) \cup AnyOf({"min_version", "challenge"}, Enum)
    \cup AnyOf({"cert", "cert_key", "letsencrypt", "email"}, Flag)
WebSettings ==
    AnyOf({"exempt_paths"}, Enum) \cup AnyOf({"include_subdomains", "preload"}, Flag) \cup AnyOf({"hsts_age"}, Sized \ {"unset"})
LimitSettings == AnyOf({"max_body_size", "level"}, Number) \cup AnyOf({"types"}, Text) \cup AnyOf({"trusted_proxies"}, Enum)
SessionSettings ==
    AnyOf({"cookie_name"}, Text) \cup AnyOf({"secure", "same_site"}, Enum) \cup AnyOf({"max_age", "idle_timeout"}, Sized)
RateSettings == AnyOf({"bucket", "global_burst"}, Number)
Languages == {"en", "de", "xx"}
I18nSettings ==
    AnyOf({"default_language", "fallback_language"}, Languages \cup {"unset"})
    \cup AnyOf({"languages"}, {{"en", "de"}, {"de"}, {}}) \cup AnyOf({"cookie_max_age"}, Number)
CacheSettings == AnyOf({"cache_type"}, Enum) \cup AnyOf({"cache_host"}, Text) \cup AnyOf({"pool_size", "min_idle"}, Sized)
LogSettings ==
    AnyOf({"log_level", "filename", "rotate"}, Enum) \cup AnyOf({"format"}, Enum \cup {"custom"}) \cup AnyOf({"custom"}, Flag)
DatabaseSettings ==
    AnyOf({"database_type"}, Enum) \cup AnyOf({"database_port"}, Number) \cup AnyOf({"max_open", "max_idle"}, Sized)
SchedulerSettings ==
    AnyOf({"timezone", "catch_up"}, Number) \cup AnyOf({"schedule", "max_total_size"}, Number)
    \cup AnyOf({"max_backups"}, Number \cup {"over"})
GeoIPSettings == AnyOf({"deny", "allow"}, Enum) \cup AnyOf({"country_db"}, Flag)
MetricsSettings == AnyOf({"loki"}, Number)
BackupSettings == AnyOf({"compliance", "encryption"}, Flag) \cup AnyOf({"disk_threshold"}, Number)
UpdateSettings == AnyOf({"branch"}, Enum) \cup AnyOf({"defer_days"}, Number)
TorSettings == AnyOf({"circuits"}, Number) \cup AnyOf({"rate", "burst"}, Sized)
I2PSettings == AnyOf({"sam_address"}, Number) \cup AnyOf({"hops"}, Number)

Settings ==
    ServerSettings \cup UserSettings \cup OrgSettings \cup DomainSettings \cup NotificationSettings \cup SSLSettings
    \cup WebSettings \cup LimitSettings \cup SessionSettings \cup RateSettings \cup I18nSettings \cup CacheSettings
    \cup LogSettings \cup DatabaseSettings \cup SchedulerSettings \cup GeoIPSettings \cup MetricsSettings
    \cup BackupSettings \cup UpdateSettings \cup TorSettings \cup I2PSettings

(* DefaultConfig, where the default is not just "def".                     *)
TorDefaults(s) == CASE s = "rate" -> "low" [] s = "burst" -> "high" [] OTHER -> "def"
FeatureDefaults(s) ==
    CASE s \in {"users", "orgs", "allow_2fa", "apex", "subdomain", "encryption", "country_db"} -> "on"
      [] s \in {"require_2fa", "custom_domains", "wildcard", "compliance"} -> "off"
      [] s \in {"smtp_password", "deny", "allow"} -> "unset"
      [] OTHER -> TorDefaults(s)
DefaultConfig(s) ==
    CASE s \in {"port", "key", "ssl_port", "database_port", "trusted_proxies"} -> "unset"
      [] s \in {"cert", "cert_key", "letsencrypt", "email", "custom"} -> "off"
      [] s \in {"include_subdomains", "preload"} -> "on"
      [] s \in {"hsts_age", "max_age", "pool_size", "max_open"} -> "high"
      [] s \in {"idle_timeout", "min_idle", "max_idle"} -> "low"
      [] s \in {"default_language", "fallback_language"} -> "en"
      [] s = "languages" -> {"en", "de"}
      [] OTHER -> FeatureDefaults(s)

(* A configuration under validation: the settings that differ from the     *)
(* default, and whether a warning was recorded.                            *)
Value(c, s) == IF s \in DOMAIN c.set THEN c.set[s] ELSE DefaultConfig(s)
NothingSet == [s \in {} |-> "def"]
OnlyChanges(set) == [s \in {t \in DOMAIN set : set[t] # DefaultConfig(t)} |-> set[s]]
Put(set, s, v) == OnlyChanges([t \in {s} \cup DOMAIN set |-> IF t = s THEN v ELSE set[t]])
WithSetting(c, s, v) == [set |-> Put(c.set, s, v), warned |-> c.warned]
Warned(c) == [set |-> c.set, warned |-> TRUE]
WarnAndSet(c, s, v) == Warned(WithSetting(c, s, v))

(* The checks of single settings.  loud: anything that is not valid is     *)
(* replaced and warned about; quiet: an empty value is filled in silently; *)
(* mute: filled in silently.  kept: the spelling is accepted but not       *)
(* folded.                                                                 *)
CheckSettings(c, loud, quiet, mute, kept) ==
    LET checked == {s \in DOMAIN c.set : s \in loud \/ s \in quiet \/ s \in mute}
        bad == {s \in checked : c.set[s] \in {"unset", "bad"}}
        raw == {s \in checked \ kept : c.set[s] = "raw"}
    IN [set |-> OnlyChanges([s \in DOMAIN c.set |-> IF s \in bad THEN DefaultConfig(s)
                                                    ELSE IF s \in raw THEN "alt" ELSE c.set[s]]),
        warned |-> \/ c.warned
                   \/ \E s \in bad : s \in loud \/ (s \in quiet /\ c.set[s] = "bad")]
When(cond, then, c) == IF cond THEN then ELSE c
(* A list keeps its valid entries.                                         *)
CheckList(c, s) ==
    IF Value(c, s) = "bad" THEN WarnAndSet(c, s, "alt")
    ELSE When(Value(c, s) = "raw", WithSetting(c, s, "alt"), c)

-----------------------------------------------------------------------------
ValidateServer(c, random) ==
    LET d == CheckSettings(c, {}, {"mode", "listen", "admin_path", "api_version"},
                           {"base_url", "application_name"}, {})
    IN When(Value(d, "port") \in {"unset", "bad"}, WarnAndSet(d, "port", random), d)
ValidateSSL(c) ==
    LET a == When(Value(c, "ssl_port") = "bad", WarnAndSet(c, "ssl_port", "unset"), c)
        b == When(Value(a, "ssl_port") = Value(a, "port"), WarnAndSet(a, "ssl_port", "unset"), a)
        d == CheckSettings(b, {}, {"min_version", "challenge"}, {}, {})
        e == When(Value(d, "cert") # Value(d, "cert_key"),
                  WarnAndSet(WithSetting(d, "cert", "off"), "cert_key", "off"), d)
    IN When(Value(e, "letsencrypt") = "on" /\ Value(e, "email") = "off", WarnAndSet(e, "letsencrypt", "off"), e)
ValidateWeb(c) ==
    LET a == CheckList(When(Value(c, "exempt_paths") = "unset", WithSetting(c, "exempt_paths", "def"), c), "exempt_paths")
        b == CheckSettings(a, {"hsts_age"}, {}, {}, {})
    IN When(/\ Value(b, "preload") = "on"
            /\ Value(b, "include_subdomains") = "off" \/ Value(b, "hsts_age") = "low",
            WarnAndSet(b, "preload", "off"), b)
ValidateUsers(c) ==
    LET a == CheckSettings(c, {"registration_mode", "visibility", "password_min_length"}, {}, {}, {})
        b == When(Value(a, "max_per_user") = "bad", WarnAndSet(a, "max_per_user", "def"), a)
    IN When(Value(b, "require_2fa") = "on" /\ Value(b, "allow_2fa") = "off", WarnAndSet(b, "allow_2fa", "on"), b)
ValidateOrgs(c) ==
    LET a == When(Value(c, "orgs") = "on" /\ Value(c, "users") = "off", WarnAndSet(c, "orgs", "off"), c)
        b == CheckSettings(a, {"creation_mode", "default_role"}, {}, {}, {})
    IN When(Value(b, "default_role") = "owner", WarnAndSet(b, "default_role", "def"), b)
ValidateCustomDomains(c) ==
    LET a == When(Value(c, "custom_domains") = "on" /\ Value(c, "orgs") = "off",
                  WarnAndSet(c, "custom_domains", "off"), c)
        b == When(\A s \in {"apex", "subdomain", "wildcard"} : Value(a, s) = "off",
                  WarnAndSet(WithSetting(a, "apex", "on"), "subdomain", "on"), a)
    IN CheckList(CheckSettings(b, {"verification_ttl"}, {}, {}, {}), "blocked_patterns")
ValidateLimits(c) == CheckSettings(c, {"max_body_size"}, {}, {}, {})
ValidateCompression(c) ==
    LET a == CheckSettings(c, {"level"}, {}, {}, {})
    IN When(Value(a, "types") = "unset", WithSetting(a, "types", "def"), a)
ValidateSession(c) ==
    LET a == CheckSettings(c, {"max_age", "idle_timeout", "secure", "same_site"}, {}, {}, {})
        b == When(Value(a, "cookie_name") = "unset", WithSetting(a, "cookie_name", "def"), a)
    IN When(Value(b, "idle_timeout") = "high" /\ Value(b, "max_age") = "low", WarnAndSet(b, "idle_timeout", "low"), b)
ValidateRateLimit(c) == CheckSettings(c, {"bucket", "global_burst"}, {}, {}, {})
ValidateI18n(c) ==
    LET a == When(Value(c, "default_language") = "unset", WithSetting(c, "default_language", "en"), c)
        lang == Value(a, "default_language")
        b == CASE Value(a, "languages") = {} -> WithSetting(a, "languages", {lang})
               [] lang \notin Value(a, "languages") -> WarnAndSet(a, "languages", Value(a, "languages") \cup {lang})
               [] OTHER -> a
        d == When(Value(b, "fallback_language") = "unset", WithSetting(b, "fallback_language", "en"), b)
        e == When(Value(d, "fallback_language") \notin Value(d, "languages"),
                  WarnAndSet(d, "languages", Value(d, "languages") \cup {Value(d, "fallback_language")}), d)
    IN CheckSettings(e, {"cookie_max_age"}, {}, {}, {})
ValidateCache(c) ==
    LET a == CheckSettings(c, {"pool_size", "min_idle"}, {"cache_type"}, {}, {})
        b == When(Value(a, "cache_host") = "unset", WithSetting(a, "cache_host", "def"), a)
    IN When(Value(b, "min_idle") = "high" /\ Value(b, "pool_size") = "low", WarnAndSet(b, "min_idle", "low"), b)
ValidateLogs(c) ==
    LET a == CheckSettings(c, {"log_level", "format", "rotate"}, {"filename"}, {}, {"filename", "rotate"})
    IN When(Value(a, "format") = "custom" /\ Value(a, "custom") = "off", WarnAndSet(a, "format", "def"), a)
ValidateDatabase(c) ==
    LET a == CheckSettings(c, {"max_open", "max_idle"}, {"database_type"}, {}, {})
        b == When(Value(a, "database_port") = "bad", WarnAndSet(a, "database_port", "unset"), a)
    IN When(Value(b, "max_idle") = "high" /\ Value(b, "max_open") = "low", WarnAndSet(b, "max_idle", "low"), b)
ValidateTrustedProxies(c) == CheckList(c, "trusted_proxies")
ValidateNotifications(c) ==
    CheckSettings(c, {"position"}, {"smtp_port", "smtp_tls"}, {}, {"position", "smtp_tls"})
(* A retention above the recommended ceiling is warned about and kept; the *)
(* schedule of a task and the cap on all backups are only filled in.       *)
ValidateScheduler(c) ==
    LET a == CheckSettings(c, {}, {"timezone"}, {"max_backups"}, {"timezone"})
        b == When(Value(a, "catch_up") = "bad", WarnAndSet(a, "catch_up", "def"), a)
        d == When(Value(b, "schedule") = "unset", WithSetting(b, "schedule", "def"), b)
        e == When(Value(d, "max_total_size") = "unset", WithSetting(d, "max_total_size", "def"), d)
    IN When(Value(e, "max_backups") = "over", Warned(e), e)
ValidateGeoIP(c) ==
    LET a == CheckList(CheckList(c, "deny"), "allow")
        set == {s \in {"deny", "allow"} : Value(a, s) # "unset"}
    IN When(Cardinality(set) = 2 \/ (set # {} /\ Value(a, "country_db") = "off"), Warned(a), a)
ValidateMetrics(c) == CheckSettings(c, {}, {}, {"loki"}, {})
ValidateBackup(c) ==
    LET a == When(Value(c, "compliance") = "on" /\ Value(c, "encryption") = "off", WarnAndSet(c, "encryption", "on"), c)
    IN CheckSettings(a, {}, {"disk_threshold"}, {}, {})
ValidateUpdate(c) ==
    LET a == CheckSettings(c, {}, {"branch"}, {}, {"branch"})
    IN When(Value(a, "defer_days") = "bad", WarnAndSet(a, "defer_days", "def"), a)
ValidateTor(c) ==
    LET a == CheckSettings(c, {}, {"circuits", "rate", "burst"}, {}, {})
    IN When(Value(a, "burst") = "low" /\ Value(a, "rate") = "high",
            WarnAndSet(WithSetting(a, "rate", "low"), "burst", "high"), a)
ValidateI2P(c) ==
    LET a == CheckSettings(c, {}, {"sam_address"}, {}, {})
    IN When(Value(a, "hops") = "bad", WarnAndSet(a, "hops", "def"), a)

(* The sections, in the order Validate goes through them; After applies a  *)
(* section to the configuration the sections before it left.               *)
After(Section(_), c) == CHOOSE d \in {Section(b) : b \in {c}} : TRUE
ValidateCore(c, random) ==
    After(ValidateTrustedProxies, After(ValidateDatabase, After(ValidateLogs, After(ValidateCache,
        After(ValidateI18n, After(ValidateRateLimit, After(ValidateSession, After(ValidateCompression,
            After(ValidateLimits, ValidateServer(c, random))))))))))
ValidateTail(c) ==
    After(ValidateI2P, After(ValidateTor, After(ValidateUpdate, After(ValidateBackup, After(ValidateMetrics,
        After(ValidateGeoIP, After(ValidateScheduler, ValidateNotifications(c))))))))
\* Mutant: custom domains are checked before the organizations they need.
ValidateSwapped(c, random) ==
    After(ValidateTail, After(ValidateOrgs, After(ValidateCustomDomains, After(ValidateUsers,
        After(ValidateWeb, After(ValidateSSL, ValidateCore(c, random)))))))
Validate(c, random) ==
    After(ValidateTail, After(ValidateCustomDomains, After(ValidateOrgs, After(ValidateUsers,
        After(ValidateWeb, After(ValidateSSL, ValidateCore(c, random)))))))

-----------------------------------------------------------------------------
EnvVars == {"LISTEN", "PORT", "SMTP_PASSWORD", "--port"}

(* applyInitEnv: only over a setting that still has its default.           *)
ApplyInitEnv(c) ==
    LET a == When("PORT" \in cfEnv /\ Value(c, "port") = "unset", WithSetting(c, "port", "p2"), c)
    IN When("LISTEN" \in cfEnv /\ Value(a, "listen") = "def", WithSetting(a, "listen", "alt"), a)

(* Save is os.WriteFile: it opens the file, which empties it, and writes   *)
(* the configuration in memory.  Opening may fail; then the start ends, or *)
(* goes on if all it wanted to save was an address.                        *)
Save(set, saving, refused) ==
    \/ cfMem' = set /\ cfFile' = [exists |-> TRUE, set |-> NothingSet] /\ cfStage' = saving
    \/ cfMem' = (IF refused = "stopped" THEN NothingSet ELSE set) /\ cfStage' = refused /\ UNCHANGED cfFile
Truncating == {"loading", "keying", "publishing", "unsaved"}
Saved(stage) ==
    CASE stage = "loading" -> "loaded" [] stage \in {"keying", "publishing"} -> "keyed"
WriteSaved ==
    /\ cfStage \in Truncating \ {"unsaved"}
    /\ cfFile' = [exists |-> TRUE, set |-> cfMem] /\ cfStage' = Saved(cfStage)
    /\ UNCHANGED <<cfEnv, cfMem, cfRan, cfTorn, cfKeys, cfEdits, cfStarts>>

(* Load: the file over the defaults, the init environment, the validation, *)
(* and the file again when it is new or a warning was recorded.            *)
Load(random) ==
    /\ cfStage = "stopped" /\ cfStarts < MaxStarts
    /\ \E c \in {Validate(ApplyInitEnv([set |-> cfFile.set, warned |-> FALSE]), random)} :
          IF c.warned \/ ~cfFile.exists THEN Save(c.set, "loading", "stopped")
          ELSE cfMem' = c.set /\ cfStage' = "loaded" /\ UNCHANGED cfFile
    /\ cfStarts' = cfStarts + 1
    /\ UNCHANGED <<cfEnv, cfRan, cfTorn, cfKeys, cfEdits>>

(* applyCLIOverrides: on top of everything.                                *)
ApplyCLIOverrides(set) == IF "--port" \in cfEnv THEN Put(set, "port", "p1") ELSE set

(* ApplyRuntimeEnv: over whatever the file says, on every start; then the  *)
(* command line.                                                           *)
ApplyRuntimeEnv ==
    /\ cfStage = "loaded"
    /\ cfMem' = ApplyCLIOverrides(
          IF "SMTP_PASSWORD" \in cfEnv THEN Put(cfMem, "smtp_password", "env") ELSE cfMem)
    /\ cfStage' = "overlaid"
    /\ UNCHANGED <<cfFile, cfEnv, cfRan, cfTorn, cfKeys, cfEdits, cfStarts>>

NewKey == GeneratedKeys[cfKeys + 1]
\* Mutant: the generated key is used without being saved.
KeyUnsaved ==
    /\ cfStage = "overlaid" /\ cfStage' = "keyed"
    /\ IF "key" \in DOMAIN cfMem THEN UNCHANGED <<cfMem, cfFile, cfKeys>>
       ELSE cfKeys' = cfKeys + 1 /\ cfMem' = Put(cfMem, "key", NewKey) /\ UNCHANGED cfFile
    /\ UNCHANGED <<cfEnv, cfRan, cfTorn, cfEdits, cfStarts>>
(* A missing encryption key is generated and the whole configuration in    *)
(* memory saved.                                                           *)
EnsureEncryptionKey ==
    /\ cfStage = "overlaid"
    /\ IF "key" \in DOMAIN cfMem THEN cfStage' = "keyed" /\ UNCHANGED <<cfMem, cfFile, cfKeys>>
       ELSE cfKeys' = cfKeys + 1 /\ Save(Put(cfMem, "key", NewKey), "keying", "stopped")
    /\ UNCHANGED <<cfEnv, cfRan, cfTorn, cfEdits, cfStarts>>

(* startTor saves the configuration in memory again when the hidden        *)
(* service has a new address; a save that fails is logged.                 *)
SaveOnionAddress ==
    /\ \/ cfStage = "keyed" /\ Save(cfMem, "publishing", "keyed")
       \/ cfStage = "publishing" /\ cfStage' = "unsaved" /\ UNCHANGED <<cfMem, cfFile>>
    /\ UNCHANGED <<cfEnv, cfRan, cfTorn, cfKeys, cfEdits, cfStarts>>

NothingRan == [set |-> NothingSet, env |-> {"never"}]

(* The process ends, at any stage, by itself or not.                       *)
ConfigStop ==
    /\ cfStage # "stopped"
    /\ cfStage' = "stopped" /\ cfMem' = NothingSet
    /\ cfTorn' = (cfTorn \/ (cfRan # NothingRan /\ cfStage \in Truncating))
    /\ UNCHANGED <<cfFile, cfEnv, cfRan, cfKeys, cfEdits, cfStarts>>

(* startScheduler registers the tasks, and a start with a schedule that    *)
(* does not parse ends here; then the server runs.                         *)
RegisterTasks ==
    /\ cfStage \in {"keyed", "unsaved"}
    /\ Value([set |-> cfMem], "schedule") # "bad"
    /\ cfStage' = "running" /\ cfRan' = [set |-> cfMem, env |-> cfEnv] /\ cfTorn' = (cfStage = "unsaved")
    /\ UNCHANGED <<cfFile, cfEnv, cfMem, cfKeys, cfEdits, cfStarts>>

(* --maintenance mode and --update branch: a process of its own loads the  *)
(* file, sets one setting and saves; it may be ended within a save.        *)
SetMode ==
    /\ cfStage = "stopped" /\ cfStarts < MaxStarts /\ cfEdits < MaxEdits /\ cfFile.exists
    /\ \E s \in {"mode", "branch"} :
          LET c == Validate(ApplyInitEnv([set |-> cfFile.set, warned |-> FALSE]), "p4")
          IN \E set \in {WithSetting(c, s, "alt").set, NothingSet} :
                cfFile' = [exists |-> TRUE, set |-> set]
    /\ cfRan' = NothingRan /\ cfEdits' = cfEdits + 1
    /\ UNCHANGED <<cfEnv, cfMem, cfStage, cfTorn, cfKeys, cfStarts>>

(* The operator edits the stopped server's file, environment or flags.     *)
EditConfig ==
    /\ cfStage = "stopped" /\ cfStarts < MaxStarts /\ cfEdits < MaxEdits
    /\ \/ \E e \in Settings :
             /\ cfFile' = [exists |-> TRUE, set |-> Put(cfFile.set, e[1], e[2])]
             /\ UNCHANGED cfEnv
       \/ \E e \in EnvVars : cfEnv' = (cfEnv \cup {e}) \ (cfEnv \cap {e}) /\ UNCHANGED cfFile
    /\ cfRan' = NothingRan /\ cfEdits' = cfEdits + 1
    /\ UNCHANGED <<cfMem, cfStage, cfTorn, cfKeys, cfStarts>>

ConfigInit ==
    /\ cfFile = [exists |-> FALSE, set |-> NothingSet] /\ cfEnv = {} /\ cfMem = NothingSet
    /\ cfStage = "stopped" /\ cfRan = NothingRan /\ cfTorn = FALSE /\ cfKeys = 0 /\ cfEdits = 0 /\ cfStarts = 0

ConfigNext ==
    \/ Load(GeneratedPorts[cfStarts + 1]) \/ WriteSaved \/ ApplyRuntimeEnv \/ EnsureEncryptionKey \/ SaveOnionAddress
    \/ RegisterTasks \/ ConfigStop \/ SetMode \/ EditConfig

-----------------------------------------------------------------------------
(* Validate parses neither.                                                *)
Unchecked == {"schedule", "max_total_size"}
(* The settings the server has no use for when they are empty.             *)
Required ==
    {"mode", "listen", "admin_path", "api_version", "base_url", "application_name", "port", "min_version", "challenge",
     "exempt_paths", "hsts_age", "registration_mode", "visibility", "password_min_length", "creation_mode", "default_role",
     "verification_ttl", "max_body_size", "level", "types", "cookie_name", "max_age", "idle_timeout", "secure", "same_site",
     "bucket", "global_burst", "default_language", "fallback_language", "cookie_max_age", "cache_type", "cache_host",
     "pool_size", "min_idle", "log_level", "format", "filename", "rotate", "database_type", "max_open", "max_idle",
     "position", "smtp_port", "smtp_tls", "timezone", "max_backups", "schedule", "max_total_size", "loki",
     "disk_threshold", "branch", "circuits", "rate", "burst", "sam_address"}

(* Whatever an operator wrote, in the configuration Load returns no        *)
(* setting Validate parses is invalid, no setting that needs a value is    *)
(* empty, and the settings agree with one another after the last check as  *)
(* they did after their own.                                               *)
LoadedIsUsable ==
    cfStage = "loaded" =>
        LET v(s) == Value([set |-> cfMem], s) IN
        /\ \A s \in DOMAIN cfMem \ ({"languages"} \cup Unchecked) : cfMem[s] # "bad"
        /\ \A s \in Required : v(s) # "unset"
        /\ v("port") # v("ssl_port") /\ v("cert") = v("cert_key")
        /\ v("letsencrypt") = "on" => v("email") = "on"
        /\ v("preload") = "on" => v("include_subdomains") = "on" /\ v("hsts_age") = "high"
        /\ v("require_2fa") = "on" => v("allow_2fa") = "on"
        /\ v("custom_domains") = "on" => v("orgs") = "on"
        /\ v("orgs") = "on" => v("users") = "on"
        /\ v("default_role") # "owner"
        /\ \A p \in {<<"idle_timeout", "max_age">>, <<"min_idle", "pool_size">>, <<"max_idle", "max_open">>,
                     <<"rate", "burst">>} :
              v(p[1]) = "high" => v(p[2]) = "high"
        /\ {v("default_language"), v("fallback_language")} \subseteq v("languages")
        /\ v("format") = "custom" => v("custom") = "on"
        /\ v("compliance") = "on" => v("encryption") = "on"

(* A server restarted with nothing edited runs with the settings, the port *)
(* and the encryption key it had, whichever of its starts ended at which   *)
(* stage, as long as none ended between emptying the file and writing it.  *)
(* (Not so with LISTEN, which replaces the default an invalid listen fell  *)
(* back to, or with a --port that no check compares with the TLS port.)    *)
RestartKeepsSettings ==
    [][(cfStage' = "running" /\ ~cfTorn /\ cfRan.env = cfEnv /\ cfEnv \subseteq {"PORT", "SMTP_PASSWORD"})
        => cfMem' = cfRan.set]_configVars

(* "an invalid setting warns and falls back to the default; it never fails *)
(* startup" (config/validate.go Validate): so none is left.                *)
EverySettingRepaired == cfStage = "loaded" => \A s \in DOMAIN cfMem \ {"languages"} : cfMem[s] # "bad"

(* The encryption key "is generated once and kept, because a key that      *)
(* changed between runs would leave every value written under the old one  *)
(* unreadable" (startup/startup.go).                                       *)
KeyIsKept ==
    [][(cfStage' = "running" /\ cfRan.env = cfEnv) => cfMem'["key"] = cfRan.set["key"]]_configVars

(* Runtime environment variables "are re-read on every start and are never *)
(* persisted back to server.yml" (config/env.go ApplyRuntimeEnv).          *)
RuntimeEnvNotPersisted == "smtp_password" \in DOMAIN cfFile.set => cfFile.set["smtp_password"] # "env"

(* Load writes the file back "when anything changed" (config.go Load):     *)
(* what it returns is what the file then says.                             *)
FileFollowsLoad == cfStage = "loaded" => cfFile.set = cfMem
=============================================================================
