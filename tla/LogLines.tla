------------------------------ MODULE LogLines ------------------------------
(***************************************************************************)
(* What reaches which log (src/logging/logger.go, format.go, audit.go,     *)
(* src/security/redact.go): a record is routed by its kind and level,      *)
(* rendered in the configured format with its sensitive fields replaced,   *)
(* and sanitized into one plain line.  A message is a sequence of          *)
(* character classes; a field is a path of keys that are sensitive or not. *)
(***************************************************************************)
EXTENDS Integers, Sequences, FiniteSets, FiniteSetsExt

CONSTANTS MaxMsg   \* bound: characters of a message

VARIABLES logCfg, logRec, logOut
logLinesVars == <<logCfg, logRec, logOut>>

(* a letter, a digit (no final byte of a sequence), brackets, a backslash, *)
(* a newline, ESC and BEL.                                                 *)
Printable == {"a", "0", "[", "]", "bs"}
FinalByte == {"a", "[", "]", "bs"}
LogChars == Printable \cup {"nl", "esc", "bel"}
LogLevels == 1..4   \* debug, info, warn, error
WarnLevel == 3

LogMessages == UNION {[1..n -> LogChars] : n \in 0..MaxMsg}
FieldPaths == {<<"plain">>, <<"secret">>, <<"plain", "secret">>, <<"secret", "plain">>}
LogKinds == {"log", "status", "access", "security", "audit"}

-----------------------------------------------------------------------------
(* skipEscapeSequence: the index past the sequence that starts at i.       *)
SkipEscape(s, i) ==
    LET n == Len(s)
        FirstFrom(k, stop) == {j \in k..n : s[j] \in stop}
        past(j) == IF s[j] = "bel" THEN j + 1
                   ELSE IF j < n /\ s[j + 1] = "bs" THEN j + 2 ELSE j
    IN  CASE i = n -> n + 1
          [] i < n /\ s[i + 1] = "[" ->
                 LET ends == FirstFrom(i + 2, FinalByte) IN IF ends = {} THEN n + 1 ELSE Min(ends) + 1
          [] i < n /\ s[i + 1] = "]" ->
                 LET ends == FirstFrom(i + 2, {"bel", "esc"}) IN IF ends = {} THEN n + 1 ELSE past(Min(ends))
          [] OTHER -> i + 2

(* Mutant: only the escape byte itself is taken out.                       *)
SanitizeEscOnly(s) == SelectSeq(s, LAMBDA c : c # "esc")

(* sanitize: escape sequences, control characters and non-ASCII go.        *)
Sanitize(s) ==
    LET rest[i \in 1..(Len(s) + 1)] ==
            IF i > Len(s) THEN <<>>
            ELSE IF s[i] = "esc" THEN rest[SkipEscape(s, i)]
            ELSE IF s[i] \in Printable THEN <<s[i]>> \o rest[i + 1] ELSE rest[i + 1]
    IN  rest[1]

(* RedactMap: the value of a sensitive key is replaced, a container under  *)
(* any other key is walked.                                                *)
RedactedAt(path) == \E i \in 1..Len(path) : path[i] = "secret"
RedactMap(path) == [path |-> path, value |-> IF RedactedAt(path) THEN "xxxxx" ELSE "value"]

(* The formats differ in layout; all of them sanitize what they are given, *)
(* and those that carry fields redact them first.                          *)
RenderLine(rec) == [text |-> Sanitize(rec.msg),
              fields |-> IF rec.kind = "access" THEN {} ELSE {RedactMap(p) : p \in rec.fields}]

(* Log: server.log at the level and above, warnings mirrored to error.log, *)
(* and everything to debug.log when it is on.                              *)
LogRoutes(cfg, level) ==
    (IF level >= cfg.level THEN {"server", "console"} \cup (IF level >= WarnLevel THEN {"error"} ELSE {}) ELSE {})
        \cup (IF cfg.debugLog THEN {"debug"} ELSE {})

(* suppressAccess: a health check that succeeded, unless asked for.        *)
SuppressAccess(cfg, rec) == rec.health /\ rec.ok /\ ~cfg.logHealthChecks /\ ~cfg.debug

(* The other kinds have a file of their own; a failed write of one is      *)
(* reported by Errorf.                                                     *)
Routes(cfg, rec) ==
    CASE rec.kind = "log" -> LogRoutes(cfg, rec.level)
      [] rec.kind = "status" -> {"server", "console"} \cup (IF cfg.debugLog THEN {"debug"} ELSE {})
      [] rec.kind = "access" /\ SuppressAccess(cfg, rec) -> {}
      [] rec.kind = "audit" /\ ~cfg.audit -> {}
      [] OTHER -> IF rec.writes THEN {rec.kind} ELSE LogRoutes(cfg, 4)

-----------------------------------------------------------------------------
NoRecord == [kind |-> "none"]
LogCfgs == [level : LogLevels, debugLog : BOOLEAN, debug : {FALSE}, logHealthChecks : {FALSE}, audit : {TRUE}]
               \cup {[level |-> 1, debugLog |-> TRUE, debug |-> TRUE, logHealthChecks |-> h, audit |-> FALSE] : h \in BOOLEAN}
LogLinesInit == logCfg = [level |-> WarnLevel, debugLog |-> FALSE, debug |-> FALSE, logHealthChecks |-> FALSE, audit |-> TRUE]
                /\ logRec = NoRecord /\ logOut = {}

(* One record on its way through the logger.                               *)
EmitRecord(cfg, rec) ==
    /\ logRec.kind = "none"
    /\ logCfg' = cfg
    /\ logRec' = rec
    /\ logOut' = Routes(cfg, rec) \X {RenderLine(rec)}

NewRecord(kind, level, msg, fields, health, ok, writes) ==
    [kind |-> kind, level |-> level, msg |-> msg, fields |-> fields, health |-> health, ok |-> ok, writes |-> writes]

LogLinesNext ==
    \/ \E msg \in LogMessages : EmitRecord(logCfg, NewRecord("log", WarnLevel, msg, FieldPaths, FALSE, TRUE, TRUE))
    \/ \E cfg \in LogCfgs, kind \in LogKinds, level \in LogLevels, health, ok, writes \in BOOLEAN :
           EmitRecord(cfg, NewRecord(kind, level, <<"a">>, FieldPaths, health, ok, writes))

-----------------------------------------------------------------------------
(* No crafted message forges a second line and no sensitive field shows    *)
(* its value in any log, whatever the nesting of escape sequences or of    *)
(* field groups; and whatever went wrong at the configured level shows up  *)
(* in error.log, a failed write of another log included.                   *)
LinesPlainRedactedRouted ==
    /\ \A o \in logOut :
           /\ \A i \in 1..Len(o[2].text) : o[2].text[i] \in Printable
           /\ \A f \in o[2].fields : (\E i \in 1..Len(f.path) : f.path[i] = "secret") => f.value = "xxxxx"
    /\ (logRec.kind = "log" /\ logRec.level >= WarnLevel /\ logRec.level >= logCfg.level)
           => \E o \in logOut : o[1] = "error"
    /\ (logRec.kind = "audit" /\ logCfg.audit /\ ~logRec.writes) => \E o \in logOut : o[1] = "error"
=============================================================================
