------------------------------ MODULE Secrets ------------------------------
(***************************************************************************)
(* The versions of one app_secrets name (src/database/secret.go), shared   *)
(* by every node of a deployment: created on first use by EnsureSecret,    *)
(* rotated add-only by RotateSecret, thinned out by PruneSecrets.          *)
(*                                                                         *)
(* EnsureSecret is three statements (read, insert, re-read) with anything  *)
(* in between; RotateSecret is one transaction stamped with a time taken   *)
(* before it begins.  A generated value is a number never used before.     *)
(***************************************************************************)
EXTENDS Integers

CONSTANTS
    Nodes,
    Graces,     \* grace periods a rotation may be given
    MaxVersion, \* bound: versions a secret reaches
    MaxValues,  \* bound: candidates generated
    MaxTime     \* bound: the clock stops here

ASSUME SecretsAssumption ==
    /\ Graces \subseteq Nat
    /\ MaxVersion \in Nat \ {0}
    /\ MaxValues \in Nat
    /\ MaxTime \in Nat

VARIABLES
    now,
    rows,     \* app_secrets: the row of each version
    fresh,    \* number of values generated
    pc,       \* where each node is in EnsureSecret or RotateSecret
    cand,     \* the candidate it generated
    when,     \* the `now` its rotation captured
    held,     \* the value and version EnsureSecret returned to it
    issued,   \* the value with which each version was first stored (history)
    deadline  \* the end of the grace window each version was given (history)

vars == <<now, rows, fresh, pc, cand, when, held, issued, deadline>>

Versions == 1..MaxVersion
Null == -1
NoRow == [in |-> FALSE, value |-> 0, expires |-> Null]
Row(value) == [in |-> TRUE, value |-> value, expires |-> Null]
Expire(row, until) == [in |-> row.in, value |-> row.value, expires |-> until]
Nothing == [version |-> 0, value |-> 0]

-----------------------------------------------------------------------------
(* ORDER BY version DESC LIMIT 1.                                          *)
IsCurrent(v) == rows[v].in /\ \A w \in Versions : rows[w].in => w <= v
Empty == \A v \in Versions : ~rows[v].in

Init ==
    /\ now = 0
    /\ rows = [v \in Versions |-> NoRow]
    /\ fresh = 0
    /\ pc = [n \in Nodes |-> "idle"]
    /\ cand = [n \in Nodes |-> 0]
    /\ when = [n \in Nodes |-> 0]
    /\ held = [n \in Nodes |-> Nothing]
    /\ issued = [v \in Versions |-> 0]
    /\ deadline = [v \in Versions |-> Null]

Generate(n) ==
    /\ fresh < MaxValues
    /\ fresh' = fresh + 1
    /\ cand' = [cand EXCEPT ![n] = fresh + 1]

(* GetSecret's answer, if there is one, is what the node uses from now on. *)
Got(n) ==
    \E v \in Versions :
        /\ IsCurrent(v)
        /\ held' = [held EXCEPT ![n] = [version |-> v, value |-> rows[v].value]]

(* EnsureSecret, first part: GetSecret finds the secret and returns it, ...*)
EnsureFound(n) ==
    /\ pc[n] = "idle"
    /\ Got(n)
    /\ UNCHANGED <<now, rows, fresh, pc, cand, when, issued, deadline>>

(* ... or does not, and a candidate is generated;                          *)
EnsureMissing(n) ==
    /\ pc[n] = "idle"
    /\ Empty
    /\ Generate(n)
    /\ pc' = [pc EXCEPT ![n] = "insert"]
    /\ UNCHANGED <<now, rows, when, held, issued, deadline>>

(* INSERT version 1 ... ON CONFLICT DO NOTHING;                            *)
EnsureInsert(n) ==
    /\ pc[n] = "insert"
    /\ rows' = IF rows[1].in THEN rows ELSE [rows EXCEPT ![1] = Row(cand[n])]
    /\ issued' = IF issued[1] = 0 THEN [issued EXCEPT ![1] = cand[n]] ELSE issued
    /\ pc' = [pc EXCEPT ![n] = "reread"]
    /\ UNCHANGED <<now, fresh, cand, when, held, deadline>>

(* Mutant: the candidate is used without the re-read.                      *)
EnsureTrustsCandidate(n) ==
    /\ pc[n] = "reread"
    /\ held' = [held EXCEPT ![n] = [version |-> 1, value |-> cand[n]]]
    /\ pc' = [pc EXCEPT ![n] = "idle"]
    /\ UNCHANGED <<now, rows, fresh, cand, when, issued, deadline>>

(* and the second GetSecret.                                               *)
EnsureReread(n) ==
    /\ pc[n] = "reread"
    /\ Got(n)
    /\ pc' = [pc EXCEPT ![n] = "idle"]
    /\ UNCHANGED <<now, rows, fresh, cand, when, issued, deadline>>

(* RotateSecret generates and takes the time before its transaction.       *)
RotateBegin(n) ==
    /\ pc[n] = "idle"
    /\ Generate(n)
    /\ when' = [when EXCEPT ![n] = now]
    /\ pc' = [pc EXCEPT ![n] = "rotate"]
    /\ UNCHANGED <<now, rows, held, issued, deadline>>

(* Mutant: expires_at is set on the new version.                           *)
RotateExpiresNew(n, grace) ==
    /\ pc[n] = "rotate"
    /\ \E v \in Versions :
          /\ IsCurrent(v) /\ v < MaxVersion
          /\ rows' = [rows EXCEPT
                ![v+1] = Expire(Row(cand[n]), when[n] + grace)]
          /\ issued' = [issued EXCEPT ![v+1] = cand[n]]
          /\ deadline' = [deadline EXCEPT ![v] = when[n] + grace]
    /\ pc' = [pc EXCEPT ![n] = "idle"]
    /\ UNCHANGED <<now, fresh, cand, when, held>>

(* The transaction: version+1 is inserted, the version it replaces expires.*)
RotateCommit(n, grace) ==
    /\ pc[n] = "rotate"
    /\ \E v \in Versions :
          /\ IsCurrent(v) /\ v < MaxVersion
          /\ rows' = [rows EXCEPT ![v+1] = Row(cand[n]),
                                  ![v] = Expire(@, when[n] + grace)]
          /\ issued' = [issued EXCEPT ![v+1] = cand[n]]
          /\ deadline' = [deadline EXCEPT ![v] = when[n] + grace]
    /\ pc' = [pc EXCEPT ![n] = "idle"]
    /\ UNCHANGED <<now, fresh, cand, when, held>>

(* No row, a conflict with another writer, or a timeout: rolled back.      *)
RotateRollback(n) ==
    /\ pc[n] = "rotate"
    /\ pc' = [pc EXCEPT ![n] = "idle"]
    /\ UNCHANGED <<now, rows, fresh, cand, when, held, issued, deadline>>

(* Mutant: a window that closes right now counts as closed.                *)
PrunableEarly(v) ==
    /\ rows[v].in /\ ~IsCurrent(v)
    /\ rows[v].expires # Null /\ rows[v].expires <= now

(* The WHERE clause of PruneSecrets.                                       *)
Prunable(v) ==
    /\ rows[v].in /\ ~IsCurrent(v)
    /\ rows[v].expires # Null /\ rows[v].expires < now

PruneSecrets ==
    /\ \E v \in Versions : Prunable(v)
    /\ rows' = [v \in Versions |-> IF Prunable(v) THEN NoRow ELSE rows[v]]
    /\ UNCHANGED <<now, fresh, pc, cand, when, held, issued, deadline>>

(* A process ends, whatever it was doing, and forgets what it held.        *)
Crash(n) ==
    /\ pc[n] # "idle" \/ held[n] # Nothing
    /\ pc' = [pc EXCEPT ![n] = "idle"]
    /\ held' = [held EXCEPT ![n] = Nothing]
    /\ UNCHANGED <<now, rows, fresh, cand, when, issued, deadline>>

Clock ==
    /\ now < MaxTime
    /\ now' = now + 1
    /\ UNCHANGED <<rows, fresh, pc, cand, when, held, issued, deadline>>

Next ==
    \/ Clock
    \/ PruneSecrets
    \/ \E n \in Nodes :
          \/ EnsureFound(n) \/ EnsureMissing(n) \/ EnsureInsert(n) \/ EnsureReread(n)
          \/ RotateBegin(n) \/ RotateRollback(n) \/ Crash(n)
          \/ \E grace \in Graces : RotateCommit(n, grace)

Spec == Init /\ [][Next]_vars

-----------------------------------------------------------------------------
Rows == {NoRow} \cup [in : {TRUE}, value : Nat \ {0}, expires : Nat \cup {Null}]

(* Type invariant; a stored value is never empty (ErrEmptySecret).         *)
TypeOK ==
    /\ now \in Nat
    /\ rows \in [Versions -> Rows]
    /\ fresh \in Nat
    /\ pc \in [Nodes -> {"idle", "insert", "reread", "rotate"}]
    /\ cand \in [Nodes -> Nat]
    /\ when \in [Nodes -> Nat]
    /\ held \in [Nodes -> [version : Versions \cup {0}, value : Nat]]
    /\ issued \in [Versions -> Nat]
    /\ deadline \in [Versions -> Nat \cup {Null}]

(* EnsureSecret's comment: every node converges on the ONE stored value.   *)
(* Nodes that hold the same version hold the same value, whatever races    *)
(* between first uses, rotations, prunes and restarts produced it.         *)
Agreement ==
    \A m, n \in Nodes :
        held[m].version = held[n].version => held[m].value = held[n].value

(* PruneSecrets' comment: the current version has no expires_at.           *)
CurrentNeverExpires ==
    \A v \in Versions : IsCurrent(v) => rows[v].expires = Null

(* RotateSecret's comment: an HMAC signed with a version validates until   *)
(* the version's window closes.  A version that is current, or inside the  *)
(* window its rotation gave it, is stored with the value it was issued     *)
(* with.                                                                   *)
WindowKept ==
    \A v \in Versions :
        issued[v] # 0 /\ (deadline[v] = Null \/ now <= deadline[v]) =>
            rows[v].in /\ rows[v].value = issued[v]

(* EnsureSecret's comment: "The first writer's row stands, every later     *)
(* writer's insert is a silent no-op": a version number never comes to     *)
(* mean a second value.                                                    *)
FirstWriterStands ==
    \A v \in Versions : rows[v].in => rows[v].value = issued[v]
=============================================================================
