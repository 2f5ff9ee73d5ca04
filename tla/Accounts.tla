------------------------------ MODULE Accounts ------------------------------
(***************************************************************************)
(* The credentials of one account (src/server/service/auth.go, account.go  *)
(* and the store beneath them): its password and lockout counters, its     *)
(* sessions, its password resets and its e-mail verification.              *)
(*                                                                         *)
(* Every service call is a chain of single statements with no transaction  *)
(* around it, so any number of requests interleave between the statements  *)
(* and each may be cut short after any of them.  A session, a reset token  *)
(* and a verification token are random and never issued twice.  The second *)
(* factor is the module TwoFactor.                                         *)
(***************************************************************************)
EXTENDS Integers, FiniteSets

CONSTANTS
    Reqs,            \* request goroutines
    Passwords,
    Sids,            \* sessions that may be opened
    Tokens,          \* reset tokens that may be issued
    MaxFailedLogins, \* auth.max_failed_logins
    MaxCount,        \* bound: failed_logins counted
    MaxFaults        \* bound: requests cut short

ASSUME AccountsAssumption ==
    /\ MaxFailedLogins \in Nat \ {0}
    /\ MaxCount \in Nat
    /\ MaxFaults \in Nat

VARIABLES
    user,     \* the users row
    sess,     \* the user_sessions row of each session
    resets,   \* the password_resets row of each token
    verify,   \* the email_verifications row
    pc,       \* the next statement of each request
    arg,      \* what each request has read or was given
    doomed,   \* sessions live when a request last wrote a new password (history)
    revoked,  \* resets open when its ChangePassword wrote one (history)
    leftover, \* other resets open when its CompletePasswordReset did (history)
    redeemed, \* how often each reset token set a password (history)
    faults    \* requests cut short so far

rows == <<user, sess, resets, verify>>
history == <<doomed, revoked, leftover, redeemed>>
vars == <<user, sess, resets, verify, pc, arg, history, faults>>

None == "none"
NoArg == [pw |-> None, id |-> None, failed |-> 0]
Live == {s \in Sids : sess[s] \in {"open", "expired"}}
Open == {k \in Tokens : resets[k] = "open"}

-----------------------------------------------------------------------------
Init ==
    /\ user \in [pw : Passwords, failed : {0}, locked : {FALSE}, old : BOOLEAN,
                 status : {"active", "pending"}, verified : {FALSE}]
    /\ sess = [s \in Sids |-> "unused"]
    /\ resets = [k \in Tokens |-> "unused"]
    /\ verify = "unused"
    /\ pc = [r \in Reqs |-> "idle"]
    /\ arg = [r \in Reqs |-> NoArg]
    /\ doomed = [r \in Reqs |-> {}]
    /\ revoked = [r \in Reqs |-> {}]
    /\ leftover = [r \in Reqs |-> {}]
    /\ redeemed = [k \in Tokens |-> 0]
    /\ faults = 0

Goto(r, label, a) ==
    /\ pc' = [pc EXCEPT ![r] = label]
    /\ arg' = [arg EXCEPT ![r] = a]
Continue(r, label) == Goto(r, label, arg[r])
Return(r) == Goto(r, "idle", NoArg)
Begin(r, label, a) == pc[r] = "idle" /\ Goto(r, label, a)

Active == user.status = "active"

(* UpdatePassword: the hash, and the lockout counters with it.             *)
UpdatePassword(p) ==
    user' = [user EXCEPT !.pw = p, !.failed = 0, !.locked = FALSE, !.old = FALSE]

-----------------------------------------------------------------------------
(* Login reads the account and verifies the password against that copy: a  *)
(* locked or inactive account goes no further.                             *)
Login(r, p) ==
    /\ ~user.locked
    /\ \/ /\ p # user.pw
          /\ Begin(r, "fail-read", NoArg)
       \/ /\ p = user.pw /\ Active
          /\ Begin(r, IF user.old THEN "rehash" ELSE "success", [NoArg EXCEPT !.pw = p])
    /\ UNCHANGED <<rows, history, faults>>

(* RecordLoginFailure: read, ...                                           *)
FailRead(r) ==
    /\ pc[r] = "fail-read"
    /\ user.failed < MaxCount
    /\ Goto(r, "fail-write", [NoArg EXCEPT !.failed = user.failed + 1])
    /\ UNCHANGED <<rows, history, faults>>

(* ... then write both columns from what was read.                         *)
FailWrite(r) ==
    /\ pc[r] = "fail-write"
    /\ user' = [user EXCEPT !.failed = arg[r].failed,
                            !.locked = arg[r].failed >= MaxFailedLogins]
    /\ Return(r)
    /\ UNCHANGED <<sess, resets, verify, history, faults>>

(* A hash with outdated parameters is replaced; an error is ignored.       *)
Rehash(r) ==
    /\ pc[r] = "rehash"
    /\ UpdatePassword(arg[r].pw) \/ UNCHANGED user
    /\ Continue(r, "success")
    /\ UNCHANGED <<sess, resets, verify, history, faults>>

RecordLoginSuccess(r) ==
    /\ pc[r] = "success"
    /\ user' = [user EXCEPT !.failed = 0, !.locked = FALSE]
    /\ Continue(r, "open")
    /\ UNCHANGED <<sess, resets, verify, history, faults>>

OpenSession(r, s) ==
    /\ pc[r] = "open"
    /\ sess[s] = "unused"
    /\ sess' = [sess EXCEPT ![s] = "open"]
    /\ Return(r)
    /\ UNCHANGED <<user, resets, verify, history, faults>>

-----------------------------------------------------------------------------
DeleteUserSessions == sess' = [s \in Sids |-> IF s \in Live THEN "gone" ELSE sess[s]]

(* ChangePassword verifies the current password, ...                       *)
ChangePassword(r, p, q) ==
    /\ p = user.pw
    /\ Begin(r, "change", [NoArg EXCEPT !.pw = q])
    /\ UNCHANGED <<rows, history, faults>>

(* ... writes the new one, ...                                             *)
ChangeWrite(r) ==
    /\ pc[r] = "change"
    /\ UpdatePassword(arg[r].pw)
    /\ doomed' = [doomed EXCEPT ![r] = Live]
    /\ revoked' = [revoked EXCEPT ![r] = Open]
    /\ Continue(r, "drop-resets")
    /\ UNCHANGED <<sess, resets, verify, leftover, redeemed, faults>>

(* ... deletes every reset of the user, used or not, ...                   *)
DropResets(r) ==
    /\ pc[r] = "drop-resets"
    /\ resets' = [k \in Tokens |-> IF resets[k] = "unused" THEN "unused" ELSE "gone"]
    /\ Continue(r, "drop-sessions")
    /\ UNCHANGED <<user, sess, verify, history, faults>>

(* ... and ends every session.                                             *)
DropSessions(r) ==
    /\ pc[r] = "drop-sessions"
    /\ DeleteUserSessions
    /\ Return(r)
    /\ UNCHANGED <<user, resets, verify, history, faults>>

-----------------------------------------------------------------------------
(* StartPasswordReset looks the account up, then stores a token.           *)
StartPasswordReset(r) ==
    /\ Active
    /\ Begin(r, "issue", NoArg)
    /\ UNCHANGED <<rows, history, faults>>

CreatePasswordReset(r, k) ==
    /\ pc[r] = "issue"
    /\ resets[k] = "unused"
    /\ resets' = [resets EXCEPT ![k] = "open"]
    /\ Return(r)
    /\ UNCHANGED <<user, sess, verify, history, faults>>

(* CompletePasswordReset reads the token, which must be usable, ...        *)
CompletePasswordReset(r, k, q) ==
    /\ resets[k] = "open"
    /\ Begin(r, "consume", [NoArg EXCEPT !.id = k, !.pw = q])
    /\ UNCHANGED <<rows, history, faults>>

(* ... marks it used, which only the first of several racing requests can  *)
(* do (its expiry is not looked at again), ...                             *)
Consume(r) ==
    /\ pc[r] = "consume"
    /\ IF resets[arg[r].id] \in {"open", "expired"}
       THEN resets' = [resets EXCEPT ![arg[r].id] = "used"] /\ Continue(r, "reset")
       ELSE UNCHANGED resets /\ Return(r)
    /\ UNCHANGED <<user, sess, verify, history, faults>>

(* Mutant: the sessions are left open.                                     *)
ResetKeepsSessions(r) ==
    /\ pc[r] = "reset"
    /\ UpdatePassword(arg[r].pw)
    /\ doomed' = [doomed EXCEPT ![r] = Live]
    /\ leftover' = [leftover EXCEPT ![r] = Open]
    /\ redeemed' = [redeemed EXCEPT ![arg[r].id] = @ + 1]
    /\ Return(r)
    /\ UNCHANGED <<sess, resets, verify, revoked, faults>>

(* ... writes the password, and then ends every session.                   *)
ResetWrite(r) ==
    /\ pc[r] = "reset"
    /\ UpdatePassword(arg[r].pw)
    /\ doomed' = [doomed EXCEPT ![r] = Live]
    /\ leftover' = [leftover EXCEPT ![r] = Open]
    /\ redeemed' = [redeemed EXCEPT ![arg[r].id] = @ + 1]
    /\ Continue(r, "drop-sessions")
    /\ UNCHANGED <<sess, resets, verify, revoked, faults>>

-----------------------------------------------------------------------------
(* ResolveSession reads the row: an expired session is to be deleted, a    *)
(* live one of an active account (read next) to be touched.                *)
ResolveSession(r, s) ==
    /\ s \in Live
    /\ Begin(r, IF sess[s] = "expired" THEN "delete" ELSE "account",
             [NoArg EXCEPT !.id = s])
    /\ UNCHANGED <<rows, history, faults>>

ResolveAccount(r) ==
    /\ pc[r] = "account"
    /\ IF Active THEN Continue(r, "touch") ELSE Return(r)
    /\ UNCHANGED <<rows, history, faults>>

(* Mutant: TouchSession writes the whole row back.                         *)
TouchUpserts(r) ==
    /\ pc[r] = "touch"
    /\ sess' = [sess EXCEPT ![arg[r].id] = "open"]
    /\ Return(r)
    /\ UNCHANGED <<user, resets, verify, history, faults>>

(* TouchSession stamps the row if it is still there.                       *)
TouchSession(r) ==
    /\ pc[r] = "touch"
    /\ Return(r)
    /\ UNCHANGED <<rows, history, faults>>

(* Logout deletes at once, RevokeSession after listing the sessions.       *)
EndSession(r, s) ==
    /\ s \in Live
    /\ Begin(r, "delete", [NoArg EXCEPT !.id = s])
    /\ UNCHANGED <<rows, history, faults>>

DeleteSession(r) ==
    /\ pc[r] = "delete"
    /\ sess' = [sess EXCEPT ![arg[r].id] = "gone"]
    /\ Return(r)
    /\ UNCHANGED <<user, resets, verify, history, faults>>

PurgeExpiredSessions ==
    /\ \E s \in Sids : sess[s] = "expired"
    /\ sess' = [s \in Sids |-> IF sess[s] = "expired" THEN "gone" ELSE sess[s]]
    /\ UNCHANGED <<user, resets, verify, pc, arg, history, faults>>

PurgeExpiredChallenges ==
    /\ \E k \in Tokens : resets[k] = "expired"
    /\ resets' = [k \in Tokens |-> IF resets[k] = "expired" THEN "gone" ELSE resets[k]]
    /\ UNCHANGED <<user, sess, verify, pc, arg, history, faults>>

-----------------------------------------------------------------------------
(* StartEmailVerification; one address is enough.                          *)
StartEmailVerification ==
    /\ verify = "unused"
    /\ verify' = "open"
    /\ UNCHANGED <<user, sess, resets, pc, arg, history, faults>>

(* CompleteEmailVerification reads the token, ...                          *)
CompleteEmailVerification(r) ==
    /\ verify = "open"
    /\ Begin(r, "ev-consume", NoArg)
    /\ UNCHANGED <<rows, history, faults>>

(* ... consumes it, guarded like a reset, ...                              *)
ConsumeVerification(r) ==
    /\ pc[r] = "ev-consume"
    /\ IF verify = "open"
       THEN verify' = "used" /\ Continue(r, "ev-mark")
       ELSE UNCHANGED verify /\ Return(r)
    /\ UNCHANGED <<user, sess, resets, history, faults>>

(* ... marks the address verified, ...                                     *)
MarkEmailVerified(r) ==
    /\ pc[r] = "ev-mark"
    /\ user' = [user EXCEPT !.verified = TRUE]
    /\ Continue(r, "ev-status")
    /\ UNCHANGED <<sess, resets, verify, history, faults>>

(* ... and activates an account it then finds pending.  (No code path      *)
(* suspends an account, so read and write are one step here.)              *)
Activate(r) ==
    /\ pc[r] = "ev-status"
    /\ user' = [user EXCEPT !.status = "active"]
    /\ Return(r)
    /\ UNCHANGED <<sess, resets, verify, history, faults>>

-----------------------------------------------------------------------------
(* Time passes: the lockout, a session or a reset token runs out.          *)
LockoutEnds ==
    /\ user.locked
    /\ user' = [user EXCEPT !.locked = FALSE]
    /\ UNCHANGED <<sess, resets, verify, pc, arg, history, faults>>

SessionExpires(s) ==
    /\ sess[s] = "open"
    /\ sess' = [sess EXCEPT ![s] = "expired"]
    /\ UNCHANGED <<user, resets, verify, pc, arg, history, faults>>

ResetExpires(k) ==
    /\ resets[k] = "open"
    /\ resets' = [resets EXCEPT ![k] = "expired"]
    /\ UNCHANGED <<user, sess, verify, pc, arg, history, faults>>

(* A statement fails, the client goes away or the process dies: the        *)
(* request ends where it is, and what it had promised is void.             *)
Abort(r) ==
    /\ pc[r] # "idle"
    /\ faults < MaxFaults
    /\ faults' = faults + 1
    /\ Return(r)
    /\ doomed' = [doomed EXCEPT ![r] = {}]
    /\ revoked' = [revoked EXCEPT ![r] = {}]
    /\ leftover' = [leftover EXCEPT ![r] = {}]
    /\ UNCHANGED <<rows, redeemed>>

Step(r) ==
    \/ FailRead(r) \/ FailWrite(r) \/ Rehash(r) \/ RecordLoginSuccess(r)
    \/ ChangeWrite(r) \/ DropResets(r) \/ DropSessions(r)
    \/ Consume(r) \/ ResetWrite(r)
    \/ ResolveAccount(r) \/ TouchSession(r) \/ DeleteSession(r)
    \/ CompleteEmailVerification(r) \/ ConsumeVerification(r)
    \/ MarkEmailVerified(r) \/ Activate(r)
    \/ StartPasswordReset(r) \/ Abort(r)

Next ==
    \/ LockoutEnds \/ PurgeExpiredSessions \/ PurgeExpiredChallenges \/ StartEmailVerification
    \/ \E s \in Sids : SessionExpires(s)
    \/ \E k \in Tokens : ResetExpires(k)
    \/ \E r \in Reqs :
          \/ Step(r)
          \/ \E p \in Passwords : Login(r, p)
          \/ \E p, q \in Passwords : ChangePassword(r, p, q)
          \/ \E s \in Sids : OpenSession(r, s) \/ ResolveSession(r, s) \/ EndSession(r, s)
          \/ \E k \in Tokens : CreatePasswordReset(r, k)
          \/ \E k \in Tokens, q \in Passwords : CompletePasswordReset(r, k, q)

Spec == Init /\ [][Next]_vars

-----------------------------------------------------------------------------
(* Type invariant.                                                         *)
TypeOK ==
    /\ user \in [pw : Passwords, failed : 0..MaxCount, locked : BOOLEAN, old : BOOLEAN,
                 status : {"active", "pending"}, verified : BOOLEAN]
    /\ sess \in [Sids -> {"unused", "open", "expired", "gone"}]
    /\ resets \in [Tokens -> {"unused", "open", "expired", "used", "gone"}]
    /\ verify \in {"unused", "open", "used"}
    /\ pc \in [Reqs -> {"idle", "fail-read", "fail-write", "rehash", "success", "open",
                        "change", "drop-resets", "drop-sessions", "issue", "consume",
                        "reset", "account", "touch", "delete", "ev-consume", "ev-mark",
                        "ev-status"}]
    /\ arg \in [Reqs -> [pw : Passwords \cup {None}, id : Sids \cup Tokens \cup {None},
                         failed : 0..MaxCount]]
    /\ doomed \in [Reqs -> SUBSET Sids]
    /\ revoked \in [Reqs -> SUBSET Tokens]
    /\ leftover \in [Reqs -> SUBSET Tokens]
    /\ redeemed \in [Tokens -> Nat]
    /\ faults \in 0..MaxFaults

Changing(r) == pc[r] \in {"drop-resets", "drop-sessions"}

(* ChangePassword and CompletePasswordReset: once the call has returned,   *)
(* every session that was live when it wrote the new password has ended,   *)
(* whatever was signing in, touching or ending sessions meanwhile.         *)
ChangeEndsSessions ==
    \A r \in Reqs : ~Changing(r) => doomed[r] \cap Live = {}

(* ChangePassword: once it has returned, no reset token that was           *)
(* outstanding when it wrote the new password can be redeemed any more.    *)
ChangeRevokesResets ==
    \A r \in Reqs : ~Changing(r) =>
        \A k \in revoked[r] : resets[k] \notin {"open", "expired"}

(* ConsumePasswordReset's comment: of the requests racing with one token   *)
(* at most one reaches the password.                                       *)
ResetSingleUse == \A k \in Tokens : redeemed[k] <= 1

(* What keeps one account safe while two requests work on it.              *)
AccountsSafe == TypeOK /\ ChangeEndsSessions /\ ChangeRevokesResets /\ ResetSingleUse

(* What no step undoes: an ended session never comes back, not even        *)
(* through a request that had resolved it before it ended, and a pending   *)
(* account becomes active only with its address verified, even if the call *)
(* that verifies it is cut short.                                          *)
EndedStaysEnded ==
    [][/\ \A s \in Sids : sess[s] = "gone" => sess'[s] = "gone"
       /\ user.status = "pending" /\ user'.status = "active" => user'.verified]_vars

(* DeleteUserPasswordResets' comment: a completed reset, like a password   *)
(* change, invalidates every outstanding reset.                            *)
ResetRevokesResets ==
    \A r \in Reqs : ~Changing(r) =>
        \A k \in leftover[r] : resets[k] \notin {"open", "expired"}
=============================================================================
