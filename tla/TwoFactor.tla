----------------------------- MODULE TwoFactor -----------------------------
(***************************************************************************)
(* The second factor of one account (src/server/service/account.go and     *)
(* src/server/store/totp.go): an enrollment is started, confirmed with a   *)
(* code, gates every later sign-in, and is given up against the password.  *)
(*                                                                         *)
(* A request reads the totp_secrets row in one statement and writes it in  *)
(* another; the row it read is tfArg.  A seed is random, so it is a number *)
(* never used before, and a recovery code is the seed it was issued with   *)
(* and its position.  A time-based code is valid for the seed it was       *)
(* computed from; the clock is left out.                                   *)
(***************************************************************************)
EXTENDS Integers, FiniteSets

CONSTANTS
    TFReqs,        \* request goroutines
    TFSids,        \* sessions that may be opened
    RecoveryCodes, \* positions of the recovery codes of an enrollment
    Require2FA,    \* users.auth.require_2fa
    MaxSeeds       \* bound: enrollments started

ASSUME TwoFactorAssumption == MaxSeeds \in Nat /\ Require2FA \in BOOLEAN

VARIABLES
    totp,     \* the totp_secrets row
    tfSess,   \* the user_sessions row of each session
    seeds,    \* seeds generated
    tfPc,     \* the next statement of each request
    tfArg,    \* the row and the session each request works with
    spending, \* the recovery code each request has matched and not yet written off
    spent,    \* how often each recovery code was accepted (history)
    contested,\* codes spent while another request held a list with them (history)
    stripped  \* a confirmed factor was lost without the password (history)

twoFactorVars == <<totp, tfSess, seeds, tfPc, tfArg, spending, spent, contested, stripped>>

NoTOTP == [in |-> FALSE, seed |-> 0, confirmed |-> FALSE, codes |-> {}]
NoSid == "none"
AllCodes == (1..MaxSeeds) \X RecoveryCodes
TFNothing == [row |-> NoTOTP, sid |-> NoSid]

TwoFactorInit ==
    /\ totp = NoTOTP
    /\ tfSess = [s \in TFSids |-> "unused"]
    /\ seeds = 0
    /\ tfPc = [r \in TFReqs |-> "idle"]
    /\ tfArg = [r \in TFReqs |-> TFNothing]
    /\ spending = [r \in TFReqs |-> {}]
    /\ spent = [c \in AllCodes |-> 0]
    /\ contested = {}
    /\ stripped = FALSE

TFGoto(r, label, row, sid) ==
    /\ tfPc' = [tfPc EXCEPT ![r] = label]
    /\ tfArg' = [tfArg EXCEPT ![r] = [row |-> row, sid |-> sid]]
TFReturn(r) == TFGoto(r, "idle", NoTOTP, NoSid)
TFBegin(r, label, row, sid) == tfPc[r] = "idle" /\ TFGoto(r, label, row, sid)

SignedIn == \E s \in TFSids : tfSess[s] = "full"

-----------------------------------------------------------------------------
(* Login, once the password is verified: twoFactorEnabled is read, ...     *)
ReadTwoFactorEnabled(r, s) ==
    /\ tfSess[s] = "unused"
    /\ TFBegin(r, "open", totp, s)
    /\ UNCHANGED <<totp, tfSess, seeds, spending, spent, contested, stripped>>

(* ... then the session is opened, waiting for a code if it was enabled.   *)
OpenGatedSession(r) ==
    /\ tfPc[r] = "open"
    /\ tfSess' = [tfSess EXCEPT ![tfArg[r].sid] =
                    IF tfArg[r].row.confirmed THEN "pending" ELSE "full"]
    /\ TFReturn(r)
    /\ UNCHANGED <<totp, seeds, spending, spent, contested, stripped>>

(* StartTwoFactor, from a signed-in session: a fresh seed and a fresh list *)
(* of recovery codes.                                                      *)
StartTwoFactor(r) ==
    /\ SignedIn
    /\ seeds < MaxSeeds
    /\ seeds' = seeds + 1
    /\ TFBegin(r, "update", [in |-> TRUE, seed |-> seeds', confirmed |-> FALSE,
                             codes |-> {seeds'} \X RecoveryCodes], NoSid)
    /\ UNCHANGED <<totp, tfSess, spending, spent, contested, stripped>>

(* SaveTOTP updates the row, confirmed or not, ...                         *)
SaveTOTPUpdate(r) ==
    /\ tfPc[r] = "update"
    /\ \/ /\ totp.in
          /\ totp' = tfArg[r].row
          /\ stripped' = (stripped \/ totp.confirmed)
          /\ TFReturn(r)
       \/ /\ ~totp.in
          /\ TFGoto(r, "insert", tfArg[r].row, NoSid)
          /\ UNCHANGED <<totp, stripped>>
    /\ UNCHANGED <<tfSess, seeds, spending, spent, contested>>

(* ... or inserts it; a row that appeared meanwhile is a conflict.         *)
SaveTOTPInsert(r) ==
    /\ tfPc[r] = "insert"
    /\ totp' = IF totp.in THEN totp ELSE tfArg[r].row
    /\ TFReturn(r)
    /\ UNCHANGED <<tfSess, seeds, spending, spent, contested, stripped>>

(* ConfirmTwoFactor checks a code against the seed it reads, ...           *)
ConfirmTwoFactor(r) ==
    /\ SignedIn
    /\ totp.in
    /\ TFBegin(r, "confirm", totp, NoSid)
    /\ UNCHANGED <<totp, tfSess, seeds, spending, spent, contested, stripped>>

(* ... and marks whatever enrollment is stored by then.                    *)
ConfirmTOTP(r) ==
    /\ tfPc[r] = "confirm"
    /\ totp' = IF totp.in THEN [totp EXCEPT !.confirmed = TRUE] ELSE totp
    /\ TFReturn(r)
    /\ UNCHANGED <<tfSess, seeds, spending, spent, contested, stripped>>

(* VerifyTwoFactor of a session with a time-based code ...                 *)
VerifyTwoFactor(r, s) ==
    /\ tfSess[s] # "unused"
    /\ totp.in /\ totp.confirmed
    /\ TFBegin(r, "mark", totp, s)
    /\ UNCHANGED <<totp, tfSess, seeds, spending, spent, contested, stripped>>

(* The codes an acceptance of c puts in doubt: c, if another request is    *)
(* about to write back a list that holds it, and the stored codes other    *)
(* requests have matched, which the list just read still holds.            *)
Contends(c) ==
    UNION {({c} \cap tfArg[q].row.codes) \cup (spending[q] \cap totp.codes) :
             q \in {q \in TFReqs : tfPc[q] = "spend"}}

(* Mutant: the list written back still holds the code that matched.        *)
KeepRecoveryCode(r, s, c) ==
    /\ tfSess[s] # "unused"
    /\ totp.in /\ totp.confirmed
    /\ c \in totp.codes
    /\ TFBegin(r, "spend", totp, s)
    /\ spending' = [spending EXCEPT ![r] = {c}]
    /\ spent' = [spent EXCEPT ![c] = @ + 1]
    /\ contested' = contested \cup Contends(c)
    /\ UNCHANGED <<totp, tfSess, seeds, stripped>>

(* ... or with a recovery code, matched against the list it read.          *)
ConsumeRecoveryCode(r, s, c) ==
    /\ tfSess[s] # "unused"
    /\ totp.in /\ totp.confirmed
    /\ c \in totp.codes
    /\ TFBegin(r, "spend", [totp EXCEPT !.codes = @ \ {c}], s)
    /\ spending' = [spending EXCEPT ![r] = {c}]
    /\ spent' = [spent EXCEPT ![c] = @ + 1]
    /\ contested' = contested \cup Contends(c)
    /\ UNCHANGED <<totp, tfSess, seeds, stripped>>

(* The rest of the list is written over the stored one, if there is a row, *)
(* whatever list that is by now.                                           *)
SetRecoveryCodes(r) ==
    /\ tfPc[r] = "spend"
    /\ \/ /\ totp.in
          /\ totp' = [totp EXCEPT !.codes = tfArg[r].row.codes]
          /\ TFGoto(r, "mark", tfArg[r].row, tfArg[r].sid)
       \/ /\ ~totp.in
          /\ TFReturn(r)
          /\ UNCHANGED totp
    /\ spending' = [spending EXCEPT ![r] = {}]
    /\ UNCHANGED <<tfSess, seeds, spent, contested, stripped>>

MarkSessionTwoFactor(r) ==
    /\ tfPc[r] = "mark"
    /\ tfSess' = [tfSess EXCEPT ![tfArg[r].sid] = "full"]
    /\ TFReturn(r)
    /\ UNCHANGED <<totp, seeds, spending, spent, contested, stripped>>

(* DisableTwoFactor, the password verified; a deployment that requires a   *)
(* second factor refuses.                                                  *)
DisableTwoFactor ==
    /\ SignedIn
    /\ ~Require2FA
    /\ totp.in
    /\ totp' = NoTOTP
    /\ UNCHANGED <<tfSess, seeds, tfPc, tfArg, spending, spent, contested, stripped>>

TwoFactorNext ==
    \/ \E r \in TFReqs :
        \/ \E s \in TFSids : \/ ReadTwoFactorEnabled(r, s)
                             \/ VerifyTwoFactor(r, s)
                             \/ \E c \in totp.codes : ConsumeRecoveryCode(r, s, c)
        \/ OpenGatedSession(r)
        \/ StartTwoFactor(r) \/ SaveTOTPUpdate(r) \/ SaveTOTPInsert(r)
        \/ ConfirmTwoFactor(r) \/ ConfirmTOTP(r)
        \/ SetRecoveryCodes(r) \/ MarkSessionTwoFactor(r)
    \/ DisableTwoFactor

-----------------------------------------------------------------------------
TwoFactorTypeOK ==
    /\ totp \in [in : BOOLEAN, seed : 0..MaxSeeds, confirmed : BOOLEAN,
                 codes : SUBSET AllCodes]
    /\ tfSess \in [TFSids -> {"unused", "pending", "full"}]
    /\ \A r \in TFReqs : tfPc[r] \in {"idle", "open", "update", "insert",
                                      "confirm", "spend", "mark"}

(* A recovery code is accepted a second time only if, when it was spent,   *)
(* another request stood between reading a list with it and writing that   *)
(* list back (consumeRecoveryCode): re-enrolling, confirming, disabling    *)
(* and the acceptance of other codes never make a spent code good again.   *)
RecoverySingleUse == \A c \in AllCodes : spent[c] > 1 => c \in contested

(* The second factor's rows stay well formed and a spent code stays spent. *)
TwoFactorSound == TwoFactorTypeOK /\ RecoverySingleUse

(* What the comments on Enrollment and TOTP promise of the codes, "single- *)
(* use".  Two requests that read the list at the same time both accept a   *)
(* code, or the later write puts back the code the earlier one spent.      *)
RecoveryAcceptedOnce == \A c \in AllCodes : spent[c] <= 1

(* The comment on SaveTOTP: an enrollment replaces any earlier one.  The   *)
(* request that spent a code of the earlier one may still write the rest   *)
(* of its list over the new row.                                           *)
EarlierCodesReplaced == \A c \in totp.codes : c[1] = totp.seed

(* The comment on DisableTwoFactor: a session on its own cannot strip a    *)
(* confirmed second factor, only the password can.                         *)
PasswordGuardsDisable == ~stripped
=============================================================================
