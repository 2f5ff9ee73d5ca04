-------------------------- MODULE IdentityProofs --------------------------
(***************************************************************************)
(* Proofs about who a caller is: the credentials of an account, its second *)
(* factor, registration, the administrator's setup and the chain a request *)
(* passes, for any number of requests, sessions, tokens, codes and names.  *)
(***************************************************************************)
EXTENDS Accounts, TwoFactor, Signup, Admin, Requests, FiniteSetTheorems, TLAPS

-----------------------------------------------------------------------------
(* Accounts.                                                               *)
(*                                                                         *)
(* A request that has written a password owes the end of the sessions and  *)
(* the resets it saw; the invariant says what is still owed at each of its *)
(* statements.  Single use of a reset token rests on Consume: whoever is   *)
(* at "reset" holds a token that is used, alone, and not yet redeemed.     *)

ArgsFit ==
    \A r \in Reqs :
        /\ pc[r] \in {"consume", "reset"} => arg[r].id \in Tokens
        /\ pc[r] \in {"delete", "account", "touch"} => arg[r].id \in Sids
        /\ pc[r] \in {"rehash", "change", "consume", "reset"} => arg[r].pw \in Passwords

DoomedEnd ==
    \A r \in Reqs : \A s \in doomed[r] :
        /\ sess[s] # "unused"
        /\ pc[r] \notin {"drop-resets", "drop-sessions"} => sess[s] = "gone"

RevokedEnd ==
    \A r \in Reqs : \A k \in revoked[r] :
        /\ resets[k] # "unused"
        /\ pc[r] # "drop-resets" => resets[k] \notin {"open", "expired"}

Redeeming(r, k) == pc[r] = "reset" /\ arg[r].id = k

OneRedeems ==
    \A k \in Tokens :
        /\ resets[k] \in {"unused", "open", "expired"} =>
              redeemed[k] = 0 /\ \A r \in Reqs : ~Redeeming(r, k)
        /\ \A r \in Reqs : Redeeming(r, k) => redeemed[k] = 0
        /\ \A r, q \in Reqs : Redeeming(r, k) /\ Redeeming(q, k) => r = q
        /\ redeemed[k] <= 1

ActivatesVerified == \A r \in Reqs : pc[r] = "ev-status" => user.verified

AccountsInv == TypeOK /\ ArgsFit /\ DoomedEnd /\ RevokedEnd /\ OneRedeems /\ ActivatesVerified

UserRow == [pw : Passwords, failed : 0..MaxCount, locked : BOOLEAN, old : BOOLEAN,
            status : {"active", "pending"}, verified : BOOLEAN]
ArgRow == [pw : Passwords \cup {None}, id : Sids \cup Tokens \cup {None}, failed : 0..MaxCount]
Labels == {"idle", "fail-read", "fail-write", "rehash", "success", "open", "change", "drop-resets",
           "drop-sessions", "issue", "consume", "reset", "account", "touch", "delete", "ev-consume",
           "ev-mark", "ev-status"}

LEMMA ArgsAre ==
    /\ NoArg \in ArgRow
    /\ \A p \in Passwords : [NoArg EXCEPT !.pw = p] \in ArgRow
    /\ \A i \in Sids \cup Tokens : [NoArg EXCEPT !.id = i] \in ArgRow
    /\ \A k \in Tokens, p \in Passwords : [NoArg EXCEPT !.id = k, !.pw = p] \in ArgRow
<1> USE AccountsAssumption DEF ArgRow, NoArg
<1>1. NoArg \in ArgRow
  OBVIOUS
<1>2. \A p \in Passwords : [NoArg EXCEPT !.pw = p] \in ArgRow
  OBVIOUS
<1>3. \A i \in Sids \cup Tokens : [NoArg EXCEPT !.id = i] \in ArgRow
  OBVIOUS
<1>4. ASSUME NEW k \in Tokens, NEW p \in Passwords PROVE [NoArg EXCEPT !.id = k, !.pw = p] \in ArgRow
  <2>1. [NoArg EXCEPT !.id = k] \in ArgRow
    BY <1>3
  <2>2. \A a \in ArgRow : [a EXCEPT !.pw = p] \in ArgRow
    OBVIOUS
  <2>3. [NoArg EXCEPT !.id = k, !.pw = p] = [[NoArg EXCEPT !.id = k] EXCEPT !.pw = p]
    BY Zenon
  <2> QED
    BY <2>1, <2>2, <2>3
<1> QED
  BY <1>1, <1>2, <1>3, <1>4

LEMMA GotoFits ==
    ASSUME TypeOK, NEW r \in Reqs, NEW label \in Labels, NEW a \in ArgRow, Goto(r, label, a)
    PROVE  pc' \in [Reqs -> Labels] /\ arg' \in [Reqs -> ArgRow]
BY DEF TypeOK, Goto, Labels, ArgRow

LEMMA PasswordFits ==
    ASSUME TypeOK, NEW p \in Passwords, UpdatePassword(p)
    PROVE  user' \in UserRow /\ user'.verified = user.verified
<1>1. user \in UserRow /\ 0 \in 0..MaxCount
  BY AccountsAssumption DEF TypeOK, UserRow
<1>2. user' = [pw |-> p, failed |-> 0, locked |-> FALSE, old |-> FALSE,
               status |-> user.status, verified |-> user.verified]
  BY <1>1 DEF UpdatePassword, UserRow
<1> QED
  BY <1>1, <1>2 DEF UserRow

LEMMA CountersFit ==
    ASSUME TypeOK, NEW n \in 0..MaxCount, NEW b \in BOOLEAN,
           user' = [user EXCEPT !.failed = n, !.locked = b]
    PROVE  user' \in UserRow
<1>1. user \in UserRow
  BY DEF TypeOK, UserRow
<1>2. user' = [pw |-> user.pw, failed |-> n, locked |-> b, old |-> user.old,
               status |-> user.status, verified |-> user.verified]
  BY <1>1 DEF UserRow
<1> QED
  BY <1>1, <1>2 DEF UserRow

(* A step that neither touches a reset row nor sends anybody to "reset".   *)
LEMMA NobodyNewRedeems ==
    ASSUME OneRedeems, UNCHANGED <<resets, redeemed>>,
           \A r \in Reqs : pc'[r] = "reset" => pc[r] = "reset" /\ arg'[r] = arg[r]
    PROVE  OneRedeems'
BY DEF OneRedeems, Redeeming

LEMMA InitAccounts == Init => AccountsInv
<1> SUFFICES ASSUME Init PROVE AccountsInv
  OBVIOUS
<1>1. TypeOK
  <2>1. user \in UserRow
    <3>1. 0 \in 0..MaxCount
      BY AccountsAssumption
    <3> QED
      BY <3>1 DEF Init, UserRow
  <2>2. arg \in [Reqs -> ArgRow]
    BY ArgsAre DEF Init
  <2> QED
    BY <2>1, <2>2, AccountsAssumption DEF Init, TypeOK, UserRow, ArgRow
<1>2. ArgsFit /\ DoomedEnd /\ RevokedEnd /\ OneRedeems /\ ActivatesVerified
  BY DEF Init, ArgsFit, DoomedEnd, RevokedEnd, OneRedeems, Redeeming, ActivatesVerified
<1> QED
  BY <1>1, <1>2 DEF AccountsInv

LEMMA LockoutEndsKeeps ==
    ASSUME AccountsInv, LockoutEnds
    PROVE  AccountsInv'
<1> USE DEF AccountsInv, LockoutEnds, history
<1>1. TypeOK'
  BY AccountsAssumption DEF TypeOK, ArgsFit
<1>2. ArgsFit'
  BY DEF TypeOK, ArgsFit
<1>3. DoomedEnd'
  BY DEF TypeOK, ArgsFit, DoomedEnd
<1>4. RevokedEnd'
  BY DEF TypeOK, ArgsFit, RevokedEnd
<1>5. OneRedeems'
  BY DEF TypeOK, ArgsFit, OneRedeems, Redeeming
<1>6. ActivatesVerified'
  BY DEF TypeOK, ActivatesVerified
<1> QED
  BY <1>1, <1>2, <1>3, <1>4, <1>5, <1>6

LEMMA PurgeExpiredSessionsKeeps ==
    ASSUME AccountsInv, PurgeExpiredSessions
    PROVE  AccountsInv'
<1> USE DEF AccountsInv, PurgeExpiredSessions, history
<1>1. TypeOK'
  BY AccountsAssumption DEF TypeOK, ArgsFit
<1>2. ArgsFit'
  BY DEF TypeOK, ArgsFit
<1>3. DoomedEnd'
  BY DEF TypeOK, ArgsFit, DoomedEnd
<1>4. RevokedEnd'
  BY DEF TypeOK, ArgsFit, RevokedEnd
<1>5. OneRedeems'
  BY DEF TypeOK, ArgsFit, OneRedeems, Redeeming
<1>6. ActivatesVerified'
  BY DEF TypeOK, ActivatesVerified
<1> QED
  BY <1>1, <1>2, <1>3, <1>4, <1>5, <1>6

LEMMA PurgeExpiredChallengesKeeps ==
    ASSUME AccountsInv, PurgeExpiredChallenges
    PROVE  AccountsInv'
<1> USE DEF AccountsInv, PurgeExpiredChallenges, history
<1>1. TypeOK'
  BY AccountsAssumption DEF TypeOK, ArgsFit
<1>2. ArgsFit'
  BY DEF TypeOK, ArgsFit
<1>3. DoomedEnd'
  BY DEF TypeOK, ArgsFit, DoomedEnd
<1>4. RevokedEnd'
  BY DEF TypeOK, ArgsFit, RevokedEnd
<1>5. OneRedeems'
  BY DEF TypeOK, ArgsFit, OneRedeems, Redeeming
<1>6. ActivatesVerified'
  BY DEF TypeOK, ActivatesVerified
<1> QED
  BY <1>1, <1>2, <1>3, <1>4, <1>5, <1>6

LEMMA StartEmailVerificationKeeps ==
    ASSUME AccountsInv, StartEmailVerification
    PROVE  AccountsInv'
<1> USE DEF AccountsInv, StartEmailVerification, history
<1>1. TypeOK'
  BY AccountsAssumption DEF TypeOK, ArgsFit
<1>2. ArgsFit'
  BY DEF TypeOK, ArgsFit
<1>3. DoomedEnd'
  BY DEF TypeOK, ArgsFit, DoomedEnd
<1>4. RevokedEnd'
  BY DEF TypeOK, ArgsFit, RevokedEnd
<1>5. OneRedeems'
  BY DEF TypeOK, ArgsFit, OneRedeems, Redeeming
<1>6. ActivatesVerified'
  BY DEF TypeOK, ActivatesVerified
<1> QED
  BY <1>1, <1>2, <1>3, <1>4, <1>5, <1>6

LEMMA SessionExpiresKeeps ==
    ASSUME AccountsInv, NEW s \in Sids, SessionExpires(s)
    PROVE  AccountsInv'
<1> USE DEF AccountsInv, SessionExpires, history
<1>1. TypeOK'
  BY AccountsAssumption DEF TypeOK, ArgsFit
<1>2. ArgsFit'
  BY DEF TypeOK, ArgsFit
<1>3. DoomedEnd'
  BY DEF TypeOK, ArgsFit, DoomedEnd
<1>4. RevokedEnd'
  BY DEF TypeOK, ArgsFit, RevokedEnd
<1>5. OneRedeems'
  BY DEF TypeOK, ArgsFit, OneRedeems, Redeeming
<1>6. ActivatesVerified'
  BY DEF TypeOK, ActivatesVerified
<1> QED
  BY <1>1, <1>2, <1>3, <1>4, <1>5, <1>6

LEMMA ResetExpiresKeeps ==
    ASSUME AccountsInv, NEW k \in Tokens, ResetExpires(k)
    PROVE  AccountsInv'
<1> USE DEF AccountsInv, ResetExpires, history
<1>1. TypeOK'
  BY AccountsAssumption DEF TypeOK, ArgsFit
<1>2. ArgsFit'
  BY DEF TypeOK, ArgsFit
<1>3. DoomedEnd'
  BY DEF TypeOK, ArgsFit, DoomedEnd
<1>4. RevokedEnd'
  BY DEF TypeOK, ArgsFit, RevokedEnd
<1>5. OneRedeems'
  BY DEF TypeOK, ArgsFit, OneRedeems, Redeeming
<1>6. ActivatesVerified'
  BY DEF TypeOK, ActivatesVerified
<1> QED
  BY <1>1, <1>2, <1>3, <1>4, <1>5, <1>6

LEMMA FailReadKeeps ==
    ASSUME AccountsInv, NEW r \in Reqs, FailRead(r)
    PROVE  AccountsInv'
<1> USE DEF AccountsInv, FailRead, Goto, NoArg, rows, history
<1>1. TypeOK'
  BY AccountsAssumption DEF TypeOK, ArgsFit
<1>2. ArgsFit'
  BY DEF TypeOK, ArgsFit
<1>3. DoomedEnd'
  BY DEF TypeOK, ArgsFit, DoomedEnd
<1>4. RevokedEnd'
  BY DEF TypeOK, ArgsFit, RevokedEnd
<1>5. OneRedeems'
  BY DEF TypeOK, ArgsFit, OneRedeems, Redeeming
<1>6. ActivatesVerified'
  BY DEF TypeOK, ActivatesVerified
<1> QED
  BY <1>1, <1>2, <1>3, <1>4, <1>5, <1>6

LEMMA FailWriteKeeps ==
    ASSUME AccountsInv, NEW r \in Reqs, FailWrite(r)
    PROVE  AccountsInv'
<1> USE DEF AccountsInv, FailWrite, Return, Goto, NoArg, history
<1>1. TypeOK'
  <2>1. user' \in UserRow
    <3>1. arg[r].failed \in 0..MaxCount /\ (arg[r].failed >= MaxFailedLogins) \in BOOLEAN
      BY DEF TypeOK
    <3> QED
      BY <3>1, CountersFit
  <2>2. pc' \in [Reqs -> Labels] /\ arg' \in [Reqs -> ArgRow]
    BY GotoFits, ArgsAre DEF Labels
  <2> QED
    BY <2>1, <2>2 DEF TypeOK, UserRow, ArgRow, Labels
<1>2. ArgsFit'
  BY DEF TypeOK, ArgsFit
<1>3. DoomedEnd'
  BY DEF TypeOK, ArgsFit, DoomedEnd
<1>4. RevokedEnd'
  BY DEF TypeOK, ArgsFit, RevokedEnd
<1>5. OneRedeems'
  BY DEF TypeOK, ArgsFit, OneRedeems, Redeeming
<1>6. ActivatesVerified'
  BY DEF TypeOK, ActivatesVerified
<1> QED
  BY <1>1, <1>2, <1>3, <1>4, <1>5, <1>6

LEMMA RehashKeeps ==
    ASSUME AccountsInv, NEW r \in Reqs, Rehash(r)
    PROVE  AccountsInv'
<1> USE DEF AccountsInv, Rehash, Continue, Goto, UpdatePassword, history
<1>1. TypeOK'
  <2>1. user' \in UserRow
    BY PasswordFits DEF ArgsFit, TypeOK, UserRow
  <2>2. pc' \in [Reqs -> Labels] /\ arg' \in [Reqs -> ArgRow]
    BY GotoFits DEF TypeOK, Labels, ArgRow
  <2> QED
    BY <2>1, <2>2 DEF TypeOK, UserRow, ArgRow, Labels
<1>2. ArgsFit'
  BY DEF TypeOK, ArgsFit
<1>3. DoomedEnd'
  BY DEF TypeOK, ArgsFit, DoomedEnd
<1>4. RevokedEnd'
  BY DEF TypeOK, ArgsFit, RevokedEnd
<1>5. OneRedeems'
  BY DEF TypeOK, ArgsFit, OneRedeems, Redeeming
<1>6. ActivatesVerified'
  BY DEF TypeOK, ActivatesVerified
<1> QED
  BY <1>1, <1>2, <1>3, <1>4, <1>5, <1>6

LEMMA RecordLoginSuccessKeeps ==
    ASSUME AccountsInv, NEW r \in Reqs, RecordLoginSuccess(r)
    PROVE  AccountsInv'
<1> USE DEF AccountsInv, RecordLoginSuccess, Continue, Goto, history
<1>1. TypeOK'
  <2>1. user' \in UserRow
    <3>1. 0 \in 0..MaxCount
      BY AccountsAssumption
    <3> QED
      BY <3>1, CountersFit
  <2>2. pc' \in [Reqs -> Labels] /\ arg' \in [Reqs -> ArgRow]
    BY GotoFits DEF TypeOK, Labels, ArgRow
  <2> QED
    BY <2>1, <2>2 DEF TypeOK, UserRow, ArgRow, Labels
<1>2. ArgsFit'
  BY DEF TypeOK, ArgsFit
<1>3. DoomedEnd'
  BY DEF TypeOK, ArgsFit, DoomedEnd
<1>4. RevokedEnd'
  BY DEF TypeOK, ArgsFit, RevokedEnd
<1>5. OneRedeems'
  BY DEF TypeOK, ArgsFit, OneRedeems, Redeeming
<1>6. ActivatesVerified'
  BY DEF TypeOK, ActivatesVerified
<1> QED
  BY <1>1, <1>2, <1>3, <1>4, <1>5, <1>6

LEMMA ChangeWriteKeeps ==
    ASSUME AccountsInv, NEW r \in Reqs, ChangeWrite(r)
    PROVE  AccountsInv'
<1> USE DEF AccountsInv, ChangeWrite, Continue, Goto, UpdatePassword, Live, Open
<1>1. TypeOK'
  <2>1. user' \in UserRow
    BY PasswordFits DEF ArgsFit
  <2>2. pc' \in [Reqs -> Labels] /\ arg' \in [Reqs -> ArgRow]
    BY GotoFits DEF TypeOK, Labels, ArgRow
  <2> QED
    BY <2>1, <2>2 DEF TypeOK, UserRow, ArgRow, Labels
<1>2. ArgsFit'
  BY DEF TypeOK, ArgsFit
<1>3. DoomedEnd'
  BY DEF TypeOK, ArgsFit, DoomedEnd
<1>4. RevokedEnd'
  BY DEF TypeOK, ArgsFit, RevokedEnd
<1>5. OneRedeems'
  BY DEF TypeOK, ArgsFit, OneRedeems, Redeeming
<1>6. ActivatesVerified'
  BY DEF TypeOK, ActivatesVerified
<1> QED
  BY <1>1, <1>2, <1>3, <1>4, <1>5, <1>6

LEMMA DropResetsKeeps ==
    ASSUME AccountsInv, NEW r \in Reqs, DropResets(r)
    PROVE  AccountsInv'
<1> USE DEF AccountsInv, DropResets, Continue, Goto, history
<1>1. TypeOK'
  BY AccountsAssumption DEF TypeOK, ArgsFit
<1>2. ArgsFit'
  BY DEF TypeOK, ArgsFit
<1>3. DoomedEnd'
  BY DEF TypeOK, ArgsFit, DoomedEnd
<1>4. RevokedEnd'
  BY DEF TypeOK, ArgsFit, RevokedEnd
<1>5. OneRedeems'
  BY DEF TypeOK, ArgsFit, OneRedeems, Redeeming
<1>6. ActivatesVerified'
  BY DEF TypeOK, ActivatesVerified
<1> QED
  BY <1>1, <1>2, <1>3, <1>4, <1>5, <1>6

LEMMA DropSessionsKeeps ==
    ASSUME AccountsInv, NEW r \in Reqs, DropSessions(r)
    PROVE  AccountsInv'
<1> USE DEF AccountsInv, DropSessions, Return, Goto, DeleteUserSessions, Live, NoArg, history
<1>1. TypeOK'
  BY AccountsAssumption DEF TypeOK, ArgsFit
<1>2. ArgsFit'
  BY DEF TypeOK, ArgsFit
<1>3. DoomedEnd'
  BY DEF TypeOK, ArgsFit, DoomedEnd
<1>4. RevokedEnd'
  BY DEF TypeOK, ArgsFit, RevokedEnd
<1>5. OneRedeems'
  BY DEF TypeOK, ArgsFit, OneRedeems, Redeeming
<1>6. ActivatesVerified'
  BY DEF TypeOK, ActivatesVerified
<1> QED
  BY <1>1, <1>2, <1>3, <1>4, <1>5, <1>6

LEMMA ConsumeKeeps ==
    ASSUME AccountsInv, NEW r \in Reqs, Consume(r)
    PROVE  AccountsInv'
<1> USE DEF AccountsInv, Consume, Return, Goto, Continue, NoArg, history
<1>1. TypeOK'
  <2>1. pc' \in [Reqs -> Labels] /\ arg' \in [Reqs -> ArgRow]
    <3>1. arg[r] \in ArgRow /\ NoArg \in ArgRow /\ "reset" \in Labels /\ "idle" \in Labels
      BY ArgsAre DEF TypeOK, ArgRow, Labels
    <3>2. Goto(r, "reset", arg[r]) \/ Goto(r, "idle", NoArg)
      OBVIOUS
    <3> HIDE DEF Goto
    <3> QED
      BY <3>1, <3>2, GotoFits
  <2>2. resets' \in [Tokens -> {"unused", "open", "expired", "used", "gone"}]
    BY DEF TypeOK, ArgsFit
  <2> QED
    BY <2>1, <2>2 DEF TypeOK, UserRow, ArgRow, Labels
<1>2. ArgsFit'
  BY DEF TypeOK, ArgsFit
<1>3. DoomedEnd'
  BY DEF TypeOK, ArgsFit, DoomedEnd
<1>4. RevokedEnd'
  BY DEF TypeOK, ArgsFit, RevokedEnd
<1>5. OneRedeems'
  <2>1. CASE resets[arg[r].id] \in {"open", "expired"}
    <3>1. arg[r].id \in Tokens /\ redeemed[arg[r].id] = 0 /\ \A q \in Reqs : ~Redeeming(q, arg[r].id)
      BY <2>1 DEF ArgsFit, OneRedeems
    <3>2. resets' = [resets EXCEPT ![arg[r].id] = "used"] /\ arg' = arg /\ pc' = [pc EXCEPT ![r] = "reset"]
      BY <2>1 DEF TypeOK
    <3>3. \A q \in Reqs, k \in Tokens : Redeeming(q, k)' <=>
            Redeeming(q, k) \/ (q = r /\ k = arg[r].id)
      BY <3>2 DEF TypeOK, Redeeming
    <3> QED
      BY <3>1, <3>2, <3>3 DEF TypeOK, OneRedeems
  <2>2. CASE resets[arg[r].id] \notin {"open", "expired"}
    <3>1. \A q \in Reqs : pc'[q] = "reset" => pc[q] = "reset" /\ arg'[q] = arg[q]
      BY <2>2 DEF TypeOK
    <3> QED
      BY <2>2, <3>1, NobodyNewRedeems
  <2> QED
    BY <2>1, <2>2
<1>6. ActivatesVerified'
  BY DEF TypeOK, ActivatesVerified
<1> QED
  BY <1>1, <1>2, <1>3, <1>4, <1>5, <1>6

LEMMA ResetWriteKeeps ==
    ASSUME AccountsInv, NEW r \in Reqs, ResetWrite(r)
    PROVE  AccountsInv'
<1> USE DEF AccountsInv, ResetWrite, Continue, Goto, UpdatePassword, Live, Open
<1>1. TypeOK'
  <2>1. user' \in UserRow
    BY PasswordFits DEF ArgsFit
  <2>2. pc' \in [Reqs -> Labels] /\ arg' \in [Reqs -> ArgRow]
    BY GotoFits DEF TypeOK, Labels, ArgRow
  <2>3. redeemed' \in [Tokens -> Nat]
    BY DEF TypeOK, ArgsFit
  <2> QED
    BY <2>1, <2>2, <2>3 DEF TypeOK, UserRow, ArgRow, Labels
<1>2. ArgsFit'
  BY DEF TypeOK, ArgsFit
<1>3. DoomedEnd'
  BY DEF TypeOK, ArgsFit, DoomedEnd
<1>4. RevokedEnd'
  BY DEF TypeOK, ArgsFit, RevokedEnd
<1>5. OneRedeems'
  BY DEF TypeOK, ArgsFit, OneRedeems, Redeeming
<1>6. ActivatesVerified'
  BY DEF TypeOK, ActivatesVerified
<1> QED
  BY <1>1, <1>2, <1>3, <1>4, <1>5, <1>6

LEMMA ResolveAccountKeeps ==
    ASSUME AccountsInv, NEW r \in Reqs, ResolveAccount(r)
    PROVE  AccountsInv'
<1> USE DEF AccountsInv, ResolveAccount, Return, Goto, Continue, Active, NoArg, rows, history
<1>1. TypeOK'
  <2>1. pc' \in [Reqs -> Labels] /\ arg' \in [Reqs -> ArgRow]
    <3>1. arg[r] \in ArgRow /\ NoArg \in ArgRow /\ "touch" \in Labels /\ "idle" \in Labels
      BY ArgsAre DEF TypeOK, ArgRow, Labels
    <3>2. Goto(r, "touch", arg[r]) \/ Goto(r, "idle", NoArg)
      OBVIOUS
    <3> HIDE DEF Goto
    <3> QED
      BY <3>1, <3>2, GotoFits
  <2> QED
    BY <2>1 DEF TypeOK, UserRow, ArgRow, Labels
<1>2. ArgsFit'
  BY DEF TypeOK, ArgsFit
<1>3. DoomedEnd'
  BY DEF TypeOK, ArgsFit, DoomedEnd
<1>4. RevokedEnd'
  BY DEF TypeOK, ArgsFit, RevokedEnd
<1>5. OneRedeems'
  <2>1. \A x \in Reqs : pc'[x] = "reset" => pc[x] = "reset" /\ arg'[x] = arg[x]
    BY DEF TypeOK
  <2> QED
    BY <2>1, NobodyNewRedeems
<1>6. ActivatesVerified'
  BY DEF TypeOK, ActivatesVerified
<1> QED
  BY <1>1, <1>2, <1>3, <1>4, <1>5, <1>6

LEMMA TouchSessionKeeps ==
    ASSUME AccountsInv, NEW r \in Reqs, TouchSession(r)
    PROVE  AccountsInv'
<1> USE DEF AccountsInv, TouchSession, Return, Goto, NoArg, rows, history
<1>1. TypeOK'
  BY AccountsAssumption DEF TypeOK, ArgsFit
<1>2. ArgsFit'
  BY DEF TypeOK, ArgsFit
<1>3. DoomedEnd'
  BY DEF TypeOK, ArgsFit, DoomedEnd
<1>4. RevokedEnd'
  BY DEF TypeOK, ArgsFit, RevokedEnd
<1>5. OneRedeems'
  BY DEF TypeOK, ArgsFit, OneRedeems, Redeeming
<1>6. ActivatesVerified'
  BY DEF TypeOK, ActivatesVerified
<1> QED
  BY <1>1, <1>2, <1>3, <1>4, <1>5, <1>6

LEMMA DeleteSessionKeeps ==
    ASSUME AccountsInv, NEW r \in Reqs, DeleteSession(r)
    PROVE  AccountsInv'
<1> USE DEF AccountsInv, DeleteSession, Return, Goto, NoArg, history
<1>1. TypeOK'
  BY AccountsAssumption DEF TypeOK, ArgsFit
<1>2. ArgsFit'
  BY DEF TypeOK, ArgsFit
<1>3. DoomedEnd'
  BY DEF TypeOK, ArgsFit, DoomedEnd
<1>4. RevokedEnd'
  BY DEF TypeOK, ArgsFit, RevokedEnd
<1>5. OneRedeems'
  BY DEF TypeOK, ArgsFit, OneRedeems, Redeeming
<1>6. ActivatesVerified'
  BY DEF TypeOK, ActivatesVerified
<1> QED
  BY <1>1, <1>2, <1>3, <1>4, <1>5, <1>6

LEMMA CompleteEmailVerificationKeeps ==
    ASSUME AccountsInv, NEW r \in Reqs, CompleteEmailVerification(r)
    PROVE  AccountsInv'
<1> USE DEF AccountsInv, CompleteEmailVerification, Begin, Goto, NoArg, rows, history
<1>1. TypeOK'
  BY AccountsAssumption DEF TypeOK, ArgsFit
<1>2. ArgsFit'
  BY DEF TypeOK, ArgsFit
<1>3. DoomedEnd'
  BY DEF TypeOK, ArgsFit, DoomedEnd
<1>4. RevokedEnd'
  BY DEF TypeOK, ArgsFit, RevokedEnd
<1>5. OneRedeems'
  BY DEF TypeOK, ArgsFit, OneRedeems, Redeeming
<1>6. ActivatesVerified'
  BY DEF TypeOK, ActivatesVerified
<1> QED
  BY <1>1, <1>2, <1>3, <1>4, <1>5, <1>6

LEMMA ConsumeVerificationKeeps ==
    ASSUME AccountsInv, NEW r \in Reqs, ConsumeVerification(r)
    PROVE  AccountsInv'
<1> USE DEF AccountsInv, ConsumeVerification, Return, Goto, Continue, NoArg, history
<1>1. TypeOK'
  <2>1. pc' \in [Reqs -> Labels] /\ arg' \in [Reqs -> ArgRow]
    <3>1. arg[r] \in ArgRow /\ NoArg \in ArgRow /\ "ev-mark" \in Labels /\ "idle" \in Labels
      BY ArgsAre DEF TypeOK, ArgRow, Labels
    <3>2. Goto(r, "ev-mark", arg[r]) \/ Goto(r, "idle", NoArg)
      OBVIOUS
    <3> HIDE DEF Goto
    <3> QED
      BY <3>1, <3>2, GotoFits
  <2> QED
    BY <2>1 DEF TypeOK, UserRow, ArgRow, Labels
<1>2. ArgsFit'
  BY DEF TypeOK, ArgsFit
<1>3. DoomedEnd'
  BY DEF TypeOK, ArgsFit, DoomedEnd
<1>4. RevokedEnd'
  BY DEF TypeOK, ArgsFit, RevokedEnd
<1>5. OneRedeems'
  <2>1. \A x \in Reqs : pc'[x] = "reset" => pc[x] = "reset" /\ arg'[x] = arg[x]
    BY DEF TypeOK
  <2> QED
    BY <2>1, NobodyNewRedeems
<1>6. ActivatesVerified'
  BY DEF TypeOK, ActivatesVerified
<1> QED
  BY <1>1, <1>2, <1>3, <1>4, <1>5, <1>6

LEMMA MarkEmailVerifiedKeeps ==
    ASSUME AccountsInv, NEW r \in Reqs, MarkEmailVerified(r)
    PROVE  AccountsInv'
<1> USE DEF AccountsInv, MarkEmailVerified, Continue, Goto, history
<1>1. TypeOK'
  BY AccountsAssumption DEF TypeOK, ArgsFit
<1>2. ArgsFit'
  BY DEF TypeOK, ArgsFit
<1>3. DoomedEnd'
  BY DEF TypeOK, ArgsFit, DoomedEnd
<1>4. RevokedEnd'
  BY DEF TypeOK, ArgsFit, RevokedEnd
<1>5. OneRedeems'
  BY DEF TypeOK, ArgsFit, OneRedeems, Redeeming
<1>6. ActivatesVerified'
  BY DEF TypeOK, ActivatesVerified
<1> QED
  BY <1>1, <1>2, <1>3, <1>4, <1>5, <1>6

LEMMA ActivateKeeps ==
    ASSUME AccountsInv, NEW r \in Reqs, Activate(r)
    PROVE  AccountsInv'
<1> USE DEF AccountsInv, Activate, Return, Goto, NoArg, history
<1>1. TypeOK'
  BY AccountsAssumption DEF TypeOK, ArgsFit
<1>2. ArgsFit'
  BY DEF TypeOK, ArgsFit
<1>3. DoomedEnd'
  BY DEF TypeOK, ArgsFit, DoomedEnd
<1>4. RevokedEnd'
  BY DEF TypeOK, ArgsFit, RevokedEnd
<1>5. OneRedeems'
  BY DEF TypeOK, ArgsFit, OneRedeems, Redeeming
<1>6. ActivatesVerified'
  BY DEF TypeOK, ActivatesVerified
<1> QED
  BY <1>1, <1>2, <1>3, <1>4, <1>5, <1>6

LEMMA StartPasswordResetKeeps ==
    ASSUME AccountsInv, NEW r \in Reqs, StartPasswordReset(r)
    PROVE  AccountsInv'
<1> USE DEF AccountsInv, StartPasswordReset, Begin, Goto, Active, NoArg, rows, history
<1>1. TypeOK'
  BY AccountsAssumption DEF TypeOK, ArgsFit
<1>2. ArgsFit'
  BY DEF TypeOK, ArgsFit
<1>3. DoomedEnd'
  BY DEF TypeOK, ArgsFit, DoomedEnd
<1>4. RevokedEnd'
  BY DEF TypeOK, ArgsFit, RevokedEnd
<1>5. OneRedeems'
  BY DEF TypeOK, ArgsFit, OneRedeems, Redeeming
<1>6. ActivatesVerified'
  BY DEF TypeOK, ActivatesVerified
<1> QED
  BY <1>1, <1>2, <1>3, <1>4, <1>5, <1>6

LEMMA AbortKeeps ==
    ASSUME AccountsInv, NEW r \in Reqs, Abort(r)
    PROVE  AccountsInv'
<1> USE DEF AccountsInv, Abort, Return, Goto, NoArg, rows
<1>1. TypeOK'
  BY AccountsAssumption DEF TypeOK, ArgsFit
<1>2. ArgsFit'
  BY DEF TypeOK, ArgsFit
<1>3. DoomedEnd'
  BY DEF TypeOK, ArgsFit, DoomedEnd
<1>4. RevokedEnd'
  BY DEF TypeOK, ArgsFit, RevokedEnd
<1>5. OneRedeems'
  BY DEF TypeOK, ArgsFit, OneRedeems, Redeeming
<1>6. ActivatesVerified'
  BY DEF TypeOK, ActivatesVerified
<1> QED
  BY <1>1, <1>2, <1>3, <1>4, <1>5, <1>6

LEMMA LoginKeeps ==
    ASSUME AccountsInv, NEW r \in Reqs, NEW p \in Passwords, Login(r, p)
    PROVE  AccountsInv'
<1> USE DEF AccountsInv, Login, Begin, Goto, Active, NoArg, rows, history
<1>1. TypeOK'
  <2>1. pc' \in [Reqs -> Labels] /\ arg' \in [Reqs -> ArgRow]
    BY GotoFits, ArgsAre DEF Labels
  <2> QED
    BY <2>1 DEF TypeOK, UserRow, ArgRow, Labels
<1>2. ArgsFit'
  BY DEF TypeOK, ArgsFit
<1>3. DoomedEnd'
  BY DEF TypeOK, ArgsFit, DoomedEnd
<1>4. RevokedEnd'
  BY DEF TypeOK, ArgsFit, RevokedEnd
<1>5. OneRedeems'
  <2>1. \A x \in Reqs : pc'[x] = "reset" => pc[x] = "reset" /\ arg'[x] = arg[x]
    BY DEF TypeOK
  <2> QED
    BY <2>1, NobodyNewRedeems
<1>6. ActivatesVerified'
  BY DEF TypeOK, ActivatesVerified
<1> QED
  BY <1>1, <1>2, <1>3, <1>4, <1>5, <1>6

LEMMA ChangePasswordKeeps ==
    ASSUME AccountsInv, NEW r \in Reqs, NEW p \in Passwords, NEW q \in Passwords, ChangePassword(r, p, q)
    PROVE  AccountsInv'
<1> USE DEF AccountsInv, ChangePassword, Begin, Goto, NoArg, rows, history
<1>1. TypeOK'
  BY AccountsAssumption DEF TypeOK, ArgsFit
<1>2. ArgsFit'
  BY DEF TypeOK, ArgsFit
<1>3. DoomedEnd'
  BY DEF TypeOK, ArgsFit, DoomedEnd
<1>4. RevokedEnd'
  BY DEF TypeOK, ArgsFit, RevokedEnd
<1>5. OneRedeems'
  BY DEF TypeOK, ArgsFit, OneRedeems, Redeeming
<1>6. ActivatesVerified'
  BY DEF TypeOK, ActivatesVerified
<1> QED
  BY <1>1, <1>2, <1>3, <1>4, <1>5, <1>6

LEMMA OpenSessionKeeps ==
    ASSUME AccountsInv, NEW r \in Reqs, NEW s \in Sids, OpenSession(r, s)
    PROVE  AccountsInv'
<1> USE DEF AccountsInv, OpenSession, Return, Goto, NoArg, history
<1>1. TypeOK'
  BY AccountsAssumption DEF TypeOK, ArgsFit
<1>2. ArgsFit'
  BY DEF TypeOK, ArgsFit
<1>3. DoomedEnd'
  BY DEF TypeOK, ArgsFit, DoomedEnd
<1>4. RevokedEnd'
  BY DEF TypeOK, ArgsFit, RevokedEnd
<1>5. OneRedeems'
  BY DEF TypeOK, ArgsFit, OneRedeems, Redeeming
<1>6. ActivatesVerified'
  BY DEF TypeOK, ActivatesVerified
<1> QED
  BY <1>1, <1>2, <1>3, <1>4, <1>5, <1>6

LEMMA ResolveSessionKeeps ==
    ASSUME AccountsInv, NEW r \in Reqs, NEW s \in Sids, ResolveSession(r, s)
    PROVE  AccountsInv'
<1> USE DEF AccountsInv, ResolveSession, Begin, Goto, Live, NoArg, rows, history
<1>1. TypeOK'
  BY AccountsAssumption DEF TypeOK, ArgsFit
<1>2. ArgsFit'
  BY DEF TypeOK, ArgsFit
<1>3. DoomedEnd'
  BY DEF TypeOK, ArgsFit, DoomedEnd
<1>4. RevokedEnd'
  BY DEF TypeOK, ArgsFit, RevokedEnd
<1>5. OneRedeems'
  BY DEF TypeOK, ArgsFit, OneRedeems, Redeeming
<1>6. ActivatesVerified'
  BY DEF TypeOK, ActivatesVerified
<1> QED
  BY <1>1, <1>2, <1>3, <1>4, <1>5, <1>6

LEMMA EndSessionKeeps ==
    ASSUME AccountsInv, NEW r \in Reqs, NEW s \in Sids, EndSession(r, s)
    PROVE  AccountsInv'
<1> USE DEF AccountsInv, EndSession, Begin, Goto, Live, NoArg, rows, history
<1>1. TypeOK'
  BY AccountsAssumption DEF TypeOK, ArgsFit
<1>2. ArgsFit'
  BY DEF TypeOK, ArgsFit
<1>3. DoomedEnd'
  BY DEF TypeOK, ArgsFit, DoomedEnd
<1>4. RevokedEnd'
  BY DEF TypeOK, ArgsFit, RevokedEnd
<1>5. OneRedeems'
  BY DEF TypeOK, ArgsFit, OneRedeems, Redeeming
<1>6. ActivatesVerified'
  BY DEF TypeOK, ActivatesVerified
<1> QED
  BY <1>1, <1>2, <1>3, <1>4, <1>5, <1>6

LEMMA CreatePasswordResetKeeps ==
    ASSUME AccountsInv, NEW r \in Reqs, NEW k \in Tokens, CreatePasswordReset(r, k)
    PROVE  AccountsInv'
<1> USE DEF AccountsInv, CreatePasswordReset, Return, Goto, NoArg, history
<1>1. TypeOK'
  BY AccountsAssumption DEF TypeOK, ArgsFit
<1>2. ArgsFit'
  BY DEF TypeOK, ArgsFit
<1>3. DoomedEnd'
  BY DEF TypeOK, ArgsFit, DoomedEnd
<1>4. RevokedEnd'
  BY DEF TypeOK, ArgsFit, RevokedEnd
<1>5. OneRedeems'
  BY DEF TypeOK, ArgsFit, OneRedeems, Redeeming
<1>6. ActivatesVerified'
  BY DEF TypeOK, ActivatesVerified
<1> QED
  BY <1>1, <1>2, <1>3, <1>4, <1>5, <1>6

LEMMA CompletePasswordResetKeeps ==
    ASSUME AccountsInv, NEW r \in Reqs, NEW k \in Tokens, NEW q \in Passwords, CompletePasswordReset(r, k, q)
    PROVE  AccountsInv'
<1> USE DEF AccountsInv, CompletePasswordReset, Begin, Goto, NoArg, rows, history
<1>1. TypeOK'
  <2>1. pc' \in [Reqs -> Labels] /\ arg' \in [Reqs -> ArgRow]
    BY GotoFits, ArgsAre DEF Labels
  <2> QED
    BY <2>1 DEF TypeOK, UserRow, ArgRow, Labels
<1>2. ArgsFit'
  BY DEF TypeOK, ArgsFit
<1>3. DoomedEnd'
  BY DEF TypeOK, ArgsFit, DoomedEnd
<1>4. RevokedEnd'
  BY DEF TypeOK, ArgsFit, RevokedEnd
<1>5. OneRedeems'
  BY DEF TypeOK, ArgsFit, OneRedeems, Redeeming
<1>6. ActivatesVerified'
  BY DEF TypeOK, ActivatesVerified
<1> QED
  BY <1>1, <1>2, <1>3, <1>4, <1>5, <1>6

LEMMA StepAccounts == AccountsInv /\ [Next]_vars => AccountsInv'
<1> SUFFICES ASSUME AccountsInv, [Next]_vars PROVE AccountsInv'
  OBVIOUS
<1>1. CASE UNCHANGED vars
  BY <1>1 DEF vars, history, AccountsInv, TypeOK, ArgsFit, DoomedEnd, RevokedEnd, OneRedeems, Redeeming,
              ActivatesVerified
<1>2. ASSUME NEW r \in Reqs, Step(r) PROVE AccountsInv'
  BY <1>2, FailReadKeeps, FailWriteKeeps, RehashKeeps, RecordLoginSuccessKeeps, ChangeWriteKeeps,
     DropResetsKeeps, DropSessionsKeeps, ConsumeKeeps, ResetWriteKeeps, ResolveAccountKeeps,
     TouchSessionKeeps, DeleteSessionKeeps, CompleteEmailVerificationKeeps, ConsumeVerificationKeeps,
     MarkEmailVerifiedKeeps, ActivateKeeps, StartPasswordResetKeeps, AbortKeeps DEF Step
<1> QED
  BY <1>1, <1>2, LockoutEndsKeeps, PurgeExpiredSessionsKeeps, PurgeExpiredChallengesKeeps,
     StartEmailVerificationKeeps, SessionExpiresKeeps, ResetExpiresKeeps, LoginKeeps,
     ChangePasswordKeeps, OpenSessionKeeps, ResolveSessionKeeps, EndSessionKeeps,
     CreatePasswordResetKeeps, CompletePasswordResetKeeps DEF Next

LEMMA AccountsInvariant == Spec => []AccountsInv
<1> QED
  BY InitAccounts, StepAccounts, PTL DEF Spec

(* However requests on one account interleave and wherever they are cut    *)
(* short: when a password change or a reset has returned, the sessions it  *)
(* found are over, a change leaves no earlier reset token usable, and one  *)
(* token sets one password.                                                *)
THEOREM AccountsAreSafe == Spec => []AccountsSafe
<1>1. ASSUME AccountsInv PROVE AccountsSafe
  <2>1. ChangeEndsSessions
    BY <1>1 DEF AccountsInv, DoomedEnd, ChangeEndsSessions, Changing, Live
  <2>2. ChangeRevokesResets
    BY <1>1 DEF AccountsInv, RevokedEnd, ChangeRevokesResets, Changing
  <2>3. ResetSingleUse
    BY <1>1 DEF AccountsInv, OneRedeems, ResetSingleUse
  <2> QED
    BY <1>1, <2>1, <2>2, <2>3 DEF AccountsInv, AccountsSafe
<1>2. AccountsInv => AccountsSafe
  BY <1>1
<1> QED
  BY <1>2, AccountsInvariant, PTL

(* No request brings an ended session back, and no account becomes active  *)
(* before its address is verified.                                         *)
THEOREM EndedIsOver == Spec => EndedStaysEnded
<1> DEFINE Kept == /\ \A s \in Sids : sess[s] = "gone" => sess'[s] = "gone"
                   /\ user.status = "pending" /\ user'.status = "active" => user'.verified
<1>1. ASSUME AccountsInv, Next PROVE Kept
  <2>1. ASSUME NEW s \in Sids, sess[s] = "gone" PROVE sess'[s] = "gone"
    <3> USE <1>1, <2>1 DEF AccountsInv, TypeOK
    <3>1. CASE UNCHANGED sess
      BY <3>1
    <3>2. CASE PurgeExpiredSessions
      BY <3>2 DEF PurgeExpiredSessions
    <3>3. ASSUME NEW x \in Sids, SessionExpires(x) PROVE sess'[s] = "gone"
      BY <3>3 DEF SessionExpires
    <3>4. ASSUME NEW r \in Reqs, NEW x \in Sids, OpenSession(r, x) PROVE sess'[s] = "gone"
      BY <3>4 DEF OpenSession
    <3>5. ASSUME NEW r \in Reqs, DropSessions(r) \/ DeleteSession(r) PROVE sess'[s] = "gone"
      BY <3>5 DEF DropSessions, DeleteUserSessions, Live, DeleteSession
    <3> QED
      BY <3>1, <3>2, <3>3, <3>4, <3>5
         DEF Next, Step, LockoutEnds, PurgeExpiredChallenges, StartEmailVerification, ResetExpires,
             FailRead, FailWrite, Rehash, RecordLoginSuccess, ChangeWrite, DropResets, Consume, ResetWrite,
             ResolveAccount, TouchSession, CompleteEmailVerification, ConsumeVerification,
             MarkEmailVerified, Activate, StartPasswordReset, Abort, Login, ChangePassword,
             ResolveSession, EndSession, CreatePasswordReset, CompletePasswordReset, rows
  <2>2. ASSUME user.status = "pending", user'.status = "active" PROVE user'.verified
    <3> USE <1>1, <2>2 DEF AccountsInv, TypeOK
    <3>1. CASE UNCHANGED user
      BY <3>1
    <3>2. CASE LockoutEnds
      BY <3>2 DEF LockoutEnds
    <3>3. ASSUME NEW r \in Reqs, Rehash(r) \/ ChangeWrite(r) \/ ResetWrite(r) PROVE user'.verified
      BY <3>3 DEF Rehash, ChangeWrite, ResetWrite, UpdatePassword
    <3>4. ASSUME NEW r \in Reqs, FailWrite(r) \/ RecordLoginSuccess(r) \/ MarkEmailVerified(r)
          PROVE  user'.verified
      BY <3>4 DEF FailWrite, RecordLoginSuccess, MarkEmailVerified
    <3>5. ASSUME NEW r \in Reqs, Activate(r) PROVE user'.verified
      BY <3>5 DEF Activate, ActivatesVerified
    <3> QED
      BY <3>1, <3>2, <3>3, <3>4, <3>5
         DEF Next, Step, PurgeExpiredSessions, PurgeExpiredChallenges, StartEmailVerification,
             SessionExpires, ResetExpires, FailRead, DropResets, DropSessions, Consume, ResolveAccount,
             TouchSession, DeleteSession, CompleteEmailVerification, ConsumeVerification,
             StartPasswordReset, Abort, Login, ChangePassword, OpenSession, ResolveSession, EndSession,
             CreatePasswordReset, CompletePasswordReset, rows
  <2> QED
    BY <2>1, <2>2
<1>2. AccountsInv /\ [Next]_vars => [Kept]_vars
  BY <1>1
<1> QED
  BY <1>2, AccountsInvariant, PTL DEF Spec, EndedStaysEnded

-----------------------------------------------------------------------------
(* The second factor.                                                      *)
(*                                                                         *)
(* A recovery code can be accepted again only if a list that still holds   *)
(* it is written after it was spent, or is read before it is written off.  *)
(* Lists are written by an enrollment, whose codes carry a seed nobody has *)
(* used, and by the request that spent a code.  So of an uncontested code  *)
(* that was spent no request holds a list with it, and the stored list has *)
(* it only while its spender is about to write the list back.              *)

TwoFactorSpec == TwoFactorInit /\ [][TwoFactorNext]_twoFactorVars

TFLabels == {"idle", "open", "update", "insert", "confirm", "spend", "mark"}
TotpRow == [in : BOOLEAN, seed : 0..MaxSeeds, confirmed : BOOLEAN, codes : SUBSET AllCodes]
TFArgRow == [row : TotpRow, sid : TFSids \cup {NoSid}]

TFShape ==
    /\ totp \in TotpRow
    /\ ~totp.in => totp.codes = {}
    /\ tfSess \in [TFSids -> {"unused", "pending", "full"}]
    /\ seeds \in 0..MaxSeeds
    /\ tfPc \in [TFReqs -> TFLabels]
    /\ tfArg \in [TFReqs -> TFArgRow]
    /\ \A r \in TFReqs : tfPc[r] \in {"open", "spend", "mark"} => tfArg[r].sid \in TFSids
    /\ spending \in [TFReqs -> SUBSET AllCodes]
    /\ spent \in [AllCodes -> Nat]
    /\ contested \subseteq AllCodes

Pending(r) == tfPc[r] \in {"update", "insert"}
Spending(r) == tfPc[r] = "spend"
SeedOf(r) == tfArg[r].row.seed
CodesOf(r) == tfArg[r].row.codes

(* What has not been stored yet is unlike anything stored or spent.        *)
PendingFresh ==
    \A r \in TFReqs : Pending(r) =>
        /\ tfArg[r].row.in
        /\ SeedOf(r) \in 1..seeds
        /\ \A c \in CodesOf(r) : c[1] = SeedOf(r)
        /\ \A c \in totp.codes : c[1] # SeedOf(r)
        /\ \A c \in AllCodes : c[1] = SeedOf(r) => spent[c] = 0
        /\ \A q \in TFReqs : Spending(q) => \A c \in CodesOf(q) : c[1] # SeedOf(r)
        /\ \A q \in TFReqs : Pending(q) /\ SeedOf(q) = SeedOf(r) => q = r

FutureFresh ==
    \A c \in AllCodes : c[1] > seeds =>
        /\ spent[c] = 0
        /\ c \notin totp.codes
        /\ \A q \in TFReqs : Spending(q) => c \notin CodesOf(q)

Unspent(S) == \A c \in S : spent[c] = 0

SpentSettled ==
    \A c \in AllCodes : c \notin contested /\ spent[c] > 0 =>
        /\ spent[c] = 1
        /\ \A q \in TFReqs : Spending(q) => c \notin CodesOf(q)
        /\ c \in totp.codes => \E q \in TFReqs : Spending(q) /\ c \in spending[q]

TwoFactorInv == TFShape /\ PendingFresh /\ FutureFresh /\ SpentSettled

LEMMA NoTOTPFits == NoTOTP \in TotpRow /\ ~NoTOTP.in /\ NoTOTP.codes = {}
BY TwoFactorAssumption DEF NoTOTP, TotpRow

LEMMA InitTwoFactor == TwoFactorInit => TwoFactorInv
<1> SUFFICES ASSUME TwoFactorInit PROVE TwoFactorInv
  OBVIOUS
<1>1. TFShape
  <2>1. TFNothing \in TFArgRow
    BY NoTOTPFits DEF TFNothing, TFArgRow
  <2>2. 0 \in 0..MaxSeeds
    BY TwoFactorAssumption
  <2>3. \A r \in TFReqs : tfPc[r] \notin {"open", "spend", "mark"}
    BY DEF TwoFactorInit
  <2>4. tfPc \in [TFReqs -> TFLabels] /\ tfArg \in [TFReqs -> TFArgRow]
    BY <2>1 DEF TwoFactorInit, TFLabels
  <2> QED
    BY <2>2, <2>3, <2>4, NoTOTPFits DEF TwoFactorInit, TFShape
<1>2. PendingFresh /\ FutureFresh /\ SpentSettled
  BY NoTOTPFits DEF TwoFactorInit, PendingFresh, FutureFresh, SpentSettled, Pending, Spending, Unspent
<1> QED
  BY <1>1, <1>2 DEF TwoFactorInv

LEMMA TFMoves ==
    ASSUME TFShape, NEW r \in TFReqs, NEW label \in TFLabels, NEW row \in TotpRow,
           NEW sid \in TFSids \cup {NoSid}, TFGoto(r, label, row, sid)
    PROVE  /\ tfPc' \in [TFReqs -> TFLabels] /\ tfArg' \in [TFReqs -> TFArgRow]
           /\ tfPc'[r] = label /\ tfArg'[r].row = row /\ tfArg'[r].sid = sid
           /\ \A q \in TFReqs : q # r => tfPc'[q] = tfPc[q] /\ tfArg'[q] = tfArg[q]
<1>1. [row |-> row, sid |-> sid] \in TFArgRow
  BY DEF TFArgRow
<1>2. tfPc' \in [TFReqs -> TFLabels] /\ tfPc'[r] = label
  BY DEF TFShape, TFGoto
<1>3. tfArg' \in [TFReqs -> TFArgRow] /\ tfArg'[r] = [row |-> row, sid |-> sid]
  BY <1>1 DEF TFShape, TFGoto
<1>4. \A q \in TFReqs : q # r => tfPc'[q] = tfPc[q] /\ tfArg'[q] = tfArg[q]
  BY DEF TFShape, TFGoto
<1> QED
  BY <1>2, <1>3, <1>4

(* A step that stores no list and spends nothing.                          *)
LEMMA NothingStored ==
    ASSUME TwoFactorInv, totp'.codes \subseteq totp.codes, UNCHANGED <<seeds, spent, contested>>,
           \A q \in TFReqs : Pending(q)' => Pending(q) /\ tfArg'[q].row = tfArg[q].row,
           \A q \in TFReqs : Spending(q)' => Spending(q) /\ tfArg'[q].row = tfArg[q].row,
           \A q \in TFReqs : Spending(q) => (Spending(q)' /\ spending'[q] = spending[q]) \/ totp'.codes = {}
    PROVE  PendingFresh' /\ FutureFresh' /\ SpentSettled'
<1>1. PendingFresh'
  BY DEF TwoFactorInv, PendingFresh, SeedOf, CodesOf
<1>2. FutureFresh'
  BY DEF TwoFactorInv, FutureFresh, CodesOf
<1>3. SpentSettled'
  BY DEF TwoFactorInv, SpentSettled, CodesOf
<1> QED
  BY <1>1, <1>2, <1>3

LEMMA ReadTwoFactorEnabledKeeps ==
    ASSUME TwoFactorInv, NEW r \in TFReqs, NEW s \in TFSids,
           ReadTwoFactorEnabled(r, s) \/ VerifyTwoFactor(r, s)
    PROVE  TwoFactorInv'
<1>1. PICK label \in {"open", "mark"} : TFGoto(r, label, totp, s)
  BY DEF ReadTwoFactorEnabled, VerifyTwoFactor, TFBegin
<1>2. tfPc[r] = "idle" /\ UNCHANGED <<totp, tfSess, seeds, spending, spent, contested>>
  BY DEF ReadTwoFactorEnabled, VerifyTwoFactor, TFBegin
<1>3. TFShape /\ totp \in TotpRow /\ label \in TFLabels
  BY DEF TwoFactorInv, TFShape, TFLabels
<1>4. /\ tfPc' \in [TFReqs -> TFLabels] /\ tfArg' \in [TFReqs -> TFArgRow]
      /\ tfPc'[r] = label /\ tfArg'[r].sid = s
      /\ \A q \in TFReqs : q # r => tfPc'[q] = tfPc[q] /\ tfArg'[q] = tfArg[q]
  BY <1>1, <1>3, TFMoves
<1>5. TFShape'
  BY <1>2, <1>3, <1>4 DEF TFShape
<1>6. PendingFresh' /\ FutureFresh' /\ SpentSettled'
  BY <1>2, <1>4, NothingStored DEF Pending, Spending
<1> QED
  BY <1>5, <1>6 DEF TwoFactorInv

LEMMA ConfirmTwoFactorKeeps ==
    ASSUME TwoFactorInv, NEW r \in TFReqs, ConfirmTwoFactor(r)
    PROVE  TwoFactorInv'
<1>1. TFGoto(r, "confirm", totp, NoSid) /\ tfPc[r] = "idle" /\ UNCHANGED <<totp, tfSess, seeds, spending, spent, contested>>
  BY DEF ConfirmTwoFactor, TFBegin
<1>2. TFShape /\ totp \in TotpRow /\ "confirm" \in TFLabels
  BY DEF TwoFactorInv, TFShape, TFLabels
<1>3. /\ tfPc' \in [TFReqs -> TFLabels] /\ tfArg' \in [TFReqs -> TFArgRow] /\ tfPc'[r] = "confirm"
      /\ \A q \in TFReqs : q # r => tfPc'[q] = tfPc[q] /\ tfArg'[q] = tfArg[q]
  BY <1>1, <1>2, TFMoves
<1>4. TFShape'
  BY <1>1, <1>2, <1>3 DEF TFShape
<1>5. PendingFresh' /\ FutureFresh' /\ SpentSettled'
  BY <1>1, <1>3, NothingStored DEF Pending, Spending
<1> QED
  BY <1>4, <1>5 DEF TwoFactorInv

(* The steps that end a call: what the request was about to store or spend *)
(* is forgotten.                                                           *)
LEMMA TFReturns ==
    ASSUME TFShape, NEW r \in TFReqs, TFReturn(r)
    PROVE  /\ tfPc' \in [TFReqs -> TFLabels] /\ tfArg' \in [TFReqs -> TFArgRow]
           /\ tfPc'[r] = "idle"
           /\ \A q \in TFReqs : q # r => tfPc'[q] = tfPc[q] /\ tfArg'[q] = tfArg[q]
<1>1. TFGoto(r, "idle", NoTOTP, NoSid) /\ NoTOTP \in TotpRow /\ "idle" \in TFLabels
  BY NoTOTPFits DEF TFReturn, TFLabels
<1> QED
  BY <1>1, TFMoves

LEMMA SessionStepKeeps ==
    ASSUME TwoFactorInv, NEW r \in TFReqs, OpenGatedSession(r) \/ MarkSessionTwoFactor(r)
    PROVE  TwoFactorInv'
<1>1. TFReturn(r) /\ tfPc[r] \in {"open", "mark"} /\ UNCHANGED <<totp, seeds, spending, spent, contested>>
  BY DEF OpenGatedSession, MarkSessionTwoFactor
<1>2. TFShape
  BY DEF TwoFactorInv
<1>3. /\ tfPc' \in [TFReqs -> TFLabels] /\ tfArg' \in [TFReqs -> TFArgRow] /\ tfPc'[r] = "idle"
      /\ \A q \in TFReqs : q # r => tfPc'[q] = tfPc[q] /\ tfArg'[q] = tfArg[q]
  BY <1>1, <1>2, TFReturns
<1>4. tfSess' \in [TFSids -> {"unused", "pending", "full"}]
  BY <1>2 DEF OpenGatedSession, MarkSessionTwoFactor, TFShape
<1>5. TFShape'
  BY <1>1, <1>2, <1>3, <1>4 DEF TFShape
<1>6. PendingFresh' /\ FutureFresh' /\ SpentSettled'
  BY <1>1, <1>3, NothingStored DEF Pending, Spending
<1> QED
  BY <1>5, <1>6 DEF TwoFactorInv

LEMMA ConfirmTOTPKeeps ==
    ASSUME TwoFactorInv, NEW r \in TFReqs, ConfirmTOTP(r)
    PROVE  TwoFactorInv'
<1>1. TFReturn(r) /\ tfPc[r] = "confirm" /\ UNCHANGED <<tfSess, seeds, spending, spent, contested>>
  BY DEF ConfirmTOTP
<1>2. TFShape
  BY DEF TwoFactorInv
<1>3. /\ tfPc' \in [TFReqs -> TFLabels] /\ tfArg' \in [TFReqs -> TFArgRow] /\ tfPc'[r] = "idle"
      /\ \A q \in TFReqs : q # r => tfPc'[q] = tfPc[q] /\ tfArg'[q] = tfArg[q]
  BY <1>1, <1>2, TFReturns
<1>4. totp' \in TotpRow /\ totp'.codes = totp.codes /\ totp'.in = totp.in
  BY <1>2 DEF ConfirmTOTP, TFShape, TotpRow
<1>5. TFShape'
  BY <1>1, <1>2, <1>3, <1>4 DEF TFShape
<1>6. PendingFresh' /\ FutureFresh' /\ SpentSettled'
  BY <1>1, <1>3, <1>4, NothingStored DEF Pending, Spending
<1> QED
  BY <1>5, <1>6 DEF TwoFactorInv

LEMMA DisableTwoFactorKeeps ==
    ASSUME TwoFactorInv, DisableTwoFactor
    PROVE  TwoFactorInv'
<1>1. TFShape'
  BY NoTOTPFits DEF TwoFactorInv, DisableTwoFactor, TFShape
<1>2. PendingFresh' /\ FutureFresh' /\ SpentSettled'
  BY NoTOTPFits, NothingStored DEF DisableTwoFactor, Pending, Spending
<1> QED
  BY <1>1, <1>2 DEF TwoFactorInv

LEMMA StartTwoFactorKeeps ==
    ASSUME TwoFactorInv, NEW r \in TFReqs, StartTwoFactor(r)
    PROVE  TwoFactorInv'
<1> DEFINE n == seeds + 1
           row == [in |-> TRUE, seed |-> n, confirmed |-> FALSE, codes |-> {n} \X RecoveryCodes]
<1>1. TFGoto(r, "update", row, NoSid) /\ tfPc[r] = "idle" /\ seeds' = n
  BY DEF StartTwoFactor, TFBegin
<1>2. UNCHANGED <<totp, tfSess, spending, spent, contested>>
  BY DEF StartTwoFactor
<1>3. TFShape /\ "update" \in TFLabels
  BY DEF TwoFactorInv, TFLabels
<1>4. n \in 1..MaxSeeds /\ seeds \in Nat
  BY <1>3, TwoFactorAssumption DEF StartTwoFactor, TFShape
<1>5. {n} \X RecoveryCodes \subseteq AllCodes
  BY <1>4 DEF AllCodes
<1>6. row \in TotpRow
  BY <1>4, <1>5 DEF TotpRow
<1>7. /\ tfPc' \in [TFReqs -> TFLabels] /\ tfArg' \in [TFReqs -> TFArgRow] /\ tfPc'[r] = "update"
      /\ tfArg'[r].row = row
      /\ \A q \in TFReqs : q # r => tfPc'[q] = tfPc[q] /\ tfArg'[q] = tfArg[q]
  BY <1>1, <1>3, <1>6, TFMoves
<1>8. TFShape'
  BY <1>1, <1>2, <1>3, <1>4, <1>7 DEF TFShape
<1>9. /\ \A q \in TFReqs : Pending(q)' <=> Pending(q) \/ q = r
      /\ \A q \in TFReqs : Spending(q)' <=> Spending(q)
      /\ ~Pending(r) /\ ~Spending(r)
      /\ \A q \in TFReqs : q # r => SeedOf(q)' = SeedOf(q) /\ CodesOf(q)' = CodesOf(q)
      /\ SeedOf(r)' = n /\ CodesOf(r)' = {n} \X RecoveryCodes /\ tfArg'[r].row.in
  BY <1>1, <1>7 DEF Pending, Spending, SeedOf, CodesOf
<1>10. /\ totp.codes \subseteq AllCodes
       /\ \A q \in TFReqs : CodesOf(q) \subseteq AllCodes
       /\ \A c \in AllCodes : c[1] \in 1..MaxSeeds
  BY <1>3 DEF TFShape, TotpRow, TFArgRow, CodesOf, AllCodes
<1> HIDE DEF n, row
<1>11. PendingFresh'
  <2> SUFFICES ASSUME NEW q \in TFReqs, Pending(q)'
               PROVE  /\ tfArg'[q].row.in
                      /\ SeedOf(q)' \in 1..seeds'
                      /\ \A c \in CodesOf(q)' : c[1] = SeedOf(q)'
                      /\ \A c \in totp.codes : c[1] # SeedOf(q)'
                      /\ \A c \in AllCodes : c[1] = SeedOf(q)' => spent[c] = 0
                      /\ \A x \in TFReqs : Spending(x)' => \A c \in CodesOf(x)' : c[1] # SeedOf(q)'
                      /\ \A x \in TFReqs : Pending(x)' /\ SeedOf(x)' = SeedOf(q)' => x = q
    BY <1>2 DEF PendingFresh
  <2>1. CASE q = r
    <3>1. n > seeds /\ \A x \in TFReqs : Pending(x) => SeedOf(x) # n
      BY <1>4 DEF n, TwoFactorInv, PendingFresh
    <3>2. \A c \in CodesOf(q)' : c[1] = n
      BY <1>9, <2>1
    <3>3. \A c \in AllCodes : c[1] = n => spent[c] = 0 /\ c \notin totp.codes
                                /\ \A x \in TFReqs : Spending(x) => c \notin CodesOf(x)
      BY <3>1 DEF TwoFactorInv, FutureFresh
    <3>4. n \in 1..seeds'
      BY <1>1, <1>4
    <3> QED
      BY <1>9, <1>10, <2>1, <3>1, <3>2, <3>3, <3>4
  <2>2. CASE q # r
    <3>1. SeedOf(q) \in 1..seeds /\ SeedOf(q) # n /\ SeedOf(q) \in 1..n
      BY <1>4, <1>9, <2>2 DEF n, TwoFactorInv, PendingFresh
    <3> QED
      BY <1>1, <1>7, <1>9, <2>2, <3>1 DEF TwoFactorInv, PendingFresh
  <2> QED
    BY <2>1, <2>2
<1>12. FutureFresh'
  <2> SUFFICES ASSUME NEW c \in AllCodes, c[1] > n
               PROVE  spent[c] = 0 /\ c \notin totp.codes
                      /\ \A q \in TFReqs : Spending(q)' => c \notin CodesOf(q)'
    BY <1>1, <1>2 DEF FutureFresh
  <2>1. c[1] > seeds
    BY <1>4, <1>10 DEF n
  <2> QED
    BY <1>9, <2>1 DEF TwoFactorInv, FutureFresh
<1>13. SpentSettled'
  BY <1>2, <1>9 DEF TwoFactorInv, SpentSettled, Unspent
<1> QED
  BY <1>8, <1>11, <1>12, <1>13 DEF TwoFactorInv

(* The list of an enrollment replaces whatever is stored.                  *)
LEMMA StoringKeeps ==
    ASSUME TwoFactorInv, NEW r \in TFReqs, Pending(r), TFReturn(r), totp' = tfArg[r].row,
           UNCHANGED <<tfSess, seeds, spending, spent, contested>>
    PROVE  TwoFactorInv'
<1>1. TFShape
  BY DEF TwoFactorInv
<1>2. /\ tfPc' \in [TFReqs -> TFLabels] /\ tfArg' \in [TFReqs -> TFArgRow] /\ tfPc'[r] = "idle"
      /\ \A q \in TFReqs : q # r => tfPc'[q] = tfPc[q] /\ tfArg'[q] = tfArg[q]
  BY <1>1, TFReturns
<1>3. totp' \in TotpRow /\ totp'.in /\ totp'.codes = CodesOf(r) /\ CodesOf(r) \subseteq AllCodes
  BY <1>1 DEF TwoFactorInv, PendingFresh, TFShape, TFArgRow, TotpRow, CodesOf
<1>4. TFShape'
  BY <1>1, <1>2, <1>3 DEF TFShape
<1>5. /\ \A q \in TFReqs : Pending(q)' <=> Pending(q) /\ q # r
      /\ \A q \in TFReqs : Spending(q)' <=> Spending(q)
      /\ \A q \in TFReqs : q # r => SeedOf(q)' = SeedOf(q) /\ CodesOf(q)' = CodesOf(q)
      /\ ~Spending(r)
  BY <1>2 DEF Pending, Spending, SeedOf, CodesOf
<1>6. Unspent(CodesOf(r)) /\ \A c \in CodesOf(r) : c[1] = SeedOf(r)
  BY <1>3 DEF TwoFactorInv, PendingFresh, Unspent
<1>7. SeedOf(r) \in 1..seeds /\ seeds \in Nat
  BY <1>1, TwoFactorAssumption DEF TwoFactorInv, PendingFresh, TFShape
<1>8. PendingFresh'
  <2> SUFFICES ASSUME NEW q \in TFReqs, Pending(q)'
               PROVE  /\ tfArg'[q].row.in
                      /\ SeedOf(q)' \in 1..seeds
                      /\ \A c \in CodesOf(q)' : c[1] = SeedOf(q)'
                      /\ \A c \in totp'.codes : c[1] # SeedOf(q)'
                      /\ \A c \in AllCodes : c[1] = SeedOf(q)' => spent[c] = 0
                      /\ \A x \in TFReqs : Spending(x)' => \A c \in CodesOf(x)' : c[1] # SeedOf(q)'
                      /\ \A x \in TFReqs : Pending(x)' /\ SeedOf(x)' = SeedOf(q)' => x = q
    BY DEF PendingFresh
  <2>1. q # r /\ Pending(q) /\ SeedOf(q) # SeedOf(r)
    BY <1>5 DEF TwoFactorInv, PendingFresh
  <2> QED
    BY <1>2, <1>3, <1>5, <1>6, <2>1 DEF TwoFactorInv, PendingFresh
<1>9. FutureFresh'
  <2> SUFFICES ASSUME NEW c \in AllCodes, c[1] > seeds
               PROVE  spent[c] = 0 /\ c \notin totp'.codes
                      /\ \A q \in TFReqs : Spending(q)' => c \notin CodesOf(q)'
    BY DEF FutureFresh
  <2>1. c \notin totp'.codes
    BY <1>3, <1>6, <1>7
  <2> QED
    BY <1>5, <2>1 DEF TwoFactorInv, FutureFresh
<1>10. SpentSettled'
  BY <1>3, <1>5, <1>6 DEF TwoFactorInv, SpentSettled, Unspent
<1> QED
  BY <1>4, <1>8, <1>9, <1>10 DEF TwoFactorInv

LEMMA SaveTOTPKeeps ==
    ASSUME TwoFactorInv, NEW r \in TFReqs, SaveTOTPUpdate(r) \/ SaveTOTPInsert(r)
    PROVE  TwoFactorInv'
<1>1. TFShape /\ Pending(r) /\ UNCHANGED <<tfSess, seeds, spending, spent, contested>>
  BY DEF TwoFactorInv, SaveTOTPUpdate, SaveTOTPInsert, Pending
<1>2. CASE TFReturn(r) /\ totp' = tfArg[r].row
  BY <1>1, <1>2, StoringKeeps
<1>3. CASE TFReturn(r) /\ totp' = totp
  <2>1. /\ tfPc' \in [TFReqs -> TFLabels] /\ tfArg' \in [TFReqs -> TFArgRow] /\ tfPc'[r] = "idle"
        /\ \A q \in TFReqs : q # r => tfPc'[q] = tfPc[q] /\ tfArg'[q] = tfArg[q]
    BY <1>1, <1>3, TFReturns
  <2>2. TFShape'
    BY <1>1, <1>3, <2>1 DEF TFShape
  <2>3. PendingFresh' /\ FutureFresh' /\ SpentSettled'
    BY <1>1, <1>3, <2>1, NothingStored DEF Pending, Spending
  <2> QED
    BY <2>2, <2>3 DEF TwoFactorInv
<1>4. CASE TFGoto(r, "insert", tfArg[r].row, NoSid) /\ totp' = totp
  <2>1. tfArg[r].row \in TotpRow /\ "insert" \in TFLabels
    BY <1>1 DEF TFShape, TFArgRow, TFLabels
  <2>2. /\ tfPc' \in [TFReqs -> TFLabels] /\ tfArg' \in [TFReqs -> TFArgRow] /\ tfPc'[r] = "insert"
        /\ tfArg'[r].row = tfArg[r].row
        /\ \A q \in TFReqs : q # r => tfPc'[q] = tfPc[q] /\ tfArg'[q] = tfArg[q]
    BY <1>1, <1>4, <2>1, TFMoves
  <2>3. TFShape'
    BY <1>1, <1>4, <2>2 DEF TFShape
  <2>4. PendingFresh' /\ FutureFresh' /\ SpentSettled'
    BY <1>1, <1>4, <2>2, NothingStored DEF Pending, Spending
  <2> QED
    BY <2>3, <2>4 DEF TwoFactorInv
<1> QED
  BY <1>2, <1>3, <1>4 DEF SaveTOTPUpdate, SaveTOTPInsert

LEMMA ConsumeRecoveryCodeKeeps ==
    ASSUME TwoFactorInv, NEW r \in TFReqs, NEW s \in TFSids, NEW c \in totp.codes,
           ConsumeRecoveryCode(r, s, c)
    PROVE  TwoFactorInv'
<1> DEFINE row == [totp EXCEPT !.codes = @ \ {c}]
<1>1. TFGoto(r, "spend", row, s) /\ tfPc[r] = "idle"
  BY DEF ConsumeRecoveryCode, TFBegin
<1>2. /\ UNCHANGED <<totp, tfSess, seeds>> /\ spent' = [spent EXCEPT ![c] = @ + 1]
      /\ spending' = [spending EXCEPT ![r] = {c}]
      /\ contested' = contested \cup Contends(c)
  BY DEF ConsumeRecoveryCode
<1>3. TFShape /\ "spend" \in TFLabels
  BY DEF TwoFactorInv, TFLabels
<1>4. row \in TotpRow /\ row.codes = totp.codes \ {c} /\ totp.codes \subseteq AllCodes /\ c \in AllCodes
  BY <1>3 DEF TFShape, TotpRow
<1> HIDE DEF row
<1>5. /\ tfPc' \in [TFReqs -> TFLabels] /\ tfArg' \in [TFReqs -> TFArgRow] /\ tfPc'[r] = "spend"
      /\ tfArg'[r].row = row /\ tfArg'[r].sid = s
      /\ \A q \in TFReqs : q # r => tfPc'[q] = tfPc[q] /\ tfArg'[q] = tfArg[q]
  BY <1>1, <1>3, <1>4, TFMoves
<1>6. spent' \in [AllCodes -> Nat] /\ spent'[c] = spent[c] + 1
      /\ \A d \in AllCodes : d # c => spent'[d] = spent[d]
  BY <1>2, <1>3, <1>4 DEF TFShape
<1>7. /\ spending' \in [TFReqs -> SUBSET AllCodes] /\ spending'[r] = {c}
      /\ \A q \in TFReqs : q # r => spending'[q] = spending[q]
  BY <1>2, <1>3, <1>4 DEF TFShape
<1>13. /\ contested' \subseteq AllCodes /\ contested \subseteq contested'
       /\ \A q \in TFReqs : Spending(q) /\ c \in CodesOf(q) => c \in contested'
       /\ \A q \in TFReqs, d \in totp.codes : Spending(q) /\ d \in spending[q] => d \in contested'
  <2>1. Contends(c) \subseteq AllCodes
    BY <1>4 DEF Contends
  <2>2. /\ \A q \in TFReqs : Spending(q) /\ c \in CodesOf(q) => c \in Contends(c)
        /\ \A q \in TFReqs, d \in totp.codes : Spending(q) /\ d \in spending[q] => d \in Contends(c)
    BY DEF Contends, Spending, CodesOf
  <2>3. contested \subseteq AllCodes
    BY <1>3 DEF TFShape
  <2> QED
    BY <1>2, <2>1, <2>2, <2>3
<1>8. TFShape'
  BY <1>2, <1>3, <1>5, <1>6, <1>7, <1>13 DEF TFShape
<1>9. /\ \A q \in TFReqs : Pending(q)' <=> Pending(q)
      /\ \A q \in TFReqs : Spending(q)' <=> Spending(q) \/ q = r
      /\ \A q \in TFReqs : q # r => SeedOf(q)' = SeedOf(q) /\ CodesOf(q)' = CodesOf(q)
      /\ ~Pending(r) /\ ~Spending(r)
      /\ CodesOf(r)' = totp.codes \ {c}
  BY <1>1, <1>4, <1>5 DEF Pending, Spending, SeedOf, CodesOf
<1>10. PendingFresh'
  <2> SUFFICES ASSUME NEW q \in TFReqs, Pending(q)'
               PROVE  /\ tfArg'[q].row.in
                      /\ SeedOf(q)' \in 1..seeds
                      /\ \A d \in CodesOf(q)' : d[1] = SeedOf(q)'
                      /\ \A d \in totp.codes : d[1] # SeedOf(q)'
                      /\ \A d \in AllCodes : d[1] = SeedOf(q)' => spent'[d] = 0
                      /\ \A x \in TFReqs : Spending(x)' => \A d \in CodesOf(x)' : d[1] # SeedOf(q)'
                      /\ \A x \in TFReqs : Pending(x)' /\ SeedOf(x)' = SeedOf(q)' => x = q
    BY <1>2 DEF PendingFresh
  <2>1. q # r /\ Pending(q) /\ c[1] # SeedOf(q)
    BY <1>9 DEF TwoFactorInv, PendingFresh
  <2> QED
    BY <1>5, <1>6, <1>9, <2>1 DEF TwoFactorInv, PendingFresh
<1>11. FutureFresh'
  <2>1. ~(c[1] > seeds)
    BY <1>4 DEF TwoFactorInv, FutureFresh
  <2> QED
    BY <1>2, <1>6, <1>9, <2>1 DEF TwoFactorInv, FutureFresh
<1>12. SpentSettled'
  <2> SUFFICES ASSUME NEW d \in AllCodes, d \notin contested', spent'[d] > 0
               PROVE  /\ spent'[d] = 1
                      /\ \A q \in TFReqs : Spending(q)' => d \notin CodesOf(q)'
                      /\ d \in totp.codes => \E q \in TFReqs : Spending(q)' /\ d \in spending'[q]
    BY <1>2 DEF SpentSettled
  <2>1. d \notin contested
    BY <1>13
  (* What was spent before and is not contested now is not stored any more. *)
  <2>2. ASSUME spent[d] > 0 PROVE d \notin totp.codes
    BY <1>13, <2>1, <2>2 DEF TwoFactorInv, SpentSettled
  <2>3. CASE d = c
    <3>1. spent[c] = 0
      BY <1>3, <1>4, <2>2, <2>3 DEF TFShape
    <3>2. spent'[d] = 1
      BY <1>6, <2>3, <3>1
    <3>3. \A q \in TFReqs : Spending(q)' => d \notin CodesOf(q)'
      BY <1>9, <1>13, <2>3
    <3>4. Spending(r)' /\ d \in spending'[r]
      BY <1>7, <1>9, <2>3
    <3> QED
      BY <3>2, <3>3, <3>4
  <2>4. CASE d # c
    <3>1. spent'[d] = spent[d] /\ d \notin totp.codes
      BY <1>6, <2>2, <2>4
    <3>2. spent[d] = 1 /\ \A q \in TFReqs : Spending(q) => d \notin CodesOf(q)
      BY <2>1, <3>1 DEF TwoFactorInv, SpentSettled
    <3>3. \A q \in TFReqs : Spending(q)' => d \notin CodesOf(q)'
      BY <1>9, <3>1, <3>2
    <3> QED
      BY <3>1, <3>2, <3>3
  <2> QED
    BY <2>3, <2>4
<1> QED
  BY <1>8, <1>10, <1>11, <1>12 DEF TwoFactorInv

LEMMA SetRecoveryCodesKeeps ==
    ASSUME TwoFactorInv, NEW r \in TFReqs, SetRecoveryCodes(r)
    PROVE  TwoFactorInv'
<1>1. /\ TFShape /\ Spending(r) /\ UNCHANGED <<tfSess, seeds, spent, contested>>
      /\ spending' = [spending EXCEPT ![r] = {}]
  BY DEF TwoFactorInv, SetRecoveryCodes, Spending
<1>4. /\ spending' \in [TFReqs -> SUBSET AllCodes]
      /\ \A q \in TFReqs : q # r => spending'[q] = spending[q]
  BY <1>1 DEF TFShape
<1>2. CASE ~totp.in
  <2>1. TFReturn(r) /\ totp' = totp /\ totp.codes = {}
    BY <1>1, <1>2 DEF SetRecoveryCodes, TFShape
  <2>2. /\ tfPc' \in [TFReqs -> TFLabels] /\ tfArg' \in [TFReqs -> TFArgRow] /\ tfPc'[r] = "idle"
        /\ \A q \in TFReqs : q # r => tfPc'[q] = tfPc[q] /\ tfArg'[q] = tfArg[q]
    BY <1>1, <2>1, TFReturns
  <2>3. TFShape'
    BY <1>1, <1>4, <2>1, <2>2 DEF TFShape
  <2>4. PendingFresh' /\ FutureFresh' /\ SpentSettled'
    BY <1>1, <1>4, <2>1, <2>2, NothingStored DEF Pending, Spending
  <2> QED
    BY <2>3, <2>4 DEF TwoFactorInv
<1>3. CASE totp.in
  <2>1. /\ totp' = [totp EXCEPT !.codes = CodesOf(r)]
        /\ TFGoto(r, "mark", tfArg[r].row, tfArg[r].sid)
    BY <1>3 DEF SetRecoveryCodes, CodesOf
  <2>2. /\ tfArg[r].row \in TotpRow /\ tfArg[r].sid \in TFSids /\ "mark" \in TFLabels
        /\ CodesOf(r) \subseteq AllCodes
    BY <1>1 DEF TFShape, TFArgRow, TotpRow, TFLabels, Spending, CodesOf
  <2>3. totp' \in TotpRow /\ totp'.codes = CodesOf(r) /\ totp'.in
    BY <1>1, <1>3, <2>1, <2>2 DEF TFShape, TotpRow
  <2>4. /\ tfPc' \in [TFReqs -> TFLabels] /\ tfArg' \in [TFReqs -> TFArgRow] /\ tfPc'[r] = "mark"
        /\ tfArg'[r].sid = tfArg[r].sid
        /\ \A q \in TFReqs : q # r => tfPc'[q] = tfPc[q] /\ tfArg'[q] = tfArg[q]
    BY <1>1, <2>1, <2>2, TFMoves
  <2>5. TFShape'
    BY <1>1, <1>4, <2>2, <2>3, <2>4 DEF TFShape
  <2>6. /\ \A q \in TFReqs : Pending(q)' <=> Pending(q)
        /\ \A q \in TFReqs : Spending(q)' <=> Spending(q) /\ q # r
        /\ \A q \in TFReqs : q # r => SeedOf(q)' = SeedOf(q) /\ CodesOf(q)' = CodesOf(q)
        /\ ~Pending(r)
    BY <1>1, <2>4 DEF Pending, Spending, SeedOf, CodesOf
  <2>7. PendingFresh'
    <3> SUFFICES ASSUME NEW q \in TFReqs, Pending(q)'
                 PROVE  /\ tfArg'[q].row.in
                        /\ SeedOf(q)' \in 1..seeds
                        /\ \A d \in CodesOf(q)' : d[1] = SeedOf(q)'
                        /\ \A d \in totp'.codes : d[1] # SeedOf(q)'
                        /\ \A d \in AllCodes : d[1] = SeedOf(q)' => spent[d] = 0
                        /\ \A x \in TFReqs : Spending(x)' => \A d \in CodesOf(x)' : d[1] # SeedOf(q)'
                        /\ \A x \in TFReqs : Pending(x)' /\ SeedOf(x)' = SeedOf(q)' => x = q
      BY <1>1 DEF PendingFresh
    <3>1. q # r /\ Pending(q)
      BY <2>6
    <3> QED
      BY <1>1, <2>3, <2>4, <2>6, <3>1 DEF TwoFactorInv, PendingFresh
  <2>8. FutureFresh'
    BY <1>1, <2>3, <2>6 DEF TwoFactorInv, FutureFresh
  <2>9. SpentSettled'
    BY <1>1, <2>3, <2>6 DEF TwoFactorInv, SpentSettled
  <2> QED
    BY <2>5, <2>7, <2>8, <2>9 DEF TwoFactorInv
<1> QED
  BY <1>2, <1>3

LEMMA StepTwoFactor == TwoFactorInv /\ [TwoFactorNext]_twoFactorVars => TwoFactorInv'
<1> SUFFICES ASSUME TwoFactorInv, [TwoFactorNext]_twoFactorVars PROVE TwoFactorInv'
  OBVIOUS
<1>1. CASE UNCHANGED twoFactorVars
  BY <1>1 DEF twoFactorVars, TwoFactorInv, TFShape, PendingFresh, FutureFresh, SpentSettled, Pending,
              Spending, SeedOf, CodesOf, Unspent
<1> QED
  BY <1>1, ReadTwoFactorEnabledKeeps, ConsumeRecoveryCodeKeeps, SessionStepKeeps, StartTwoFactorKeeps,
     SaveTOTPKeeps, ConfirmTwoFactorKeeps, ConfirmTOTPKeeps, SetRecoveryCodesKeeps,
     DisableTwoFactorKeeps DEF TwoFactorNext

(* A recovery code is accepted a second time only if another request held  *)
(* a list with it when it was spent: for any number of requests, sessions  *)
(* and codes, no enrollment, confirmation, disabling or acceptance of      *)
(* other codes makes a spent code good again (consumeRecoveryCode,         *)
(* SetRecoveryCodes, SaveTOTP).                                            *)
THEOREM TwoFactorIsSound == TwoFactorSpec => []TwoFactorSound
<1>1. TwoFactorInv => TwoFactorSound
  <2> SUFFICES ASSUME TwoFactorInv PROVE TwoFactorSound
    OBVIOUS
  <2>1. TwoFactorTypeOK
    BY DEF TwoFactorInv, TFShape, TwoFactorTypeOK, TotpRow, TFLabels
  <2>2. RecoverySingleUse
    <3> SUFFICES ASSUME NEW c \in AllCodes, spent[c] > 1, c \notin contested PROVE FALSE
      BY DEF RecoverySingleUse
    <3>1. spent[c] \in Nat
      BY DEF TwoFactorInv, TFShape
    <3> QED
      BY <3>1 DEF TwoFactorInv, SpentSettled
  <2> QED
    BY <2>1, <2>2 DEF TwoFactorSound
<1>2. TwoFactorSpec => []TwoFactorInv
  BY InitTwoFactor, StepTwoFactor, PTL DEF TwoFactorSpec
<1> QED
  BY <1>1, <1>2, PTL

-----------------------------------------------------------------------------
(* The administrator's setup.                                              *)
(*                                                                         *)
(* The stored hash is written once: EnsureSecret leaves one that is there  *)
(* alone, and whoever announces comes after an EnsureSecret.               *)

AdminSpec == AdminInit /\ [][AdminNext]_adminVars

AdmLabels == {"idle", "ensure", "announce", "verifytoken", "create", "opensession", "print"}

AdminInv ==
    /\ admPc \in [Actors -> AdmLabels]
    /\ admArg \in [Actors -> Nat]
    /\ generated \in Nat /\ setupHash \in Nat
    /\ banner \subseteq Nat /\ reissued \subseteq Nat
    /\ banner \subseteq {setupHash}
    /\ banner # {} => setupHash # 0
    /\ \A x \in Actors : admPc[x] = "ensure" => admArg[x] # 0
    /\ \A x \in Actors : admPc[x] = "announce" => setupHash # 0

LEMMA InitAdmin == AdminInit => AdminInv
BY DEF AdminInit, AdminInv, AdmLabels

LEMMA StepAdmin == AdminInv /\ [AdminNext]_adminVars => AdminInv'
<1> SUFFICES ASSUME AdminInv, [AdminNext]_adminVars PROVE AdminInv'
  OBVIOUS
<1> USE DEF AdminInv, AdmLabels, AdmTo
<1>1. ASSUME NEW n \in AdminNodes, FirstRun(n) PROVE AdminInv'
  BY <1>1 DEF FirstRun, AdmStay, Actors
<1>2. ASSUME NEW n \in AdminNodes, EnsureSetupToken(n) PROVE AdminInv'
  BY <1>2 DEF EnsureSetupToken, Actors
<1>3. ASSUME NEW n \in AdminNodes, AnnounceToken(n) PROVE AdminInv'
  BY <1>3 DEF AnnounceToken, Actors
<1>4. ASSUME NEW r \in AdminReqs, NEW t \in banner \cup reissued, CompleteSetup(r, t) PROVE AdminInv'
  BY <1>4 DEF CompleteSetup, Actors
<1>5. ASSUME NEW r \in AdminReqs, VerifySetupToken(r) PROVE AdminInv'
  BY <1>5 DEF VerifySetupToken, Actors
<1>6. ASSUME NEW r \in AdminReqs, CreateAdmin(r) PROVE AdminInv'
  BY <1>6 DEF CreateAdmin, Actors
<1>12. ASSUME NEW r \in AdminReqs, OpenAdminSession(r) PROVE AdminInv'
  BY <1>12 DEF OpenAdminSession, Actors
<1>7. ASSUME NEW r \in AdminReqs, NEW a \in AdminIds, AdminLogin(r, a) PROVE AdminInv'
  BY <1>7 DEF AdminLogin, Actors, AdminIds
<1>8. ASSUME NEW r \in AdminReqs, RunSetup(r) PROVE AdminInv'
  BY <1>8 DEF RunSetup, Actors
<1>9. ASSUME NEW r \in AdminReqs, PrintToken(r) PROVE AdminInv'
  BY <1>9 DEF PrintToken, Actors
<1>10. ASSUME NEW a \in AdminIds, AdminLogout(a) PROVE AdminInv'
  BY <1>10 DEF AdminLogout
<1>11. CASE UNCHANGED adminVars
  BY <1>11 DEF adminVars
<1> QED
  BY <1>1, <1>2, <1>3, <1>4, <1>5, <1>6, <1>7, <1>8, <1>9, <1>10, <1>11, <1>12 DEF AdminNext

(* Nodes that start at the same time on one database, and starts after one *)
(* that failed, show only the setup token whose hash is stored.            *)
THEOREM BannerIsAccepted == AdminSpec => []BannerTokenAccepted
<1>1. AdminInv => BannerTokenAccepted
  BY DEF AdminInv, BannerTokenAccepted
<1> QED
  BY <1>1, InitAdmin, StepAdmin, PTL DEF AdminSpec

-----------------------------------------------------------------------------
(* Registration.                                                           *)
(*                                                                         *)
(* A use is counted before the account it lets in exists, so the uses      *)
(* cover the accounts created and the requests that hold a counted use.    *)

SignupSpec == SignupInit /\ [][SignupNext]_signupVars

SULabels == {"idle", "redeem", "create", "home", "join"}
SignupArg == [name : Usernames \cup {"none"}, how : Arrivals \cup {"none"}]
Holders == {r \in SignupReqs : suPc[r] = "create" /\ suArg[r].how = "invite"}

SignupShape ==
    /\ mode \in RegistrationModes
    /\ accounts \subseteq Usernames /\ invited \subseteq accounts /\ joined \subseteq invited
    /\ slug \in [Usernames -> {"free", "shared", "personal"}]
    /\ useCount \in 0..MaxUses
    /\ suPc \in [SignupReqs -> SULabels]
    /\ suArg \in [SignupReqs -> SignupArg]

SignupProgress ==
    /\ \A r \in SignupReqs :
          /\ suPc[r] # "idle" => suArg[r].name \in Usernames
          /\ suPc[r] = "redeem" => suArg[r].how = "invite"
          /\ suPc[r] = "home" /\ suArg[r].how = "invite" => suArg[r].name \in invited
          /\ suPc[r] = "join" => suArg[r].name \in invited /\ slug[suArg[r].name] = "personal"
    /\ \A n \in joined : slug[n] = "personal"

UsesCover ==
    /\ IsFiniteSet(invited) /\ IsFiniteSet(Holders)
    /\ Cardinality(invited) + Cardinality(Holders) <= useCount

SignupInv == SignupShape /\ SignupProgress /\ UsesCover

LEMMA InitSignup == SignupInit => SignupInv
<1> SUFFICES ASSUME SignupInit PROVE SignupInv
  OBVIOUS
<1>1. SignupShape
  BY SignupAssumption DEF SignupInit, SignupShape, SULabels, SignupArg, NoSignup, RegistrationModes, Arrivals
<1>2. SignupProgress
  BY DEF SignupInit, SignupProgress
<1>3. UsesCover
  <2>1. Holders = {} /\ invited = {} /\ useCount = 0
    BY DEF SignupInit, Holders
  <2> QED
    BY <2>1, FS_EmptySet DEF UsesCover
<1> QED
  BY <1>1, <1>2, <1>3 DEF SignupInv

(* Nobody new holds a use, and nobody new has been let in.                 *)
LEMMA FewerHolders ==
    ASSUME UsesCover, useCount \in Nat, Holders' \subseteq Holders, UNCHANGED <<invited, useCount>>
    PROVE  UsesCover'
<1>1. IsFiniteSet(Holders') /\ Cardinality(Holders') <= Cardinality(Holders)
  BY FS_Subset DEF UsesCover
<1>2. Cardinality(invited) \in Nat /\ Cardinality(Holders) \in Nat /\ Cardinality(Holders') \in Nat
  BY <1>1, FS_CardinalityType DEF UsesCover
<1> QED
  BY <1>1, <1>2 DEF UsesCover

LEMMA RegisterKeeps ==
    ASSUME SignupInv, NEW r \in SignupReqs, NEW n \in Usernames, NEW how \in Arrivals, Register(r, n, how)
    PROVE  SignupInv'
<1> USE DEF Register, SignupInv
<1>1. SignupShape'
  BY DEF SignupShape, SULabels, SignupArg
<1>2. SignupProgress'
  BY DEF SignupShape, SignupProgress
<1>3. Holders' \subseteq Holders
  BY DEF SignupShape, Holders
<1> QED
  BY <1>1, <1>2, <1>3, FewerHolders DEF SignupShape

LEMMA RedeemInviteKeeps ==
    ASSUME SignupInv, NEW r \in SignupReqs, RedeemInvite(r)
    PROVE  SignupInv'
<1> USE DEF RedeemInvite, SignupInv, SUGoto, SUReturn
<1>1. SignupShape'
  BY SignupAssumption DEF SignupShape, SULabels, SignupArg, NoSignup
<1>2. SignupProgress'
  BY DEF SignupShape, SignupProgress
<1>3. UsesCover'
  <2>1. CASE useCount < MaxUses /\ useCount' = useCount + 1 /\ SUGoto(r, "create")
    <3>1. Holders' = Holders \cup {r} /\ r \notin Holders
      BY <2>1 DEF SignupShape, SignupProgress, Holders
    <3>2. /\ IsFiniteSet(Holders') /\ Cardinality(Holders') = Cardinality(Holders) + 1
          /\ Cardinality(invited) \in Nat /\ Cardinality(Holders) \in Nat
      BY <3>1, FS_AddElement, FS_CardinalityType DEF UsesCover
    <3> QED
      BY <2>1, <3>2 DEF UsesCover, SignupShape
  <2>2. CASE useCount >= MaxUses /\ SUReturn(r) /\ UNCHANGED useCount
    <3>1. Holders' \subseteq Holders
      BY <2>2 DEF SignupShape, Holders
    <3> QED
      BY <2>2, <3>1, FewerHolders DEF SignupShape
  <2> QED
    BY <2>1, <2>2
<1> QED
  BY <1>1, <1>2, <1>3

LEMMA CreateUserKeeps ==
    ASSUME SignupInv, NEW r \in SignupReqs, CreateUser(r)
    PROVE  SignupInv'
<1> USE DEF CreateUser, SignupInv, SUGoto, SUReturn
<1>0. suArg[r].name \in Usernames
  BY DEF SignupProgress
<1>1. SignupShape'
  BY <1>0 DEF SignupShape, SULabels, SignupArg, NoSignup
<1>2. SignupProgress'
  BY DEF SignupShape, SignupProgress
<1>3. UsesCover'
  <2>1. CASE suArg[r].name \notin accounts /\ suArg[r].how = "invite"
    <3>1. Holders' = Holders \ {r} /\ r \in Holders
      BY <2>1 DEF SignupShape, Holders
    <3>2. invited' = invited \cup {suArg[r].name} /\ suArg[r].name \notin invited
      BY <2>1 DEF SignupShape
    <3>3. /\ IsFiniteSet(Holders') /\ Cardinality(Holders') = Cardinality(Holders) - 1
          /\ IsFiniteSet(invited') /\ Cardinality(invited') = Cardinality(invited) + 1
          /\ Cardinality(invited) \in Nat /\ Cardinality(Holders) \in Nat
      BY <3>1, <3>2, FS_AddElement, FS_RemoveElement, FS_CardinalityType DEF UsesCover
    <3> QED
      BY <3>3 DEF UsesCover, SignupShape
  <2>2. CASE ~(suArg[r].name \notin accounts /\ suArg[r].how = "invite")
    <3>1. Holders' \subseteq Holders /\ invited' = invited
      BY <2>2 DEF SignupShape, Holders
    <3> QED
      BY <3>1, FewerHolders DEF SignupShape
  <2> QED
    BY <2>1, <2>2
<1> QED
  BY <1>1, <1>2, <1>3

LEMMA PersonalOrgKeeps ==
    ASSUME SignupInv, NEW r \in SignupReqs, CreatePersonalOrg(r) \/ JoinInvitedOrg(r) \/ Break(r)
    PROVE  SignupInv'
<1> USE DEF CreatePersonalOrg, JoinInvitedOrg, Break, SignupInv, SUGoto, SUReturn
<1>0. suArg[r].name \in Usernames
  BY DEF SignupProgress
<1>1. SignupShape'
  BY <1>0 DEF SignupShape, SignupProgress, SULabels, SignupArg, NoSignup
<1>2. SignupProgress'
  BY <1>0 DEF SignupShape, SignupProgress
<1>3. Holders' \subseteq Holders
  BY DEF SignupShape, Holders
<1> QED
  BY <1>1, <1>2, <1>3, FewerHolders DEF SignupShape

LEMMA CreateSharedOrgKeeps ==
    ASSUME SignupInv, NEW n \in Usernames, CreateSharedOrg(n)
    PROVE  SignupInv'
<1> USE DEF CreateSharedOrg, SignupInv
<1>1. SignupShape'
  BY DEF SignupShape
<1>2. SignupProgress'
  BY DEF SignupShape, SignupProgress
<1>3. Holders' \subseteq Holders
  BY DEF Holders
<1> QED
  BY <1>1, <1>2, <1>3, FewerHolders DEF SignupShape

LEMMA StepSignup == SignupInv /\ [SignupNext]_signupVars => SignupInv'
<1> SUFFICES ASSUME SignupInv, [SignupNext]_signupVars PROVE SignupInv'
  OBVIOUS
<1>1. CASE UNCHANGED signupVars
  BY <1>1 DEF signupVars, SignupInv, SignupShape, SignupProgress, UsesCover, Holders
<1> QED
  BY <1>1, RegisterKeeps, RedeemInviteKeeps, CreateUserKeeps, PersonalOrgKeeps, CreateSharedOrgKeeps
     DEF SignupNext

(* However registrations race on an invitation and wherever they break     *)
(* off, it lets in no more accounts than the uses it has counted, and      *)
(* whoever joined the inviting organization has a personal one.            *)
THEOREM SignupIsSound == SignupSpec => []SignupSound
<1>1. ASSUME SignupInv PROVE SignupSound
  <2>1. Cardinality(invited) <= useCount
    <3>1. Cardinality(invited) \in Nat /\ Cardinality(Holders) \in Nat
      BY <1>1, FS_CardinalityType DEF SignupInv, UsesCover
    <3> QED
      BY <1>1, <3>1 DEF SignupInv, UsesCover, SignupShape
  <2> QED
    BY <1>1, <2>1 DEF SignupInv, SignupShape, SignupProgress, SignupSound, SignupTypeOK, InviteCoversSignups
<1>2. SignupInv => SignupSound
  BY <1>1
<1> QED
  BY <1>2, InitSignup, StepSignup, PTL DEF SignupSpec


-----------------------------------------------------------------------------
(* Requests.  The route tables agree with what is documented row by row,   *)
(* and the tables of the REST surface and of the pages name different      *)
(* routes; the rest is the way of one request through the chain.           *)
RequestsSpec == RequestsInit /\ [][RequestsNext]_requestVars

APINames ==
    {"api.2fa", "api.2fa.confirm", "api.2fa.disable", "api.2fa.start", "api.audit", "api.domains",
     "api.domains.add", "api.domains.challenge", "api.domains.remove", "api.domains.suspend",
     "api.domains.update", "api.domains.verify", "api.email.change", "api.email.verify",
     "api.invites", "api.invites.accept", "api.invites.create", "api.invites.revoke", "api.login",
     "api.logout", "api.me", "api.members", "api.members.remove", "api.members.role", "api.org",
     "api.org.delete", "api.org.settings", "api.org.settings.update", "api.org.tokens",
     "api.org.tokens.revoke", "api.org.transfer", "api.org.update", "api.orgs", "api.orgs.create",
     "api.password.change", "api.password.forgot", "api.password.reset", "api.preferences",
     "api.preferences.update", "api.profile", "api.profile.update", "api.register",
     "api.register.invite", "api.security", "api.sessions", "api.sessions.revoke", "api.tokens",
     "api.tokens.issue", "api.tokens.revoke", "api.zones.grant", "api.zones.revoke"}
PageNames ==
    {"web.2fa", "web.2fa.confirm", "web.2fa.disable", "web.2fa.start", "web.account",
     "web.account.save", "web.audit", "web.domain", "web.domain.save", "web.domains.add",
     "web.domains.remove", "web.domains.verify", "web.email.verify", "web.forms",
     "web.invites.accept", "web.invites.create", "web.invites.revoke", "web.login", "web.logout",
     "web.members.remove", "web.members.role", "web.org", "web.org.save", "web.orgs",
     "web.orgs.create", "web.password.change", "web.password.forgot", "web.password.reset",
     "web.profile", "web.register", "web.security", "web.sessions.revoke", "web.settings",
     "web.settings.save", "web.tokens.issue", "web.tokens.revoke"}

(* The operations documented for browser sessions and those documented for *)
(* everybody (Logout is in neither: it acts on whatever cookie it finds).  *)
SessionOps ==
    {"ChangePassword", "StartEmailVerification", "StartTwoFactor", "ConfirmTwoFactor", "DisableTwoFactor",
     "IssueToken", "RevokeToken", "AcceptInvite", "CreateOrg"}
OpenOps ==
    {"Register", "Login", "VerifyTwoFactor", "StartPasswordReset", "CompletePasswordReset",
     "CompleteEmailVerification", "UserProfile", "Page"}

SessionGuards == {"session", "web", "weborg"}
UserGuards == {"user", "org"} \cup SessionGuards

(* The guard of a route fits what is documented for its operation, and a   *)
(* safe method changes something only where no session is acted for.       *)
Fits(row) ==
    /\ row.op \in SessionOps => row.guard \in SessionGuards
    /\ row.op \notin OpenOps /\ row.op # "Logout" => row.guard \in UserGuards
    /\ row.safe /\ row.changes => row.guard = "open" /\ row.op # "Logout"

LEMMA APIHandlersFit == \A row \in APIHandlers : Fits(row) /\ row.name \in APINames
<1>1. \A row \in SigninHandlers : Fits(row) /\ row.name \in APINames
  BY DEF SigninHandlers, Reads, Writes, RouteRow, Fits, SessionOps, OpenOps, SessionGuards, UserGuards, APINames
<1>2. \A row \in RecoveryHandlers : Fits(row) /\ row.name \in APINames
  BY DEF RecoveryHandlers, Reads, Writes, RouteRow, Fits, SessionOps, OpenOps, SessionGuards, UserGuards, APINames
<1>3. \A row \in ProfileHandlers : Fits(row) /\ row.name \in APINames
  BY DEF ProfileHandlers, Reads, Writes, RouteRow, Fits, SessionOps, OpenOps, SessionGuards, UserGuards, APINames
<1>4. \A row \in PreferenceHandlers : Fits(row) /\ row.name \in APINames
  BY DEF PreferenceHandlers, Reads, Writes, RouteRow, Fits, SessionOps, OpenOps, SessionGuards, UserGuards, APINames
<1>5. \A row \in SecurityHandlers : Fits(row) /\ row.name \in APINames
  BY DEF SecurityHandlers, Reads, Writes, RouteRow, Fits, SessionOps, OpenOps, SessionGuards, UserGuards, APINames
<1>6. \A row \in CredentialHandlers : Fits(row) /\ row.name \in APINames
  BY DEF CredentialHandlers, Reads, Writes, RouteRow, Fits, SessionOps, OpenOps, SessionGuards, UserGuards, APINames
<1>7. \A row \in TokenHandlers : Fits(row) /\ row.name \in APINames
  BY DEF TokenHandlers, Reads, Writes, RouteRow, Fits, SessionOps, OpenOps, SessionGuards, UserGuards, APINames
<1>8. \A row \in OrgHandlers : Fits(row) /\ row.name \in APINames
  BY DEF OrgHandlers, Reads, Writes, RouteRow, Fits, SessionOps, OpenOps, SessionGuards, UserGuards, APINames
<1>9. \A row \in OrgAdminHandlers : Fits(row) /\ row.name \in APINames
  BY DEF OrgAdminHandlers, Reads, Writes, RouteRow, Fits, SessionOps, OpenOps, SessionGuards, UserGuards, APINames
<1>10. \A row \in InviteHandlers : Fits(row) /\ row.name \in APINames
  BY DEF InviteHandlers, Reads, Writes, RouteRow, Fits, SessionOps, OpenOps, SessionGuards, UserGuards, APINames
<1>11. \A row \in GrantHandlers : Fits(row) /\ row.name \in APINames
  BY DEF GrantHandlers, Reads, Writes, RouteRow, Fits, SessionOps, OpenOps, SessionGuards, UserGuards, APINames
<1>12. \A row \in DomainHandlers : Fits(row) /\ row.name \in APINames
  BY DEF DomainHandlers, Reads, Writes, RouteRow, Fits, SessionOps, OpenOps, SessionGuards, UserGuards, APINames
<1>13. \A row \in DomainProofHandlers : Fits(row) /\ row.name \in APINames
  BY DEF DomainProofHandlers, Reads, Writes, RouteRow, Fits, SessionOps, OpenOps, SessionGuards, UserGuards, APINames
<1> QED
  BY <1>1, <1>2, <1>3, <1>4, <1>5, <1>6, <1>7, <1>8, <1>9, <1>10, <1>11, <1>12, <1>13
  DEF APIHandlers

LEMMA WebPagesFit == \A row \in WebPages : Fits(row) /\ row.name \in PageNames
<1>1. \A row \in WebSigninPages : Fits(row) /\ row.name \in PageNames
  BY DEF WebSigninPages, Reads, Writes, RouteRow, Fits, SessionOps, OpenOps, SessionGuards, UserGuards, PageNames
<1>2. \A row \in WebRecoveryPages : Fits(row) /\ row.name \in PageNames
  BY DEF WebRecoveryPages, Reads, Writes, RouteRow, Fits, SessionOps, OpenOps, SessionGuards, UserGuards, PageNames
<1>3. \A row \in WebAccountPages : Fits(row) /\ row.name \in PageNames
  BY DEF WebAccountPages, Reads, Writes, RouteRow, Fits, SessionOps, OpenOps, SessionGuards, UserGuards, PageNames
<1>4. \A row \in WebSecurityPages : Fits(row) /\ row.name \in PageNames
  BY DEF WebSecurityPages, Reads, Writes, RouteRow, Fits, SessionOps, OpenOps, SessionGuards, UserGuards, PageNames
<1>5. \A row \in WebTokenPages : Fits(row) /\ row.name \in PageNames
  BY DEF WebTokenPages, Reads, Writes, RouteRow, Fits, SessionOps, OpenOps, SessionGuards, UserGuards, PageNames
<1>6. \A row \in WebOrgPages : Fits(row) /\ row.name \in PageNames
  BY DEF WebOrgPages, Reads, Writes, RouteRow, Fits, SessionOps, OpenOps, SessionGuards, UserGuards, PageNames
<1>7. \A row \in WebOrgProfilePages : Fits(row) /\ row.name \in PageNames
  BY DEF WebOrgProfilePages, Reads, Writes, RouteRow, Fits, SessionOps, OpenOps, SessionGuards, UserGuards, PageNames
<1>8. \A row \in WebMemberPages : Fits(row) /\ row.name \in PageNames
  BY DEF WebMemberPages, Reads, Writes, RouteRow, Fits, SessionOps, OpenOps, SessionGuards, UserGuards, PageNames
<1>9. \A row \in WebDomainPages : Fits(row) /\ row.name \in PageNames
  BY DEF WebDomainPages, Reads, Writes, RouteRow, Fits, SessionOps, OpenOps, SessionGuards, UserGuards, PageNames
<1> QED
  BY <1>1, <1>2, <1>3, <1>4, <1>5, <1>6, <1>7, <1>8, <1>9
  DEF WebPages

LEMMA SurfacesApart == WebPages \cap APIHandlers = {}
<1>1. PageNames \cap APINames = {}
  BY DEF PageNames, APINames
<1> QED
  BY <1>1, APIHandlersFit, WebPagesFit

LEMMA RoutesFit == \A row \in AllRoutes : Fits(row)
BY APIHandlersFit, WebPagesFit DEF AllRoutes

LEMMA DocumentedOps ==
    /\ \A op : <<op, "session">> \in Documented => op \in SessionOps \cup {"Logout"}
    /\ \A op : <<op, "bearer">> \in Documented => op \notin OpenOps
<1>1. ASSUME NEW op, <<op, "session">> \in Documented PROVE op \in SessionOps \cup {"Logout"}
  BY <1>1 DEF Documented, DocumentedSignin, DocumentedUsers, DocumentedTokens, DocumentedOrgs,
              DocumentedMembers, DocumentedDomains, DocumentedAs, SessionOps
<1>2. ASSUME NEW op, <<op, "bearer">> \in Documented PROVE op \notin OpenOps
  BY <1>2 DEF Documented, DocumentedSignin, DocumentedUsers, DocumentedTokens, DocumentedOrgs,
              DocumentedMembers, DocumentedDomains, DocumentedAs, OpenOps
<1> QED
  BY <1>1, <1>2

Identities == {"none", "session", "pending", "token"}
Stages ==
    {"idle", "normalize", "pathsec", "cors", "csrf", "ratelimit", "geoip", "auth", "handler", "answered"}

(* Past the CSRF stage a request has passed it, what was done was let on   *)
(* by its guard, and credentials are allowed to the server's own origin    *)
(* only.                                                                   *)
RequestsInv ==
    /\ rqStage \in Stages /\ rqWho \in Identities
    /\ rqStage # "idle" => rq \in RequestSpace
    /\ rqStage \in {"ratelimit", "geoip", "auth", "handler"} => CSRFPasses(rq)
    /\ rqStage # "answered" => rqDone = "none"
    /\ rqDone # "none" => CSRFPasses(rq) /\ rqDone = rq.route.op /\ GuardAnswer(rq, rqWho) = 0
    /\ rqCors.credentials => rqCors.origin = "own"

LEMMA InitRequests == RequestsInit => RequestsInv
BY DEF RequestsInit, RequestsInv, Stages, Identities

LEMMA IdentityKnown == ASSUME NEW r PROVE ResolveIdentity(r) \in Identities
BY DEF ResolveIdentity, VerifySession, VerifyToken, Identities

LEMMA StepRequests == RequestsInv /\ [RequestsNext]_requestVars => RequestsInv'
<1> SUFFICES ASSUME RequestsInv, [RequestsNext]_requestVars PROVE RequestsInv'
  OBVIOUS
<1> USE DEF RequestsInv, At
<1>1. CASE ArriveRequest
  BY <1>1 DEF ArriveRequest, Stages
<1>2. CASE URLNormalize
  BY <1>2 DEF URLNormalize, Forward, Answer, Stages
<1>3. CASE PathSecurity
  BY <1>3 DEF PathSecurity, Forward, Answer, Stages
<1>4. CASE CORS
  <2>1. PICK d \in CORSDecisions :
          rqCors' = [origin |-> IF CORSAllows(d, rq.origin) THEN IF d.explicit THEN rq.origin ELSE "*"
                                ELSE "none",
                     credentials |-> d.explicit /\ CORSAllows(d, rq.origin)]
    BY <1>4 DEF CORS
  <2>2. d.explicit /\ CORSAllows(d, rq.origin) => rq.origin = "own"
    BY DEF CORSDecisions, CORSAllows
  <2>3. rqCors'.credentials => rqCors'.origin = "own"
    BY <2>1, <2>2
  <2> QED
    BY <1>4, <2>3 DEF CORS, Forward, Answer, Stages
<1>5. CASE CSRF
  BY <1>5 DEF CSRF, Forward, Answer, Stages
<1>6. CASE RateLimitStage
  BY <1>6 DEF RateLimitStage, Forward, Answer, Stages
<1>7. CASE GeoIPStage
  BY <1>7 DEF GeoIPStage, Forward, Answer, Stages
<1>8. CASE AuthStage
  BY <1>8, IdentityKnown DEF AuthStage, Forward, Answer, Stages
<1>9. CASE Handle
  BY <1>9 DEF Handle, Answer, Stages
<1>10. CASE FinishRequest
  BY <1>10 DEF FinishRequest, Stages, Identities
<1>11. CASE UNCHANGED requestVars
  BY <1>11 DEF requestVars
<1> QED
  BY <1>1, <1>2, <1>3, <1>4, <1>5, <1>6, <1>7, <1>8, <1>9, <1>10, <1>11 DEF RequestsNext

(* Who may pass a guard.                                                   *)
LEMMA GuardsHold ==
    ASSUME NEW r, NEW who \in Identities, GuardAnswer(r, who) = 0
    PROVE  /\ r.route.guard \in SessionGuards => who = "session"
           /\ r.route.guard \in UserGuards => who \in {"session", "token"}
BY DEF GuardAnswer, RequireUser, RequireSession, WebUser, SessionGuards, UserGuards, Identities

(* For either wiring of the Auth stage and any role, whatever a request    *)
(* carries: an operation documented for sessions or tokens is done for     *)
(* nobody else on any route of the three tables, and another site's page   *)
(* neither changes anything through a visitor's session nor reads the      *)
(* answer.                                                                 *)
THEOREM RequestsAreSound == RequestsSpec => []RequestsSound
<1>1. ASSUME RequestsInv PROVE RequestsSound
  <2>1. DocumentedAuthEnforced
    <3> SUFFICES ASSUME rqDone \notin {"none", "Logout"}
                 PROVE  /\ <<rqDone, "session">> \in Documented => rqWho = "session"
                        /\ <<rqDone, "bearer">> \in Documented => rqWho \in {"session", "token"}
      BY DEF DocumentedAuthEnforced
    <3>1. /\ rqDone = rq.route.op /\ GuardAnswer(rq, rqWho) = 0 /\ rqWho \in Identities
          /\ rq \in RequestSpace
      BY <1>1 DEF RequestsInv
    <3>2. Fits(rq.route)
      BY <3>1, RoutesFit DEF RequestSpace
    <3> QED
      BY <3>1, <3>2, DocumentedOps, GuardsHold DEF Fits
  <2>2. CrossSitePowerless
    <3> SUFFICES ASSUME rqStage = "answered", rq.site = "other", rq.cookie # "none"
                 PROVE  /\ ~(/\ rq.route \in WebPages
                             /\ rqDone # "none" /\ rq.route.changes /\ ActsAsSession(rq))
                        /\ ~(rqCors.credentials /\ rqCors.origin = rq.origin)
      BY DEF CrossSitePowerless
    <3>1. rq \in RequestSpace
      BY <1>1 DEF RequestsInv
    <3>2. /\ rq.origin # "own" /\ rq.token # "bearer" /\ ~rq.echo
          /\ rq.sameSite = "none" \/ (rq.sameSite = "lax" /\ rq.route.safe)
      BY <3>1 DEF RequestSpace, CrossSiteCookie
    <3>3. ASSUME rq.route \in WebPages, rqDone # "none", rq.route.changes, ActsAsSession(rq) PROVE FALSE
      <4>1. ~rq.route.safe
        BY <3>3, WebPagesFit DEF Fits, ActsAsSession
      <4>2. CSRFRequired(rq)
        BY <3>2, <3>3, <4>1, SurfacesApart DEF CSRFRequired
      <4> QED
        BY <1>1, <3>2, <3>3, <4>2 DEF RequestsInv, CSRFPasses
    <3> QED
      BY <1>1, <3>2, <3>3 DEF RequestsInv
  <2> QED
    BY <2>1, <2>2 DEF RequestsSound
<1>2. RequestsInv => RequestsSound
  BY <1>1
<1> QED
  BY <1>2, InitRequests, StepRequests, PTL DEF RequestsSpec
=============================================================================
