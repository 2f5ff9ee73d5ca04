---------------------------- MODULE TenancyProofs ---------------------------
(***************************************************************************)
(* Proofs about tenants and the names they are served under, for any       *)
(* users, requests, invitations, tokens, claims and certificate orders.    *)
(***************************************************************************)
EXTENDS Orgs, Domains, Certificates, FiniteSetTheorems, TLAPS

-----------------------------------------------------------------------------
(* Organizations.                                                          *)
(*                                                                         *)
(* A request decides on copies and writes later, so the invariant says     *)
(* what each request in flight may still rely on: what it was given        *)
(* (Given), and how the copies it made relate to the rows and the history  *)
(* now (Standing).  A quota is overrun only by requests that have counted  *)
(* and not yet written, so those are counted with the tokens.              *)

Ops == {"none", "set-role", "remove", "transfer", "grant-zone", "revoke-zone", "delete", "issue",
        "invite", "revoke-invite", "accept", "revoke-token", "auth"}
Labels == {"idle", "member", "target", "write", "count", "granted", "redeem", "join"}
ArgRow ==
    [op : Ops, actor : Users \cup {None}, target : Users \cup {None}, ask : Roles \cup {None},
     id : Codes \cup Tokens \cup {None}, owner : Users \cup {None}, mine : Roles \cup {None}]
InviteRow ==
    [st : {"unused", "open", "used", "gone"}, role : Roles \cup {None}, by : Users \cup {None}]
TokenRow == [st : {"unused", "live", "revoked"}, user : Users \cup {None}]

DbShape ==
    /\ org \in [in : BOOLEAN, owner : Users \cup {None}]
    /\ role \in [Users -> Roles \cup {None}]
    /\ grants \subseteq Users
    /\ invites \in [Codes -> InviteRow]
    /\ tokens \in [Tokens -> TokenRow]
    /\ owners \subseteq Users
    /\ joined \in [Codes -> Nat]

ReqShape ==
    /\ pc \in [Reqs -> Labels]
    /\ arg \in [Reqs -> ArgRow]
    /\ begun \in 0 .. MaxRequests
    /\ since \in [Reqs -> BOOLEAN]

GivenOf(l, a) ==
    l # "idle" =>
        /\ a.actor \in Users
        /\ a.op \in {"set-role", "remove", "transfer", "grant-zone", "revoke-zone"} => a.target \in Users
        /\ a.op \in {"set-role", "invite", "accept"} => a.ask \in Roles
        /\ a.op \in {"invite", "revoke-invite", "accept"} => a.id \in Codes
        /\ a.op = "revoke-token" => a.id \in Tokens
        /\ l \in {"redeem", "join"} <=> a.op = "accept"
        /\ l = "granted" => a.op = "auth"
        /\ l = "target" => a.op \in {"set-role", "remove", "grant-zone"}
        /\ l = "count" => a.op = "issue"
        /\ l \in {"target", "write", "count"} => a.mine \in Roles
        /\ l = "write" /\ a.op = "set-role" /\ a.ask = "owner" => a.mine = "owner"
        /\ l = "write" /\ a.op = "transfer" => a.mine = "owner"
Given == \A r \in Reqs : GivenOf(pc[r], arg[r])

OwnersStand == \A r \in Reqs : pc[r] # "idle" =>
    /\ arg[r].mine = "owner" => arg[r].actor \in owners
    /\ arg[r].op = "accept" /\ arg[r].ask = "owner" => arg[r].target \in owners

SinceMember == \A r \in Reqs :
    /\ pc[r] = "member" /\ arg[r].op = "auth" /\ role[arg[r].actor] # None => since[r]
    /\ pc[r] = "granted" => since[r]

JoinsOnce == \A r \in Reqs : pc[r] = "join" =>
    /\ invites[arg[r].id].st \notin {"unused", "open"}
    /\ joined[arg[r].id] = 0
    /\ \A s \in Reqs : pc[s] = "join" /\ s # r => arg[s].id # arg[r].id

RowsFit ==
    /\ \A u \in Users : role[u] = "owner" => u \in owners
    /\ \A c \in Codes : invites[c].st = "open" =>
           /\ invites[c].role \in Roles /\ invites[c].by \in Users
           /\ invites[c].role = "owner" => invites[c].by \in owners
    /\ \A c \in Codes : joined[c] <= 1 /\ (invites[c].st \in {"unused", "open"} => joined[c] = 0)
    /\ \A k \in Tokens : tokens[k].st = "live" => tokens[k].user \in Users

OrgsBase ==
    DbShape /\ ReqShape /\ Given /\ OwnersStand /\ SinceMember /\ JoinsOnce /\ RowsFit /\ NoOrphans

LEMMA RolesAre == Roles = {"viewer", "editor", "admin", "owner"} /\ None \notin Roles
BY DEF Roles, Rank, None

LEMMA NoArgFits == NoArg \in ArgRow
BY DEF NoArg, ArgRow, Ops, None

LEMMA OrgsBaseInit == Init => OrgsBase
<1> SUFFICES ASSUME Init PROVE OrgsBase
  OBVIOUS
<1>1. DbShape
  BY OrgsAssumption, RolesAre DEF Init, DbShape, Invite, Token, InviteRow, TokenRow
<1>2. ReqShape
  BY OrgsAssumption, NoArgFits DEF Init, ReqShape, Labels
<1>3. Given /\ OwnersStand /\ SinceMember /\ JoinsOnce
  BY DEF Init, Given, GivenOf, OwnersStand, SinceMember, JoinsOnce
<1>4. RowsFit
  BY DEF Init, RowsFit, Invite, Token, None
<1>5. NoOrphans
  BY DEF Init, NoOrphans
<1> QED
  BY <1>1, <1>2, <1>3, <1>4, <1>5 DEF OrgsBase

-----------------------------------------------------------------------------
(* One request moves, the rest stand still.  What the move does to the     *)
(* rows may not take from the others what they rely on.                    *)

RowsAllow(r) ==
    /\ owners \subseteq owners'
    /\ \A s \in Reqs : s # r => (since[s] => since'[s])
    /\ \A s \in Reqs : s # r /\ pc[s] = "member" /\ arg[s].op = "auth" /\ role[arg[s].actor] = None
           => role'[arg[s].actor] = None \/ since'[s]
    /\ \A c \in Codes : invites[c].st \notin {"unused", "open"} => invites'[c].st \notin {"unused", "open"}
    /\ \A c \in Codes : joined'[c] # joined[c] =>
           \A s \in Reqs : s # r /\ pc[s] = "join" => arg[s].id # c

LEMMA MoveKeeps ==
    ASSUME OrgsBase, NEW r \in Reqs, NEW l \in Labels, NEW a \in ArgRow,
           pc' = [pc EXCEPT ![r] = l], arg' = [arg EXCEPT ![r] = a],
           begun' \in 0 .. MaxRequests, since' \in [Reqs -> BOOLEAN],
           RowsAllow(r), DbShape', RowsFit', NoOrphans',
           GivenOf(l, a),
           l # "idle" /\ a.mine = "owner" => a.actor \in owners',
           l # "idle" /\ a.op = "accept" /\ a.ask = "owner" => a.target \in owners',
           l = "member" /\ a.op = "auth" /\ role'[a.actor] # None => since'[r],
           l = "granted" => since'[r],
           l = "join" => /\ invites'[a.id].st \notin {"unused", "open"}
                         /\ joined'[a.id] = 0
                         /\ \A s \in Reqs : pc[s] = "join" /\ s # r => arg[s].id # a.id
    PROVE  OrgsBase'
<1>1. ReqShape'
  BY DEF OrgsBase, ReqShape
<1>2. /\ pc'[r] = l /\ arg'[r] = a
      /\ \A s \in Reqs : s # r => pc'[s] = pc[s] /\ arg'[s] = arg[s]
  BY DEF OrgsBase, ReqShape
<1>3. Given'
  BY <1>2 DEF OrgsBase, Given
<1>4. OwnersStand'
  BY <1>2 DEF OrgsBase, OwnersStand, RowsAllow
<1>5. SinceMember'
  BY <1>2 DEF OrgsBase, SinceMember, RowsAllow
<1>6. JoinsOnce'
  <2>1. ASSUME NEW s \in Reqs, s # r, pc'[s] = "join"
        PROVE  /\ invites'[arg'[s].id].st \notin {"unused", "open"}
               /\ joined'[arg'[s].id] = 0
    <3>1. pc[s] = "join" /\ arg'[s] = arg[s]
      BY <1>2, <2>1
    <3>2. arg[s].id \in Codes
      BY <3>1 DEF OrgsBase, Given, GivenOf
    <3> QED
      BY <2>1, <3>1, <3>2 DEF OrgsBase, JoinsOnce, RowsAllow
  <2>2. ASSUME NEW s \in Reqs, NEW q \in Reqs, s # q, pc'[s] = "join", pc'[q] = "join"
        PROVE  arg'[s].id # arg'[q].id
    BY <1>2, <2>2 DEF OrgsBase, JoinsOnce
  <2> QED
    BY <1>2, <2>1, <2>2 DEF JoinsOnce
<1> QED
  BY <1>1, <1>3, <1>4, <1>5, <1>6 DEF OrgsBase

LEMMA ReturnKeeps ==
    ASSUME OrgsBase, NEW r \in Reqs, Return(r), since' \in [Reqs -> BOOLEAN],
           RowsAllow(r), DbShape', RowsFit', NoOrphans'
    PROVE  OrgsBase'
<1>1. "idle" \in Labels /\ GivenOf("idle", NoArg)
  BY DEF Labels, GivenOf
<1>2. begun' \in 0 .. MaxRequests
  BY DEF Return, OrgsBase, ReqShape
<1> QED
  BY <1>1, <1>2, MoveKeeps, NoArgFits DEF Return

(* Steps that leave the rows and the owners alone.                         *)
LEMMA RowsAlone ==
    ASSUME OrgsBase, NEW r \in Reqs, UNCHANGED <<db, owners, joined>>,
           \A s \in Reqs : s # r => (since[s] => since'[s])
    PROVE  RowsAllow(r) /\ DbShape' /\ RowsFit' /\ NoOrphans'
BY DEF OrgsBase, db, RowsAllow, DbShape, RowsFit, NoOrphans

-----------------------------------------------------------------------------
(* The reads.                                                              *)

LEMMA RequestKeeps ==
    ASSUME OrgsBase, NEW r \in Reqs, NEW op \in Ops, NEW u \in Users, NEW v \in Users \cup {None},
           NEW ask \in Roles \cup {None}, NEW id \in Codes \cup Tokens \cup {None},
           Request(r, op, u, v, ask, id),
           op # "accept",
           op \in {"set-role", "remove", "transfer", "grant-zone", "revoke-zone"} => v \in Users,
           op \in {"set-role", "invite"} => ask \in Roles,
           op \in {"invite", "revoke-invite"} => id \in Codes,
           op = "revoke-token" => id \in Tokens
    PROVE  OrgsBase'
<1> DEFINE a == [op |-> op, actor |-> u, target |-> v, ask |-> ask, id |-> id,
                 owner |-> org.owner, mine |-> None]
<1>1. a \in ArgRow
  BY DEF ArgRow, OrgsBase, DbShape
<1>2. pc' = [pc EXCEPT ![r] = "member"] /\ arg' = [arg EXCEPT ![r] = a]
  BY DEF Request, Begin
<1>3. begun' \in 0 .. MaxRequests
  BY OrgsAssumption DEF Request, Begin, OrgsBase, ReqShape
<1>4. /\ since' \in [Reqs -> BOOLEAN]
      /\ \A s \in Reqs : s # r => since'[s] = since[s]
      /\ since'[r] = (op = "auth" /\ role[u] # None)
  BY DEF Request, OrgsBase, ReqShape
<1>5. UNCHANGED <<db, owners, joined>>
  BY DEF Request
<1>6. RowsAllow(r) /\ DbShape' /\ RowsFit' /\ NoOrphans'
  BY <1>4, <1>5, RowsAlone
<1>7. "member" \in Labels /\ GivenOf("member", a)
  BY DEF Labels, GivenOf
<1>8. a.mine # "owner" /\ a.op # "accept"
  BY DEF None
<1>9. a.op = "auth" /\ role'[a.actor] # None => since'[r]
  BY <1>4, <1>5 DEF db
<1> HIDE DEF a
<1> QED
  BY <1>1, <1>2, <1>3, <1>4, <1>6, <1>7, <1>8, <1>9, MoveKeeps

LEMMA AcceptInviteKeeps ==
    ASSUME OrgsBase, NEW r \in Reqs, NEW u \in Users, NEW c \in Codes, AcceptInvite(r, u, c)
    PROVE  OrgsBase'
<1> DEFINE a == [op |-> "accept", actor |-> u, target |-> invites[c].by,
                 ask |-> invites[c].role, id |-> c, owner |-> None, mine |-> None]
<1>1. invites[c] \in InviteRow /\ invites[c].st = "open"
  BY DEF AcceptInvite, OrgsBase, DbShape
<1>2. invites[c].role \in Roles /\ invites[c].by \in Users
  BY <1>1 DEF OrgsBase, RowsFit
<1>3. a \in ArgRow
  BY <1>2 DEF ArgRow, Ops
<1>4. pc' = [pc EXCEPT ![r] = "redeem"] /\ arg' = [arg EXCEPT ![r] = a]
  BY DEF AcceptInvite, Begin
<1>5. begun' \in 0 .. MaxRequests
  BY OrgsAssumption DEF AcceptInvite, Begin, OrgsBase, ReqShape
<1>6. UNCHANGED <<db, owners, joined, since>>
  BY DEF AcceptInvite, history
<1>7. RowsAllow(r) /\ DbShape' /\ RowsFit' /\ NoOrphans' /\ since' \in [Reqs -> BOOLEAN]
  BY <1>6, RowsAlone DEF OrgsBase, ReqShape
<1>8. "redeem" \in Labels /\ GivenOf("redeem", a)
  BY <1>2 DEF Labels, GivenOf
<1>9. a.mine # "owner" /\ (a.ask = "owner" => a.target \in owners')
  BY <1>1, <1>6 DEF None, OrgsBase, RowsFit
<1> HIDE DEF a
<1> QED
  BY <1>3, <1>4, <1>5, <1>7, <1>8, <1>9, MoveKeeps

(* Each operation goes where its check leads.                              *)
LEMMA CheckedLeads ==
    ASSUME NEW a \in ArgRow, a.op # "accept", NEW mine \in Roles
    PROVE  /\ Checked(a, mine) \in {"idle", "target", "write", "count", "granted"}
           /\ Checked(a, mine) = "target" => a.op \in {"set-role", "remove", "grant-zone"}
           /\ Checked(a, mine) = "count" => a.op = "issue"
           /\ Checked(a, mine) = "granted" => a.op = "auth"
           /\ Checked(a, mine) = "write" => a.op \notin {"set-role", "issue", "auth"}
           /\ Checked(a, mine) = "write" /\ a.op = "transfer" => mine = "owner"
BY DEF Checked, ArgRow, Ops

LEMMA AccessMemberKeeps ==
    ASSUME OrgsBase, NEW r \in Reqs, AccessMember(r)
    PROVE  OrgsBase'
<1> DEFINE mine == role[arg[r].actor]
           l == Checked(arg[r], mine)
           a == [op |-> arg[r].op, actor |-> arg[r].actor, target |-> arg[r].target,
                 ask |-> arg[r].ask, id |-> arg[r].id, owner |-> None, mine |-> mine]
<1>1. UNCHANGED <<db, owners, joined, since>>
  BY DEF AccessMember, history
<1>2. RowsAllow(r) /\ DbShape' /\ RowsFit' /\ NoOrphans' /\ since' \in [Reqs -> BOOLEAN]
  BY <1>1, RowsAlone DEF OrgsBase, ReqShape
<1>3. CASE mine = None \/ l = "idle"
  BY <1>2, <1>3, ReturnKeeps DEF AccessMember
<1>4. CASE mine # None /\ l # "idle"
  <2>1. /\ arg[r] \in ArgRow /\ pc[r] = "member" /\ GivenOf("member", arg[r])
        /\ arg[r].actor \in Users /\ arg[r].op # "accept"
    BY DEF AccessMember, OrgsBase, ReqShape, Given, GivenOf
  <2>2. mine \in Roles
    BY <1>4, <2>1 DEF OrgsBase, DbShape
  <2>3. arg' = [arg EXCEPT ![r] = a] /\ pc' = [pc EXCEPT ![r] = l]
    <3>1. arg' = [arg EXCEPT ![r].mine = mine, ![r].owner = None] /\ pc' = [pc EXCEPT ![r] = l]
      BY <1>4 DEF AccessMember
    <3>2. [[arg[r] EXCEPT !.mine = mine] EXCEPT !.owner = None] = a
      <4>1. PICK x : x = [arg[r] EXCEPT !.mine = mine]
        OBVIOUS
      <4>2. x = [op |-> arg[r].op, actor |-> arg[r].actor, target |-> arg[r].target, ask |-> arg[r].ask,
                 id |-> arg[r].id, owner |-> arg[r].owner, mine |-> mine]
        BY <2>1, <4>1 DEF ArgRow
      <4>3. [x EXCEPT !.owner = None] = a
        BY <4>2
      <4> QED
        BY <4>1, <4>3
    <3>3. r \in DOMAIN arg
      BY DEF OrgsBase, ReqShape
    <3>4. arg' = [arg EXCEPT ![r] = [[arg[r] EXCEPT !.mine = mine] EXCEPT !.owner = None]]
      BY <3>1, <3>3
    <3> QED
      BY <3>1, <3>2, <3>4
  <2>4. a \in ArgRow
    BY <2>1, <2>2 DEF ArgRow
  <2>5. /\ l \in {"target", "write", "count", "granted"}
        /\ l = "target" => a.op \in {"set-role", "remove", "grant-zone"}
        /\ l = "count" => a.op = "issue"
        /\ l = "granted" => a.op = "auth"
        /\ l = "write" => a.op # "set-role"
        /\ l = "write" /\ a.op = "transfer" => mine = "owner"
    BY <1>4, <2>1, <2>2, CheckedLeads
  <2>6. GivenOf(l, a)
    BY <2>1, <2>2, <2>5 DEF GivenOf
  <2>7. a.mine = "owner" => a.actor \in owners'
    BY <1>1, <2>1 DEF OrgsBase, RowsFit
  <2>8. l = "granted" => since'[r]
    BY <1>1, <1>4, <2>1, <2>5 DEF OrgsBase, SinceMember
  <2>9. l \in Labels /\ l # "member" /\ l # "join" /\ a.op # "accept"
    BY <2>1, <2>5 DEF Labels
  <2>10. begun' \in 0 .. MaxRequests
    BY <1>4 DEF AccessMember, OrgsBase, ReqShape
  <2> HIDE DEF a, l, mine
  <2> QED
    BY <1>2, <2>3, <2>4, <2>6, <2>7, <2>8, <2>9, <2>10, MoveKeeps
<1> QED
  BY <1>3, <1>4

(* A request that goes on with what it has read.                           *)
LEMMA GotoKeeps ==
    ASSUME OrgsBase, NEW r \in Reqs, NEW l \in {"write", "join"}, Goto(r, l), pc[r] # "idle",
           GivenOf(l, arg[r]),
           RowsAllow(r), DbShape', RowsFit', NoOrphans', since' = since,
           l = "join" => /\ invites'[arg[r].id].st \notin {"unused", "open"}
                         /\ joined'[arg[r].id] = 0
                         /\ \A s \in Reqs : pc[s] = "join" /\ s # r => arg[s].id # arg[r].id
    PROVE  OrgsBase'
<1>1. arg' = [arg EXCEPT ![r] = arg[r]] /\ arg[r] \in ArgRow /\ since' \in [Reqs -> BOOLEAN]
  BY DEF Goto, OrgsBase, ReqShape
<1>2. l \in Labels /\ l \notin {"idle", "member", "granted"} /\ begun' \in 0 .. MaxRequests
  BY DEF Labels, Goto, OrgsBase, ReqShape
<1>3. /\ arg[r].mine = "owner" => arg[r].actor \in owners'
      /\ arg[r].op = "accept" /\ arg[r].ask = "owner" => arg[r].target \in owners'
  BY DEF OrgsBase, OwnersStand, RowsAllow
<1>4. pc' = [pc EXCEPT ![r] = l]
  BY DEF Goto
<1> QED
  BY <1>1, <1>2, <1>3, <1>4, MoveKeeps

LEMMA ReadTargetKeeps ==
    ASSUME OrgsBase, NEW r \in Reqs, ReadTarget(r)
    PROVE  OrgsBase'
<1>1. UNCHANGED <<db, owners, joined, since>>
  BY DEF ReadTarget, history
<1>2. RowsAllow(r) /\ DbShape' /\ RowsFit' /\ NoOrphans' /\ since' \in [Reqs -> BOOLEAN]
  BY <1>1, RowsAlone DEF OrgsBase, ReqShape
<1>3. CASE Return(r)
  BY <1>2, <1>3, ReturnKeeps
<1>4. CASE Goto(r, "write") /\ (arg[r].op = "set-role" => CanGrantRole(arg[r].mine, arg[r].ask))
  <2>1. GivenOf("target", arg[r]) /\ pc[r] = "target"
    BY DEF ReadTarget, OrgsBase, Given
  <2>2. arg[r].op = "set-role" /\ arg[r].ask = "owner" => arg[r].mine = "owner"
    BY <1>4, <2>1, RolesAre DEF GivenOf, CanGrantRole, ManagesMembers, Rank
  <2>3. GivenOf("write", arg[r])
    BY <2>1, <2>2 DEF GivenOf
  <2> QED
    BY <1>1, <1>2, <1>4, <2>1, <2>3, GotoKeeps
<1> QED
  BY <1>3, <1>4 DEF ReadTarget

LEMMA CountKeeps ==
    ASSUME OrgsBase, NEW r \in Reqs, CountLiveTokens(r)
    PROVE  OrgsBase'
<1>1. UNCHANGED <<db, owners, joined, since>>
  BY DEF CountLiveTokens, history
<1>2. RowsAllow(r) /\ DbShape' /\ RowsFit' /\ NoOrphans' /\ since' \in [Reqs -> BOOLEAN]
  BY <1>1, RowsAlone DEF OrgsBase, ReqShape
<1>3. CASE Return(r)
  BY <1>2, <1>3, ReturnKeeps
<1>4. CASE Goto(r, "write")
  <2>1. GivenOf("count", arg[r]) /\ pc[r] = "count"
    BY DEF CountLiveTokens, OrgsBase, Given
  <2>2. GivenOf("write", arg[r])
    BY <2>1 DEF GivenOf
  <2> QED
    BY <1>1, <1>2, <1>4, <2>1, <2>2, GotoKeeps
<1> QED
  BY <1>3, <1>4 DEF CountLiveTokens

LEMMA GrantedKeeps ==
    ASSUME OrgsBase, NEW r \in Reqs, Granted(r)
    PROVE  OrgsBase'
<1>1. UNCHANGED <<db, owners, joined>> /\ Return(r)
  BY DEF Granted
<1>2. since' \in [Reqs -> BOOLEAN] /\ \A s \in Reqs : s # r => since'[s] = since[s]
  BY DEF Granted, OrgsBase, ReqShape
<1>3. RowsAllow(r) /\ DbShape' /\ RowsFit' /\ NoOrphans'
  BY <1>1, <1>2, RowsAlone
<1> QED
  BY <1>1, <1>2, <1>3, ReturnKeeps

-----------------------------------------------------------------------------
(* The writes.                                                             *)

LEMMA WritingGiven ==
    ASSUME OrgsBase, NEW r \in Reqs, NEW op, Writing(r, op)
    PROVE  Return(r) /\ pc[r] = "write" /\ arg[r].op = op /\ GivenOf("write", arg[r]) /\ arg[r] \in ArgRow
BY DEF OrgsBase, ReqShape, Given, Writing

LEMMA SetMemberRoleKeeps ==
    ASSUME OrgsBase, NEW r \in Reqs, SetMemberRole(r)
    PROVE  OrgsBase'
<1> DEFINE a == arg[r]
<1>1. Return(r) /\ a.target \in Users /\ a.ask \in Roles /\ pc[r] = "write" /\ a.op = "set-role"
  BY WritingGiven DEF SetMemberRole, GivenOf
<1>2. UNCHANGED <<org, grants, invites, tokens, since, joined>>
  BY DEF SetMemberRole
<1>3. CASE role[a.target] = None
  <2>1. UNCHANGED <<db, owners, joined, since>>
    BY <1>2, <1>3 DEF SetMemberRole, db
  <2> QED
    BY <1>1, <2>1, RowsAlone, ReturnKeeps DEF OrgsBase, ReqShape
<1>4. CASE role[a.target] # None
  <2>1. role' = [role EXCEPT ![a.target] = a.ask] /\ owners \subseteq owners'
        /\ owners' \subseteq owners \cup {a.target} /\ (a.ask = "owner" => a.target \in owners')
    BY <1>4 DEF SetMemberRole, Confer
  <2>2. /\ role' \in [Users -> Roles \cup {None}]
        /\ \A u \in Users : role'[u] = IF u = a.target THEN a.ask ELSE role[u]
    BY <1>1, <2>1 DEF OrgsBase, DbShape
  <2>3. DbShape'
    BY <1>1, <1>2, <2>1, <2>2 DEF OrgsBase, DbShape
  <2>4. RowsFit'
    BY <1>2, <2>1, <2>2 DEF OrgsBase, RowsFit
  <2>5. NoOrphans'
    BY <1>1, <1>2, <1>4 DEF OrgsBase, NoOrphans
  <2>6. RowsAllow(r)
    BY <1>1, <1>2, <1>4, <2>1, <2>2 DEF RowsAllow, OrgsBase, Given, GivenOf
  <2> QED
    BY <1>1, <1>2, <2>3, <2>4, <2>5, <2>6, ReturnKeeps DEF OrgsBase, ReqShape
<1> QED
  BY <1>3, <1>4

LEMMA RemoveMemberKeeps ==
    ASSUME OrgsBase, NEW r \in Reqs, RemoveMember(r)
    PROVE  OrgsBase'
<1> DEFINE v == arg[r].target
<1>1. Return(r) /\ v \in Users
  BY WritingGiven DEF RemoveMember, GivenOf
<1>2. UNCHANGED <<org, invites, owners, since, joined>>
  BY DEF RemoveMember, history
<1>3. CASE role[v] = None
  <2>1. UNCHANGED <<db, owners, joined, since>>
    BY <1>2, <1>3 DEF RemoveMember, db
  <2> QED
    BY <1>1, <2>1, RowsAlone, ReturnKeeps DEF OrgsBase, ReqShape
<1>4. CASE role[v] # None
  <2>1. /\ role' = [role EXCEPT ![v] = None]
        /\ grants' = grants \ {v}
        /\ tokens' = [k \in Tokens |-> IF k \in LiveTokens(v) THEN Token("revoked") ELSE tokens[k]]
    BY <1>4 DEF RemoveMember
  <2>2. /\ role' \in [Users -> Roles \cup {None}]
        /\ \A u \in Users : role'[u] = IF u = v THEN None ELSE role[u]
    BY <1>1, <2>1 DEF OrgsBase, DbShape
  <2>3. tokens' \in [Tokens -> TokenRow] /\ \A k \in Tokens : tokens'[k].st = "live" => tokens'[k] = tokens[k]
    BY <2>1 DEF OrgsBase, DbShape, Token, TokenRow
  <2>4. DbShape'
    BY <1>2, <2>1, <2>2, <2>3 DEF OrgsBase, DbShape
  <2>5. RowsFit'
    BY <1>2, <2>2, <2>3 DEF OrgsBase, RowsFit, None
  <2>6. NoOrphans'
    BY <1>2, <2>1, <2>2 DEF OrgsBase, NoOrphans
  <2>7. RowsAllow(r)
    BY <1>2, <2>2 DEF RowsAllow, OrgsBase, Given, GivenOf
  <2> QED
    BY <1>1, <1>2, <2>4, <2>5, <2>6, <2>7, ReturnKeeps DEF OrgsBase, ReqShape
<1> QED
  BY <1>3, <1>4

LEMMA TransferOrgKeeps ==
    ASSUME OrgsBase, NEW r \in Reqs, TransferOrg(r)
    PROVE  OrgsBase'
<1> DEFINE a == arg[r]
<1>1. Return(r) /\ a.target \in Users /\ a.actor \in Users
  BY WritingGiven DEF TransferOrg, GivenOf
<1>2. UNCHANGED <<grants, invites, tokens, since, joined>>
  BY DEF TransferOrg
<1>3. CASE role[a.target] = None
  <2>1. UNCHANGED <<db, owners, joined, since>>
    BY <1>2, <1>3 DEF TransferOrg, db
  <2> QED
    BY <1>1, <2>1, RowsAlone, ReturnKeeps DEF OrgsBase, ReqShape
<1>4. CASE role[a.target] # None
  <2>1. /\ org' = [org EXCEPT !.owner = a.target]
        /\ role' = [role EXCEPT ![a.target] = "owner", ![a.actor] = IF @ = None THEN None ELSE "admin"]
        /\ owners' = owners \cup {a.target}
    BY <1>4 DEF TransferOrg
  <2>2. /\ role' \in [Users -> Roles \cup {None}]
        /\ \A u \in Users : /\ role'[u] = "owner" => u = a.target \/ role[u] = "owner"
                            /\ role[u] = None => role'[u] = None
    BY <1>1, <1>4, <2>1, RolesAre DEF OrgsBase, DbShape
  <2>3. org' \in [in : BOOLEAN, owner : Users \cup {None}] /\ org'.in = org.in
    BY <1>1, <2>1 DEF OrgsBase, DbShape
  <2>4. DbShape'
    BY <1>1, <1>2, <2>1, <2>2, <2>3 DEF OrgsBase, DbShape
  <2>5. RowsFit'
    BY <1>2, <2>1, <2>2 DEF OrgsBase, RowsFit
  <2>6. NoOrphans'
    BY <1>1, <1>2, <1>4, <2>3 DEF OrgsBase, NoOrphans
  <2>7. RowsAllow(r)
    BY <1>2, <2>1, <2>2 DEF RowsAllow, OrgsBase, Given, GivenOf
  <2> QED
    BY <1>1, <1>2, <2>4, <2>5, <2>6, <2>7, ReturnKeeps DEF OrgsBase, ReqShape
<1> QED
  BY <1>3, <1>4

LEMMA DeleteOrgKeeps ==
    ASSUME OrgsBase, NEW r \in Reqs, DeleteOrg(r)
    PROVE  OrgsBase'
<1>1. Return(r)
  BY WritingGiven DEF DeleteOrg
<1>2. UNCHANGED <<tokens, owners, since, joined>>
  BY DEF DeleteOrg, history
<1>3. /\ org' = [in |-> FALSE, owner |-> None]
      /\ role' = [u \in Users |-> None] /\ grants' = {}
      /\ invites' = [c \in Codes |-> IF invites[c].st = "unused" THEN invites[c] ELSE Invite("gone")]
  BY DEF DeleteOrg
<1>4. /\ invites' \in [Codes -> InviteRow]
      /\ \A c \in Codes : invites'[c].st # "open" /\ (invites'[c].st = "unused" => invites[c].st = "unused")
  BY <1>3 DEF OrgsBase, DbShape, Invite, InviteRow
<1>5. DbShape'
  BY <1>2, <1>3, <1>4 DEF OrgsBase, DbShape
<1>6. RowsFit'
  BY <1>2, <1>3, <1>4 DEF OrgsBase, RowsFit, None
<1>7. NoOrphans'
  BY <1>3, <1>4 DEF NoOrphans
<1>8. RowsAllow(r)
  BY <1>2, <1>3, <1>4 DEF RowsAllow, OrgsBase, Given, GivenOf
<1> QED
  BY <1>1, <1>2, <1>5, <1>6, <1>7, <1>8, ReturnKeeps DEF OrgsBase, ReqShape

LEMMA ZoneKeeps ==
    ASSUME OrgsBase, NEW r \in Reqs, GrantZone(r) \/ RevokeZone(r)
    PROVE  OrgsBase'
<1>1. Return(r) /\ arg[r].target \in Users
  BY WritingGiven DEF GrantZone, RevokeZone, GivenOf
<1>2. UNCHANGED <<org, role, invites, tokens, owners, since, joined>>
  BY DEF GrantZone, RevokeZone, history
<1>3. grants' \subseteq grants \cup {arg[r].target} /\ (~org.in => grants' \subseteq grants)
  BY DEF GrantZone, RevokeZone
<1>4. DbShape' /\ RowsFit' /\ RowsAllow(r)
  BY <1>1, <1>2, <1>3 DEF OrgsBase, DbShape, RowsFit, RowsAllow
<1>5. NoOrphans'
  BY <1>2, <1>3 DEF OrgsBase, NoOrphans
<1> QED
  BY <1>1, <1>2, <1>4, <1>5, ReturnKeeps DEF OrgsBase, ReqShape

(* CapRole: an inviter cannot ask for more than it has.                    *)
LEMMA CapIsOwned ==
    ASSUME NEW mine \in Roles, NEW ask \in Roles
    PROVE  CapRole(mine, ask) \in Roles /\ (CapRole(mine, ask) = "owner" => mine = "owner")
BY RolesAre DEF CapRole, Rank

LEMMA InviteWritesKeep ==
    ASSUME OrgsBase, NEW r \in Reqs, InviteMember(r) \/ RevokeInvite(r)
    PROVE  OrgsBase'
<1> DEFINE a == arg[r]
<1>1. /\ Return(r) /\ a.actor \in Users /\ a.id \in Codes /\ a.mine \in Roles
      /\ InviteMember(r) => a.ask \in Roles
      /\ pc[r] = "write"
  BY WritingGiven DEF InviteMember, RevokeInvite, GivenOf
<1>2. UNCHANGED <<org, role, grants, tokens, owners, since, joined>>
  BY DEF InviteMember, RevokeInvite, history
<1>3. ASSUME NEW row \in InviteRow, invites' = [invites EXCEPT ![a.id] = row],
             \/ /\ invites[a.id].st = "unused" /\ org.in
                /\ row.role \in Roles /\ row.by \in Users /\ (row.role = "owner" => row.by \in owners)
             \/ row.st = "gone"
      PROVE  OrgsBase'
  <2>1. /\ invites' \in [Codes -> InviteRow] /\ invites'[a.id] = row
        /\ \A c \in Codes : c # a.id => invites'[c] = invites[c]
    BY <1>1, <1>3 DEF OrgsBase, DbShape
  <2>2. DbShape'
    BY <1>2, <2>1 DEF OrgsBase, DbShape
  <2>3. RowsFit'
    BY <1>1, <1>2, <1>3, <2>1 DEF OrgsBase, RowsFit
  <2>4. NoOrphans'
    BY <1>2, <1>3, <2>1 DEF OrgsBase, NoOrphans
  <2>5. RowsAllow(r)
    BY <1>1, <1>2, <1>3, <2>1 DEF RowsAllow, OrgsBase
  <2> QED
    BY <1>1, <1>2, <2>2, <2>3, <2>4, <2>5, ReturnKeeps DEF OrgsBase, ReqShape
<1>4. CASE invites' = invites
  <2>1. UNCHANGED <<db, owners, joined, since>>
    BY <1>2, <1>4 DEF db
  <2> QED
    BY <1>1, <2>1, RowsAlone, ReturnKeeps DEF OrgsBase, ReqShape
<1>5. CASE InviteMember(r) /\ invites' # invites
  <2> DEFINE row == [st |-> "open", role |-> CapRole(a.mine, a.ask), by |-> a.actor]
  <2>1. invites' = [invites EXCEPT ![a.id] = row] /\ org.in /\ invites[a.id].st = "unused"
    BY <1>5 DEF InviteMember
  <2>2. CapRole(a.mine, a.ask) \in Roles /\ (CapRole(a.mine, a.ask) = "owner" => a.actor \in owners)
    BY <1>1, <1>5, CapIsOwned DEF OrgsBase, OwnersStand
  <2>3. row \in InviteRow
    BY <1>1, <2>2 DEF InviteRow
  <2> QED
    BY <1>1, <1>3, <2>1, <2>2, <2>3
<1>6. CASE RevokeInvite(r) /\ invites' # invites
  <2>1. invites' = [invites EXCEPT ![a.id] = Invite("gone")]
    BY <1>6 DEF RevokeInvite
  <2>2. Invite("gone") \in InviteRow /\ Invite("gone").st = "gone"
    BY DEF Invite, InviteRow
  <2> QED
    BY <1>3, <2>1, <2>2
<1> QED
  BY <1>4, <1>5, <1>6

LEMMA RedeemInviteKeeps ==
    ASSUME OrgsBase, NEW r \in Reqs, RedeemInvite(r)
    PROVE  OrgsBase'
<1> DEFINE c == arg[r].id
<1>1. pc[r] = "redeem" /\ GivenOf("redeem", arg[r]) /\ c \in Codes
  BY DEF RedeemInvite, OrgsBase, Given, GivenOf
<1>2. UNCHANGED <<org, role, grants, tokens, owners, since, joined>>
  BY DEF RedeemInvite, history
<1>3. CASE invites[c].st # "open"
  <2>1. UNCHANGED <<db, owners, joined, since>> /\ Return(r)
    BY <1>2, <1>3 DEF RedeemInvite, db
  <2> QED
    BY <2>1, RowsAlone, ReturnKeeps DEF OrgsBase, ReqShape
<1>4. CASE invites[c].st = "open"
  <2>1. invites' = [invites EXCEPT ![c] = Invite("used")] /\ Goto(r, "join")
    BY <1>4 DEF RedeemInvite
  <2>2. Invite("used") \in InviteRow /\ Invite("used").st = "used"
    BY DEF Invite, InviteRow
  <2>3. /\ invites' \in [Codes -> InviteRow] /\ invites'[c].st = "used"
        /\ \A d \in Codes : d # c => invites'[d] = invites[d]
    BY <1>1, <2>1, <2>2 DEF OrgsBase, DbShape
  <2>4. DbShape'
    BY <1>2, <2>3 DEF OrgsBase, DbShape
  <2>5. RowsFit'
    BY <1>1, <1>2, <2>3 DEF OrgsBase, RowsFit
  <2>6. NoOrphans'
    BY <1>2, <2>3 DEF OrgsBase, NoOrphans
  <2>7. RowsAllow(r)
    BY <1>2, <2>3 DEF RowsAllow, OrgsBase
  <2>8. GivenOf("join", arg[r])
    BY <1>1 DEF GivenOf
  <2>9. joined'[c] = 0 /\ \A s \in Reqs : pc[s] = "join" /\ s # r => arg[s].id # c
    BY <1>1, <1>2, <1>4 DEF OrgsBase, RowsFit, JoinsOnce
  <2> QED
    BY <1>1, <1>2, <2>1, <2>3, <2>4, <2>5, <2>6, <2>7, <2>8, <2>9, GotoKeeps
<1> QED
  BY <1>3, <1>4

LEMMA AddMemberKeeps ==
    ASSUME OrgsBase, NEW r \in Reqs, AddMember(r)
    PROVE  OrgsBase'
<1> DEFINE a == arg[r]
<1>1. pc[r] = "join" /\ Return(r) /\ a.actor \in Users /\ a.ask \in Roles /\ a.id \in Codes
  BY DEF AddMember, OrgsBase, Given, GivenOf
<1>2. UNCHANGED <<org, grants, invites, tokens>>
  BY DEF AddMember
<1>3. CASE ~(org.in /\ role[a.actor] = None)
  <2>1. UNCHANGED <<db, owners, joined, since>>
    BY <1>2, <1>3 DEF AddMember, db, history
  <2> QED
    BY <1>1, <2>1, RowsAlone, ReturnKeeps DEF OrgsBase, ReqShape
<1>4. CASE org.in /\ role[a.actor] = None
  <2>1. /\ role' = [role EXCEPT ![a.actor] = a.ask]
        /\ owners \subseteq owners' /\ owners' \subseteq owners \cup {a.actor}
        /\ a.ask = "owner" => a.actor \in owners'
        /\ joined' = [joined EXCEPT ![a.id] = @ + 1]
        /\ since' = [s \in Reqs |-> since[s] \/ (arg[s].op = "auth" /\ arg[s].actor = a.actor)]
    BY <1>4 DEF AddMember, Confer
  <2>2. /\ role' \in [Users -> Roles \cup {None}]
        /\ \A u \in Users : role'[u] = IF u = a.actor THEN a.ask ELSE role[u]
    BY <1>1, <2>1 DEF OrgsBase, DbShape
  <2>3. /\ joined' \in [Codes -> Nat] /\ joined[a.id] = 0 /\ joined'[a.id] = 1
        /\ \A c \in Codes : c # a.id => joined'[c] = joined[c]
    BY <1>1, <2>1 DEF OrgsBase, DbShape, JoinsOnce
  <2>4. since' \in [Reqs -> BOOLEAN]
    BY <2>1 DEF OrgsBase, ReqShape
  <2>5. DbShape'
    BY <1>1, <1>2, <2>1, <2>2, <2>3 DEF OrgsBase, DbShape
  <2>6. RowsFit'
    <3>1. \A u \in Users : role'[u] = "owner" => u \in owners'
      BY <2>1, <2>2 DEF OrgsBase, RowsFit
    <3>2. invites[a.id].st \notin {"unused", "open"}
      BY <1>1 DEF OrgsBase, JoinsOnce
    <3>3. \A c \in Codes : joined'[c] <= 1 /\ (invites'[c].st \in {"unused", "open"} => joined'[c] = 0)
      BY <1>2, <2>3, <3>2 DEF OrgsBase, RowsFit
    <3> QED
      BY <1>2, <2>1, <3>1, <3>3 DEF OrgsBase, RowsFit
  <2>7. NoOrphans'
    BY <1>2, <1>4 DEF NoOrphans
  <2>8. RowsAllow(r)
    <3>1. \A s \in Reqs : s # r /\ pc[s] = "member" /\ arg[s].op = "auth" /\ role[arg[s].actor] = None
             => role'[arg[s].actor] = None \/ since'[s]
      BY <2>1, <2>2 DEF OrgsBase, Given, GivenOf
    <3>2. \A c \in Codes : joined'[c] # joined[c] => \A s \in Reqs : s # r /\ pc[s] = "join" => arg[s].id # c
      BY <1>1, <2>3 DEF OrgsBase, JoinsOnce
    <3> QED
      BY <1>2, <2>1, <3>1, <3>2 DEF RowsAllow
  <2> QED
    BY <1>1, <2>4, <2>5, <2>6, <2>7, <2>8, ReturnKeeps
<1> QED
  BY <1>3, <1>4

LEMMA TokenWritesKeep ==
    ASSUME OrgsBase, NEW r \in Reqs, CreateToken(r) \/ RevokeOrgToken(r)
    PROVE  OrgsBase'
<1>1. Return(r) /\ arg[r].actor \in Users
  BY WritingGiven DEF CreateToken, RevokeOrgToken, GivenOf
<1>2. UNCHANGED <<org, role, grants, invites, owners, since, joined>>
  BY DEF CreateToken, RevokeOrgToken, history
<1>3. tokens' \in [Tokens -> TokenRow] /\ \A k \in Tokens : tokens'[k].st = "live" => tokens'[k].user \in Users
  <2>1. CASE CreateToken(r)
    <3>1. PICK k \in Tokens : tokens' = [tokens EXCEPT ![k] = [st |-> "live", user |-> arg[r].actor]]
      BY <2>1 DEF CreateToken
    <3>2. [st |-> "live", user |-> arg[r].actor] \in TokenRow
      BY <1>1 DEF TokenRow
    <3> QED
      BY <1>1, <3>1, <3>2 DEF OrgsBase, DbShape, RowsFit
  <2>2. CASE RevokeOrgToken(r)
    <3>1. Token("revoked") \in TokenRow /\ Token("revoked").st # "live"
      BY DEF Token, TokenRow
    <3> QED
      BY <2>2, <3>1 DEF RevokeOrgToken, OrgsBase, DbShape, RowsFit
  <2> QED
    BY <2>1, <2>2
<1>4. DbShape' /\ RowsFit' /\ RowsAllow(r) /\ NoOrphans'
  BY <1>2, <1>3 DEF OrgsBase, DbShape, RowsFit, RowsAllow, NoOrphans
<1> QED
  BY <1>1, <1>2, <1>4, ReturnKeeps DEF OrgsBase, ReqShape

LEMMA RevokeTokenKeeps ==
    ASSUME OrgsBase, NEW k \in Tokens, RevokeToken(k)
    PROVE  OrgsBase'
<1>1. UNCHANGED <<org, role, grants, invites, pc, arg, begun, since, owners, joined>>
  BY DEF RevokeToken, history
<1>2. Token("revoked") \in TokenRow /\ Token("revoked").st # "live"
  BY DEF Token, TokenRow
<1>3. tokens' \in [Tokens -> TokenRow] /\ \A j \in Tokens : tokens'[j].st = "live" => tokens'[j] = tokens[j]
  BY <1>2 DEF RevokeToken, OrgsBase, DbShape
<1>4. DbShape' /\ RowsFit'
  BY <1>1, <1>3 DEF OrgsBase, DbShape, RowsFit
<1>5. ReqShape' /\ Given' /\ OwnersStand' /\ SinceMember' /\ JoinsOnce' /\ NoOrphans'
  BY <1>1 DEF OrgsBase, ReqShape, Given, OwnersStand, SinceMember, JoinsOnce, NoOrphans
<1> QED
  BY <1>4, <1>5 DEF OrgsBase

(* Every request starts with arguments that fit its operation.             *)
LEMMA RequestsKeep ==
    ASSUME OrgsBase, NEW r \in Reqs,
           \/ \E u, v \in Users, ask \in Asked : Request(r, "set-role", u, v, ask, None)
           \/ \E u, v \in Users, op \in {"remove", "transfer"} : Request(r, op, u, v, None, None)
           \/ \E u \in Users, v \in Grantees, op \in {"grant-zone", "revoke-zone"} :
                 Request(r, op, u, v, None, None)
           \/ \E u \in Users, op \in {"delete", "issue"} : Request(r, op, u, None, None, None)
           \/ \E u \in Users, c \in Codes :
                 \/ \E ask \in Asked : Request(r, "invite", u, None, ask, c)
                 \/ Request(r, "revoke-invite", u, None, None, c)
           \/ \E u \in Users, k \in Tokens : Request(r, "revoke-token", u, None, None, k)
           \/ \E k \in Tokens : AuthenticateToken(r, k)
    PROVE  OrgsBase'
<1>1. \A ask \in Asked : ask \in Roles
  BY OrgsAssumption, RolesAre
<1>2. \A v \in Grantees : v \in Users
  BY OrgsAssumption
<1>3. ASSUME NEW k \in Tokens, AuthenticateToken(r, k) PROVE OrgsBase'
  <2>1. tokens[k].user \in Users /\ Request(r, "auth", tokens[k].user, None, None, k)
    BY <1>3 DEF AuthenticateToken, OrgsBase, RowsFit
  <2> QED
    BY <2>1, RequestKeeps DEF Ops
<1>4. ASSUME NEW u \in Users, NEW v \in Users, NEW ask \in Asked, Request(r, "set-role", u, v, ask, None)
      PROVE OrgsBase'
  BY <1>1, <1>4, RequestKeeps DEF Ops
<1>5. ASSUME NEW u \in Users, NEW v \in Users, NEW op \in {"remove", "transfer", "grant-zone", "revoke-zone"},
             Request(r, op, u, v, None, None)
      PROVE OrgsBase'
  BY <1>5, RequestKeeps DEF Ops
<1>6. ASSUME NEW u \in Users, NEW op \in {"delete", "issue"}, Request(r, op, u, None, None, None)
      PROVE OrgsBase'
  BY <1>6, RequestKeeps DEF Ops
<1>7. ASSUME NEW u \in Users, NEW c \in Codes, NEW ask \in Asked, Request(r, "invite", u, None, ask, c)
      PROVE OrgsBase'
  BY <1>1, <1>7, RequestKeeps DEF Ops
<1>8. ASSUME NEW u \in Users, NEW c \in Codes, Request(r, "revoke-invite", u, None, None, c)
      PROVE OrgsBase'
  BY <1>8, RequestKeeps DEF Ops
<1>9. ASSUME NEW u \in Users, NEW k \in Tokens, Request(r, "revoke-token", u, None, None, k)
      PROVE OrgsBase'
  BY <1>9, RequestKeeps DEF Ops
<1> QED
  BY <1>2, <1>3, <1>4, <1>5, <1>6, <1>7, <1>8, <1>9

LEMMA OrgsBaseStep == OrgsBase /\ [Next]_vars => OrgsBase'
<1> SUFFICES ASSUME OrgsBase, [Next]_vars PROVE OrgsBase'
  OBVIOUS
<1>1. CASE UNCHANGED vars
  BY <1>1 DEF vars, db, history, OrgsBase, DbShape, ReqShape, Given, OwnersStand, SinceMember, JoinsOnce,
              RowsFit, NoOrphans
<1>2. ASSUME NEW r \in Reqs, Step(r) PROVE OrgsBase'
  BY <1>2, AccessMemberKeeps, ReadTargetKeeps, SetMemberRoleKeeps, RemoveMemberKeeps, TransferOrgKeeps,
     DeleteOrgKeeps, ZoneKeeps, InviteWritesKeep, RedeemInviteKeeps, AddMemberKeeps, CountKeeps,
     TokenWritesKeep, GrantedKeeps DEF Step
<1> QED
  BY <1>1, <1>2, RevokeTokenKeeps, RequestsKeep, AcceptInviteKeeps DEF Next

-----------------------------------------------------------------------------
(* The token quota.                                                        *)

Issuing(u) == {r \in Reqs : pc[r] = "write" /\ arg[r].op = "issue" /\ arg[r].actor = u}

QuotaInv ==
    \A u \in Users :
        Cardinality(LiveTokens(u)) + Cardinality(Issuing(u)) <= MaxPerUser + Cardinality(Reqs) - 1

LEMMA QuotaSetsFinite ==
    /\ Cardinality(Reqs) \in Nat
    /\ \A u : /\ IsFiniteSet(LiveTokens(u)) /\ Cardinality(LiveTokens(u)) \in Nat
              /\ IsFiniteSet(Issuing(u)) /\ Cardinality(Issuing(u)) \in Nat
              /\ Cardinality(Issuing(u)) <= Cardinality(Reqs)
<1>1. Cardinality(Reqs) \in Nat
  BY OrgsAssumption, FS_CardinalityType
<1>2. ASSUME NEW u
      PROVE  /\ IsFiniteSet(LiveTokens(u)) /\ Cardinality(LiveTokens(u)) \in Nat
             /\ IsFiniteSet(Issuing(u)) /\ Cardinality(Issuing(u)) \in Nat
             /\ Cardinality(Issuing(u)) <= Cardinality(Reqs)
  <2>1. LiveTokens(u) \in SUBSET Tokens /\ Issuing(u) \in SUBSET Reqs
    BY DEF LiveTokens, Issuing
  <2>2. /\ IsFiniteSet(LiveTokens(u)) /\ IsFiniteSet(Issuing(u))
        /\ Cardinality(Issuing(u)) <= Cardinality(Reqs)
    BY <2>1, OrgsAssumption, FS_Subset
  <2> QED
    BY <2>2, FS_CardinalityType
<1> QED
  BY <1>1, <1>2

LEMMA QuotaInit == Init => QuotaInv
<1> SUFFICES ASSUME Init, NEW u \in Users
             PROVE  Cardinality(LiveTokens(u)) + Cardinality(Issuing(u)) <= MaxPerUser + Cardinality(Reqs) - 1
  BY DEF QuotaInv
<1>1. LiveTokens(u) = {} /\ Issuing(u) = {}
  BY DEF Init, LiveTokens, Issuing, Token
<1> QED
  BY <1>1, QuotaSetsFinite, OrgsAssumption, FS_EmptySet

(* A step after which nobody has more tokens or more inserts ahead.        *)
LEMMA QuotaShrinks ==
    ASSUME QuotaInv, \A u \in Users : LiveTokens(u)' \subseteq LiveTokens(u) /\ Issuing(u)' \subseteq Issuing(u)
    PROVE  QuotaInv'
<1> SUFFICES ASSUME NEW u \in Users
             PROVE  Cardinality(LiveTokens(u)') + Cardinality(Issuing(u)') <= MaxPerUser + Cardinality(Reqs) - 1
  BY DEF QuotaInv
<1>1. Cardinality(LiveTokens(u)') <= Cardinality(LiveTokens(u)) /\ Cardinality(Issuing(u)') <= Cardinality(Issuing(u))
  BY QuotaSetsFinite, FS_Subset
<1>2. IsFiniteSet(LiveTokens(u)') /\ IsFiniteSet(Issuing(u)')
  BY QuotaSetsFinite, FS_Subset
<1>3. Cardinality(LiveTokens(u)') \in Nat /\ Cardinality(Issuing(u)') \in Nat
  BY <1>2, FS_CardinalityType
<1> QED
  BY <1>1, <1>3, QuotaSetsFinite, OrgsAssumption DEF QuotaInv

LEMMA ReturnShrinks ==
    ASSUME OrgsBase, NEW r \in Reqs, Return(r), NEW u \in Users
    PROVE  Issuing(u)' \subseteq Issuing(u) \ {r}
<1>1. pc'[r] = "idle" /\ \A s \in Reqs : s # r => pc'[s] = pc[s] /\ arg'[s] = arg[s]
  BY DEF Return, OrgsBase, ReqShape
<1> QED
  BY <1>1 DEF Issuing

(* A request that moves, but not to the insert of a token.                 *)
LEMMA MoveShrinks ==
    ASSUME OrgsBase, NEW r \in Reqs, NEW l, NEW a,
           pc' = [pc EXCEPT ![r] = l], arg' = [arg EXCEPT ![r] = a], l # "write" \/ a.op # "issue",
           NEW u \in Users
    PROVE  Issuing(u)' \subseteq Issuing(u)
<1>1. /\ pc'[r] = l /\ arg'[r] = a
      /\ \A s \in Reqs : s # r => pc'[s] = pc[s] /\ arg'[s] = arg[s]
  BY DEF OrgsBase, ReqShape
<1> QED
  BY <1>1 DEF Issuing

LEMMA CreateQuota ==
    ASSUME OrgsBase, QuotaInv, NEW r \in Reqs, CreateToken(r)
    PROVE  QuotaInv'
<1> SUFFICES ASSUME NEW u \in Users
             PROVE  Cardinality(LiveTokens(u)') + Cardinality(Issuing(u)') <= MaxPerUser + Cardinality(Reqs) - 1
  BY DEF QuotaInv
<1>1. Return(r) /\ pc[r] = "write" /\ arg[r].op = "issue"
  BY WritingGiven DEF CreateToken
<1>2. PICK k \in Tokens : tokens[k].st = "unused" /\ tokens' = [tokens EXCEPT ![k] = [st |-> "live", user |-> arg[r].actor]]
  BY DEF CreateToken
<1>3. /\ tokens'[k] = [st |-> "live", user |-> arg[r].actor]
      /\ \A j \in Tokens : j # k => tokens'[j] = tokens[j]
  BY <1>2 DEF OrgsBase, DbShape
<1>4. Issuing(u)' \subseteq Issuing(u) \ {r}
  BY <1>1, ReturnShrinks
<1>5. /\ IsFiniteSet(Issuing(u) \ {r})
      /\ Cardinality(Issuing(u) \ {r}) = IF r \in Issuing(u) THEN Cardinality(Issuing(u)) - 1
                                         ELSE Cardinality(Issuing(u))
  BY QuotaSetsFinite, FS_RemoveElement
<1>6. IsFiniteSet(Issuing(u)') /\ Cardinality(Issuing(u)') <= Cardinality(Issuing(u) \ {r})
  BY <1>4, <1>5, FS_Subset
<1>7. Cardinality(Issuing(u)') \in Nat /\ Cardinality(Issuing(u) \ {r}) \in Nat
  BY <1>5, <1>6, FS_CardinalityType
<1>8. CASE u = arg[r].actor
  <2>1. r \in Issuing(u)
    BY <1>1, <1>8 DEF Issuing
  <2>2. LiveTokens(u)' = LiveTokens(u) \cup {k} /\ k \notin LiveTokens(u)
    BY <1>2, <1>3, <1>8 DEF LiveTokens
  <2>3. Cardinality(LiveTokens(u)') = Cardinality(LiveTokens(u)) + 1
    BY <2>2, QuotaSetsFinite, FS_AddElement
  <2> QED
    BY <1>5, <1>6, <1>7, <2>1, <2>3, QuotaSetsFinite, OrgsAssumption DEF QuotaInv
<1>9. CASE u # arg[r].actor
  <2>1. LiveTokens(u)' = LiveTokens(u)
    BY <1>2, <1>3, <1>9 DEF LiveTokens
  <2> QED
    BY <1>5, <1>6, <1>7, <2>1, QuotaSetsFinite, OrgsAssumption DEF QuotaInv
<1> QED
  BY <1>8, <1>9

LEMMA CountQuota ==
    ASSUME OrgsBase, QuotaInv, NEW r \in Reqs, CountLiveTokens(r)
    PROVE  QuotaInv'
<1>1. tokens' = tokens /\ \A u : LiveTokens(u)' = LiveTokens(u)
  BY DEF CountLiveTokens, db, LiveTokens
<1>2. CASE Return(r)
  BY <1>1, <1>2, ReturnShrinks, QuotaShrinks
<1>3. CASE Goto(r, "write") /\ Cardinality(LiveTokens(arg[r].actor)) < MaxPerUser
  <2> SUFFICES ASSUME NEW u \in Users
               PROVE  Cardinality(LiveTokens(u)') + Cardinality(Issuing(u)') <= MaxPerUser + Cardinality(Reqs) - 1
    BY DEF QuotaInv
  <2>1. Issuing(u)' \in SUBSET Reqs
    BY DEF Issuing
  <2>2. IsFiniteSet(Issuing(u)') /\ Cardinality(Issuing(u)') <= Cardinality(Reqs)
    BY <2>1, OrgsAssumption, FS_Subset
  <2>3. Cardinality(Issuing(u)') \in Nat
    BY <2>2, FS_CardinalityType
  <2>4. CASE u = arg[r].actor
    BY <1>1, <1>3, <2>2, <2>3, <2>4, QuotaSetsFinite, OrgsAssumption
  <2>5. CASE u # arg[r].actor
    <3>1. /\ arg' = arg
          /\ \A s \in Reqs : s # r => pc'[s] = pc[s]
      BY <1>3 DEF Goto, OrgsBase, ReqShape
    <3>2. Issuing(u)' \subseteq Issuing(u)
      BY <2>5, <3>1 DEF Issuing
    <3>3. Cardinality(Issuing(u)') <= Cardinality(Issuing(u))
      BY <3>2, QuotaSetsFinite, FS_Subset
    <3> QED
      BY <1>1, <2>3, <3>3, QuotaSetsFinite, OrgsAssumption DEF QuotaInv
  <2> QED
    BY <2>4, <2>5
<1> QED
  BY <1>2, <1>3 DEF CountLiveTokens

(* No other step adds a token.                                             *)
LEMMA TokensOnlyGo ==
    ASSUME OrgsBase,
           \/ UNCHANGED tokens
           \/ \E k \in Tokens : RevokeToken(k)
           \/ \E r \in Reqs : RemoveMember(r) \/ RevokeOrgToken(r),
           NEW u \in Users
    PROVE  LiveTokens(u)' \subseteq LiveTokens(u)
<1> SUFFICES ASSUME NEW j \in Tokens, tokens'[j].st = "live" PROVE tokens'[j] = tokens[j]
  BY DEF LiveTokens
<1> Token("revoked").st # "live"
  BY DEF Token
<1>1. CASE \E k \in Tokens : RevokeToken(k)
  BY <1>1 DEF RevokeToken, OrgsBase, DbShape
<1>2. CASE \E r \in Reqs : RemoveMember(r)
  BY <1>2 DEF RemoveMember
<1>3. CASE \E r \in Reqs : RevokeOrgToken(r)
  BY <1>3 DEF RevokeOrgToken, OrgsBase, DbShape
<1> QED
  BY <1>1, <1>2, <1>3

LEMMA QuotaStep == OrgsBase /\ QuotaInv /\ [Next]_vars => QuotaInv'
<1> SUFFICES ASSUME OrgsBase, QuotaInv, [Next]_vars PROVE QuotaInv'
  OBVIOUS
<1>1. CASE UNCHANGED vars
  BY <1>1 DEF vars, db, QuotaInv, LiveTokens, Issuing
<1>2. ASSUME NEW k \in Tokens, RevokeToken(k) PROVE QuotaInv'
  <2>1. \A u \in Users : Issuing(u)' = Issuing(u)
    BY <1>2 DEF RevokeToken, Issuing
  <2> QED
    BY <1>2, <2>1, TokensOnlyGo, QuotaShrinks
<1>3. ASSUME NEW r \in Reqs, Return(r),
             UNCHANGED tokens \/ RemoveMember(r) \/ RevokeOrgToken(r)
      PROVE  QuotaInv'
  BY <1>3, TokensOnlyGo, ReturnShrinks, QuotaShrinks
<1>4. ASSUME NEW r \in Reqs, NEW l, NEW a, UNCHANGED tokens,
             pc' = [pc EXCEPT ![r] = l], arg' = [arg EXCEPT ![r] = a], l # "write" \/ a.op # "issue"
      PROVE  QuotaInv'
  BY <1>4, TokensOnlyGo, MoveShrinks, QuotaShrinks
<1>5. ASSUME NEW r \in Reqs, NEW op, NEW u, NEW v, NEW ask, NEW id, Request(r, op, u, v, ask, id) PROVE QuotaInv'
  <2>1. pc' = [pc EXCEPT ![r] = "member"] /\ UNCHANGED tokens
    BY <1>5 DEF Request, Begin, db
  <2>2. PICK a : arg' = [arg EXCEPT ![r] = a]
    BY <1>5 DEF Request, Begin
  <2>3. "member" # "write"
    OBVIOUS
  <2> QED
    BY <1>4, <2>1, <2>2, <2>3, Zenon
<1>6. ASSUME NEW r \in Reqs, NEW u \in Users, NEW c \in Codes, AcceptInvite(r, u, c) PROVE QuotaInv'
  <2>1. pc' = [pc EXCEPT ![r] = "redeem"] /\ UNCHANGED tokens
    BY <1>6 DEF AcceptInvite, Begin, db
  <2>2. PICK a : arg' = [arg EXCEPT ![r] = a]
    BY <1>6 DEF AcceptInvite, Begin
  <2>3. "redeem" # "write"
    OBVIOUS
  <2> QED
    BY <1>4, <2>1, <2>2, <2>3, Zenon
<1>7. ASSUME NEW r \in Reqs, AccessMember(r) PROVE QuotaInv'
  <2>1. UNCHANGED tokens
    BY <1>7 DEF AccessMember, db
  <2>2. CASE Return(r)
    BY <1>3, <2>1, <2>2
  <2>3. CASE /\ role[arg[r].actor] # None
             /\ pc' = [pc EXCEPT ![r] = Checked(arg[r], role[arg[r].actor])]
             /\ arg' = [arg EXCEPT ![r].mine = role[arg[r].actor], ![r].owner = None]
    <3>1. arg[r] \in ArgRow /\ arg[r].actor \in Users /\ arg[r].op # "accept"
      BY <1>7 DEF AccessMember, OrgsBase, ReqShape, Given, GivenOf
    <3>2. role[arg[r].actor] \in Roles
      BY <2>3, <3>1 DEF OrgsBase, DbShape
    <3>3. Checked(arg[r], role[arg[r].actor]) # "write" \/ arg[r].op # "issue"
      BY <3>1, <3>2, CheckedLeads
    <3>4. /\ pc'[r] = Checked(arg[r], role[arg[r].actor]) /\ arg'[r].op = arg[r].op
          /\ \A s \in Reqs : s # r => pc'[s] = pc[s] /\ arg'[s] = arg[s]
      BY <2>3, <3>1 DEF OrgsBase, ReqShape, ArgRow
    <3>5. \A u \in Users : Issuing(u)' \subseteq Issuing(u)
      BY <3>3, <3>4 DEF Issuing
    <3> QED
      BY <2>1, <3>5, TokensOnlyGo, QuotaShrinks
  <2> QED
    BY <1>7, <2>2, <2>3 DEF AccessMember
<1>8. ASSUME NEW r \in Reqs, ReadTarget(r) \/ RedeemInvite(r) PROVE QuotaInv'
  <2>1. UNCHANGED tokens
    BY <1>8 DEF ReadTarget, RedeemInvite, db
  <2>2. CASE Return(r)
    BY <1>3, <2>1, <2>2
  <2>3. ASSUME NEW l, Goto(r, l) PROVE QuotaInv'
    <3>1. arg[r].op # "issue"
      BY <1>8 DEF ReadTarget, RedeemInvite, OrgsBase, Given, GivenOf
    <3>2. pc' = [pc EXCEPT ![r] = l] /\ arg' = [arg EXCEPT ![r] = arg[r]]
      BY <2>3 DEF Goto, OrgsBase, ReqShape
    <3> QED
      BY <1>4, <2>1, <3>1, <3>2
  <2> QED
    BY <1>8, <2>2, <2>3 DEF ReadTarget, RedeemInvite
<1>9. ASSUME NEW r \in Reqs,
             \/ SetMemberRole(r) \/ TransferOrg(r) \/ DeleteOrg(r) \/ GrantZone(r) \/ RevokeZone(r)
             \/ InviteMember(r) \/ RevokeInvite(r) \/ AddMember(r) \/ Granted(r)
      PROVE  QuotaInv'
  <2>1. UNCHANGED tokens /\ Return(r)
    BY <1>9, WritingGiven DEF SetMemberRole, TransferOrg, DeleteOrg, GrantZone, RevokeZone, InviteMember,
       RevokeInvite, AddMember, Granted, db
  <2> QED
    BY <1>3, <2>1
<1>10. ASSUME NEW r \in Reqs, RemoveMember(r) \/ RevokeOrgToken(r) PROVE QuotaInv'
  BY <1>3, <1>10, WritingGiven DEF RemoveMember, RevokeOrgToken
<1>11. ASSUME NEW r \in Reqs, Step(r) PROVE QuotaInv'
  BY <1>7, <1>8, <1>9, <1>10, <1>11, CreateQuota, CountQuota DEF Step
<1>12. ASSUME NEW r \in Reqs, NEW k \in Tokens, AuthenticateToken(r, k) PROVE QuotaInv'
  BY <1>5, <1>12 DEF AuthenticateToken
<1> QED
  BY <1>1, <1>2, <1>5, <1>6, <1>11, <1>12 DEF Next

-----------------------------------------------------------------------------
OrgsInv == OrgsBase /\ QuotaInv

LEMMA OrgsInvHolds == Spec => []OrgsInv
<1>1. Init => OrgsInv
  BY OrgsBaseInit, QuotaInit DEF OrgsInv
<1>2. OrgsInv /\ [Next]_vars => OrgsInv'
  BY OrgsBaseStep, QuotaStep DEF OrgsInv
<1> QED
  BY <1>1, <1>2, PTL DEF Spec

(* The rows of an organization stay consistent under any number of racing  *)
(* requests: a token is accepted only if its holder was a member since the *)
(* request began (AuthenticateToken), an invitation makes one member       *)
(* (RedeemInvite's guarded update), nothing outlives the organization, and *)
(* the token cap is overrun by no more than the requests that race past    *)
(* IssueToken's count.                                                     *)
THEOREM OrgsAreSafe == Spec => []OrgsSafe
<1>1. OrgsInv => OrgsSafe
  <2> SUFFICES ASSUME OrgsInv PROVE OrgsSafe
    OBVIOUS
  <2>1. TypeOK
    BY DEF OrgsInv, OrgsBase, DbShape, ReqShape, Given, GivenOf, TypeOK, Labels, InviteRow, TokenRow
  <2>2. RemovedIsLockedOut
    BY DEF OrgsInv, OrgsBase, SinceMember, RemovedIsLockedOut
  <2>3. InviteNotOverused /\ NoOrphans
    BY DEF OrgsInv, OrgsBase, RowsFit, InviteNotOverused
  <2>4. QuotaOverrunBounded
    BY QuotaSetsFinite, OrgsAssumption DEF OrgsInv, QuotaInv, QuotaOverrunBounded
  <2> QED
    BY <2>1, <2>2, <2>3, <2>4 DEF OrgsSafe
<1> QED
  BY <1>1, OrgsInvHolds, PTL

(* Whoever becomes an owner owes it to somebody who has been one, whatever *)
(* changes of role overtake the request: SetMemberRole confers the role    *)
(* only where CanGrantRole saw an owner, an invitation carries no more     *)
(* than CapRole left of its inviter's role, and only an owner transfers.   *)
THEOREM OwnersMakeOwners == Spec => OwnershipFromOwners
<1> DEFINE From(r) == (IF pc[r] = "join" THEN arg[r].target ELSE arg[r].actor) \in owners
           Act == \A u \in Users : role[u] # "owner" /\ role'[u] = "owner" =>
                    \E r \in Reqs : /\ pc[r] \in {"write", "join"} /\ pc'[r] = "idle"
                                    /\ (IF pc[r] = "join" THEN arg[r].target ELSE arg[r].actor) \in owners
<1>1. ASSUME OrgsBase, Next, NEW u \in Users, role[u] # "owner", role'[u] = "owner"
      PROVE  \E r \in Reqs : pc[r] \in {"write", "join"} /\ pc'[r] = "idle" /\ From(r)
  <2>1. PICK r \in Reqs : SetMemberRole(r) \/ TransferOrg(r) \/ AddMember(r)
    <3>1. ASSUME NEW r \in Reqs, RemoveMember(r) PROVE FALSE
      BY <1>1, <3>1 DEF RemoveMember, OrgsBase, DbShape, None
    <3>2. ASSUME NEW r \in Reqs, DeleteOrg(r) PROVE FALSE
      BY <1>1, <3>2 DEF DeleteOrg, None
    <3>3. role' # role
      BY <1>1
    <3>4. ASSUME NEW r \in Reqs,
                 \/ AccessMember(r) \/ ReadTarget(r) \/ GrantZone(r) \/ RevokeZone(r) \/ InviteMember(r)
                 \/ RevokeInvite(r) \/ RedeemInvite(r) \/ CountLiveTokens(r) \/ CreateToken(r)
                 \/ RevokeOrgToken(r) \/ Granted(r)
          PROVE  FALSE
      BY <3>3, <3>4 DEF AccessMember, ReadTarget, GrantZone, RevokeZone, InviteMember, RevokeInvite,
         RedeemInvite, CountLiveTokens, CreateToken, RevokeOrgToken, Granted, db
    <3>5. ASSUME NEW r \in Reqs, NEW op, NEW w, NEW v, NEW ask, NEW id, Request(r, op, w, v, ask, id) PROVE FALSE
      BY <3>3, <3>5 DEF Request, db
    <3>6. ASSUME NEW r \in Reqs, NEW w, NEW c, AcceptInvite(r, w, c) PROVE FALSE
      BY <3>3, <3>6 DEF AcceptInvite, db
    <3>7. ASSUME NEW k, RevokeToken(k) PROVE FALSE
      BY <3>3, <3>7 DEF RevokeToken
    <3>8. ASSUME NEW r \in Reqs, NEW k, AuthenticateToken(r, k) PROVE FALSE
      BY <3>5, <3>8 DEF AuthenticateToken
    <3> QED
      BY <1>1, <3>1, <3>2, <3>4, <3>5, <3>6, <3>7, <3>8 DEF Next, Step
  <2>2. Return(r) /\ pc[r] \in {"write", "join"} /\ GivenOf(pc[r], arg[r])
    BY <1>1, <2>1, WritingGiven DEF SetMemberRole, TransferOrg, AddMember, OrgsBase, Given
  <2>3. pc'[r] = "idle"
    BY <1>1, <2>2 DEF Return, OrgsBase, ReqShape
  <2>4. From(r)
    <3>1. CASE SetMemberRole(r)
      <4>1. pc[r] = "write" /\ arg[r].op = "set-role"
        BY <1>1, <3>1, WritingGiven DEF SetMemberRole
      <4>2. arg[r].ask = "owner"
        BY <1>1, <2>2, <3>1, <4>1 DEF SetMemberRole, Confer, OrgsBase, DbShape, GivenOf
      <4>3. arg[r].mine = "owner"
        BY <2>2, <4>1, <4>2 DEF GivenOf
      <4> QED
        BY <1>1, <4>1, <4>3 DEF OrgsBase, OwnersStand
    <3>2. CASE TransferOrg(r)
      <4>1. pc[r] = "write" /\ arg[r].op = "transfer"
        BY <1>1, <3>2, WritingGiven DEF TransferOrg
      <4>2. arg[r].mine = "owner"
        BY <2>2, <4>1 DEF GivenOf
      <4> QED
        BY <1>1, <4>1, <4>2 DEF OrgsBase, OwnersStand
    <3>3. CASE AddMember(r)
      <4>1. pc[r] = "join"
        BY <3>3 DEF AddMember
      <4>2. arg[r].op = "accept" /\ arg[r].actor \in Users
        BY <2>2, <4>1 DEF GivenOf
      <4>3. arg[r].ask = "owner"
        BY <1>1, <3>3, <4>2 DEF AddMember, Confer, OrgsBase, DbShape
      <4> QED
        BY <1>1, <4>1, <4>2, <4>3 DEF OrgsBase, OwnersStand
    <3> QED
      BY <2>1, <3>1, <3>2, <3>3
  <2> QED
    BY <2>2, <2>3, <2>4
<1>2. OrgsInv /\ [Next]_vars => [Act]_vars
  BY <1>1 DEF OrgsInv
<1> QED
  BY <1>2, OrgsInvHolds, PTL DEF Spec, OwnershipFromOwners

-----------------------------------------------------------------------------
(* Custom domains.                                                         *)
(*                                                                         *)
(* VerifyDomain looks up the token it loaded and records the outcome by    *)
(* id, so the proof has to know that the row of that id is still the one   *)
(* it loaded.  It is, unless the id was given to another row meanwhile,    *)
(* and those ids are set apart: a request on its way to the lookup holds   *)
(* the token of its row, and one past it has had that token matched.       *)

DomainsSpec == DomainsInit /\ [][DomainsNext]_domainsVars

DomRow ==
    [in : BOOLEAN, org : DomOrgs \cup {"none"}, name : DomNames \cup {"none"}, token : Nat,
     verification : {"pending", "verified", "failed"}, ssl : {"none", "issued", "failed", "overdue"},
     status : {"pending", "active", "suspended"}]
DomArgRow ==
    [id : DomIds \cup {0}, org : DomOrgs \cup {"none"}, name : DomNames \cup {"none"}, token : Nat]
DomSteps == {"lookup", "pass", "fail", "activate", "reload", "issue", "suspend", "remove"}

DomShape ==
    /\ dom \in [DomIds -> DomRow]
    /\ domTokens \in 0..MaxTokens
    /\ domPc \in [DomReqs -> DomSteps \cup {"idle", "insert"}]
    /\ domArg \in [DomReqs -> DomArgRow]

HoldsRow ==
    \A r \in DomReqs : domPc[r] \in DomSteps =>
        /\ domArg[r].id \in DomIds
        /\ dom[domArg[r].id].in /\ domArg[r].id \notin reused =>
             /\ domPc[r] = "lookup" => domArg[r].token = dom[domArg[r].id].token
             /\ domPc[r] = "pass" => dom[domArg[r].id].token \in matched

VerifiedIsMatched ==
    \A i \in DomIds \ reused : dom[i].in /\ Verified(dom[i]) => dom[i].token \in matched

DomainsInv == DomShape /\ HoldsRow /\ VerifiedIsMatched

LEMMA DomConstants == NoDomain \in DomRow /\ NoDomArg \in DomArgRow /\ 0 \in 0..MaxTokens
<1>1. 0 \in 0..MaxTokens
  BY DomainsAssumption
<1>2. NoDomain \in DomRow
  BY DEF NoDomain, DomRow
<1>3. NoDomArg \in DomArgRow
  BY DEF NoDomArg, DomArgRow
<1> QED
  BY <1>1, <1>2, <1>3

LEMMA DomainsInvInit == DomainsInit => DomainsInv
<1> SUFFICES ASSUME DomainsInit PROVE DomainsInv
  OBVIOUS
<1>1. DomShape
  BY DomConstants DEF DomainsInit, DomShape
<1>2. HoldsRow /\ VerifiedIsMatched
  BY DEF DomainsInit, HoldsRow, VerifiedIsMatched, DomSteps, NoDomain
<1> QED
  BY <1>1, <1>2 DEF DomainsInv

(* A request moves and may write the row it holds, whose token stays.      *)
LEMMA DomMoveKeeps ==
    ASSUME DomainsInv, NEW r \in DomReqs, NEW l \in DomSteps \cup {"idle", "insert"}, NEW a \in DomArgRow,
           domPc' = [domPc EXCEPT ![r] = l], domArg' = [domArg EXCEPT ![r] = a],
           dom' \in [DomIds -> DomRow],
           \A i \in DomIds : dom'[i].in => dom[i].in /\ dom'[i].token = dom[i].token,
           \A i \in DomIds \ reused : dom'[i].in /\ Verified(dom'[i]) => Verified(dom[i]) \/ dom[i].token \in matched,
           UNCHANGED <<domTokens, reused>>, matched \subseteq matched',
           l \in DomSteps => a.id \in DomIds,
           l = "lookup" => a.token = dom[a.id].token,
           l = "pass" /\ dom'[a.id].in /\ a.id \notin reused => dom[a.id].token \in matched'
    PROVE  DomainsInv'
<1>1. DomShape'
  BY DEF DomainsInv, DomShape
<1>2. /\ domPc'[r] = l /\ domArg'[r] = a
      /\ \A s \in DomReqs : s # r => domPc'[s] = domPc[s] /\ domArg'[s] = domArg[s]
  BY DEF DomainsInv, DomShape
<1>3. HoldsRow'
  <2> SUFFICES ASSUME NEW s \in DomReqs, domPc'[s] \in DomSteps
               PROVE  /\ domArg'[s].id \in DomIds
                      /\ dom'[domArg'[s].id].in /\ domArg'[s].id \notin reused' =>
                           /\ domPc'[s] = "lookup" => domArg'[s].token = dom'[domArg'[s].id].token
                           /\ domPc'[s] = "pass" => dom'[domArg'[s].id].token \in matched'
    BY DEF HoldsRow
  <2>1. CASE s = r
    BY <1>2, <2>1 DEF DomSteps
  <2>2. CASE s # r
    BY <1>2, <2>2 DEF DomainsInv, HoldsRow
  <2> QED
    BY <2>1, <2>2
<1>4. VerifiedIsMatched'
  BY DEF DomainsInv, VerifiedIsMatched
<1> QED
  BY <1>1, <1>3, <1>4 DEF DomainsInv

(* Reading moves leave the rows alone.                                     *)
LEMMA DomReadKeeps ==
    ASSUME DomainsInv, NEW r \in DomReqs, NEW l \in DomSteps \cup {"idle", "insert"}, NEW a \in DomArgRow,
           domPc' = [domPc EXCEPT ![r] = l], domArg' = [domArg EXCEPT ![r] = a],
           UNCHANGED <<dom, domTokens, reused, matched>>,
           l \in DomSteps \ {"pass"} => a.id \in DomIds,
           l = "lookup" => a.token = dom[a.id].token,
           l # "pass"
    PROVE  DomainsInv'
<1>1. dom' \in [DomIds -> DomRow]
  BY DEF DomainsInv, DomShape
<1> QED
  BY <1>1, DomMoveKeeps

LEMMA AddDomainKeeps ==
    ASSUME DomainsInv, NEW r \in DomReqs, NEW o \in DomOrgs, NEW n \in DomNames, AddDomain(r, o, n)
    PROVE  DomainsInv'
<1>1. [NoDomArg EXCEPT !.org = o, !.name = n] = [id |-> 0, org |-> o, name |-> n, token |-> 0]
  <2>1. PICK x : x = [NoDomArg EXCEPT !.org = o]
    OBVIOUS
  <2>2. x = [id |-> 0, org |-> o, name |-> "none", token |-> 0]
    BY <2>1 DEF NoDomArg
  <2>3. [x EXCEPT !.name = n] = [id |-> 0, org |-> o, name |-> n, token |-> 0]
    BY <2>2
  <2> QED
    BY <2>1, <2>3, Zenon
<1>2. [id |-> 0, org |-> o, name |-> n, token |-> 0] \in DomArgRow
  BY DEF DomArgRow
<1>3. domArg' = [domArg EXCEPT ![r] = [id |-> 0, org |-> o, name |-> n, token |-> 0]]
  BY <1>1 DEF AddDomain
<1>4. "insert" \notin DomSteps
  BY DEF DomSteps
<1> QED
  BY <1>2, <1>3, <1>4, DomReadKeeps DEF AddDomain

LEMMA DomainForOrgKeeps ==
    ASSUME DomainsInv, NEW r \in DomReqs, NEW o \in DomOrgs, NEW i \in DomIds,
           NEW op \in {"lookup", "suspend", "remove"}, DomainForOrg(r, o, i, op)
    PROVE  DomainsInv'
<1>1. dom[i] \in DomRow
  BY DEF DomainsInv, DomShape
<1>2. op \in DomSteps /\ op # "pass"
  BY DEF DomSteps
<1>3. CASE op = "lookup"
  <2> DEFINE a == [id |-> i, org |-> o, name |-> dom[i].name, token |-> dom[i].token]
  <2>1. a \in DomArgRow /\ a.id = i /\ a.token = dom[i].token
    BY <1>1 DEF DomArgRow, DomRow
  <2>2. domArg' = [domArg EXCEPT ![r] = a]
    BY <1>3 DEF DomainForOrg
  <2> HIDE DEF a
  <2> QED
    BY <1>2, <1>3, <2>1, <2>2, DomReadKeeps DEF DomainForOrg
<1>4. CASE op # "lookup"
  <2> DEFINE a == [NoDomArg EXCEPT !.id = i]
  <2>1. a \in DomArgRow /\ a.id = i
    BY DEF NoDomArg, DomArgRow
  <2>2. domArg' = [domArg EXCEPT ![r] = a]
    BY <1>4 DEF DomainForOrg
  <2> HIDE DEF a
  <2> QED
    BY <1>2, <1>4, <2>1, <2>2, DomReadKeeps DEF DomainForOrg
<1> QED
  BY <1>3, <1>4

LEMMA CreateDomainKeeps ==
    ASSUME DomainsInv, NEW r \in DomReqs, CreateDomain(r)
    PROVE  DomainsInv'
<1>1. DomReturn(r) /\ UNCHANGED matched
  BY DEF CreateDomain
<1>2. CASE UNCHANGED <<dom, domTokens, reused>>
  BY <1>1, <1>2, DomConstants, DomReadKeeps DEF DomReturn, DomSteps
<1>3. CASE /\ domTokens < MaxTokens /\ domTokens' = domTokens + 1
           /\ \E i \in DomIds :
                /\ \A j \in DomIds : dom[j].in => j < i
                /\ dom' = [dom EXCEPT ![i] = [NoDomain EXCEPT !.in = TRUE, !.org = domArg[r].org,
                                             !.name = domArg[r].name, !.token = domTokens']]
                /\ reused' = IF \E q \in DomReqs : domArg[q].id = i THEN reused \union {i} ELSE reused
  <2>1. PICK i \in DomIds :
          /\ dom' = [dom EXCEPT ![i] = [NoDomain EXCEPT !.in = TRUE, !.org = domArg[r].org,
                                       !.name = domArg[r].name, !.token = domTokens']]
          /\ reused' = IF \E q \in DomReqs : domArg[q].id = i THEN reused \union {i} ELSE reused
    BY <1>3
  <2> DEFINE row == [in |-> TRUE, org |-> domArg[r].org, name |-> domArg[r].name, token |-> domTokens',
                     verification |-> "pending", ssl |-> "none", status |-> "pending"]
  <2>2. dom' = [dom EXCEPT ![i] = row]
    <3>1. PICK x : x = [NoDomain EXCEPT !.in = TRUE]
      OBVIOUS
    <3>2. PICK y : y = [x EXCEPT !.org = domArg[r].org]
      OBVIOUS
    <3>3. PICK z : z = [y EXCEPT !.name = domArg[r].name]
      OBVIOUS
    <3>4. [z EXCEPT !.token = domTokens'] = row
      <4>1. x = [in |-> TRUE, org |-> "none", name |-> "none", token |-> 0,
                 verification |-> "pending", ssl |-> "none", status |-> "pending"]
        BY <3>1 DEF NoDomain
      <4>2. y = [in |-> TRUE, org |-> domArg[r].org, name |-> "none", token |-> 0,
                 verification |-> "pending", ssl |-> "none", status |-> "pending"]
        BY <3>2, <4>1
      <4>3. z = [in |-> TRUE, org |-> domArg[r].org, name |-> domArg[r].name, token |-> 0,
                 verification |-> "pending", ssl |-> "none", status |-> "pending"]
        BY <3>3, <4>2
      <4>4. PICK u : u = [z EXCEPT !.token = domTokens']
        OBVIOUS
      <4>5. u = row
        BY <4>3, <4>4
      <4> QED
        BY <4>4, <4>5
    <3>5. dom' = [dom EXCEPT ![i] = [z EXCEPT !.token = domTokens']]
      BY <2>1, <3>1, <3>2, <3>3, Zenon
    <3> QED
      BY <3>4, <3>5, Zenon
  <2>3. domArg[r] \in DomArgRow /\ domTokens' \in 0..MaxTokens /\ domTokens' \in Nat
    BY <1>3, DomainsAssumption DEF DomainsInv, DomShape
  <2>4. row \in DomRow
    BY <2>3 DEF DomRow, DomArgRow
  <2>5. /\ dom' \in [DomIds -> DomRow] /\ ~Verified(dom'[i])
        /\ \A j \in DomIds : j # i => dom'[j] = dom[j]
    BY <2>2, <2>4 DEF DomainsInv, DomShape, Verified
  <2>6. /\ domPc'[r] = "idle"
        /\ \A s \in DomReqs : s # r => domPc'[s] = domPc[s] /\ domArg'[s] = domArg[s]
    BY <1>1 DEF DomReturn, DomainsInv, DomShape
  <2>7. DomShape'
    BY <1>1, <2>3, <2>5, DomConstants DEF DomReturn, DomainsInv, DomShape
  <2>8. HoldsRow'
    <3> SUFFICES ASSUME NEW s \in DomReqs, domPc'[s] \in DomSteps
                 PROVE  /\ domArg'[s].id \in DomIds
                        /\ dom'[domArg'[s].id].in /\ domArg'[s].id \notin reused' =>
                             /\ domPc'[s] = "lookup" => domArg'[s].token = dom'[domArg'[s].id].token
                             /\ domPc'[s] = "pass" => dom'[domArg'[s].id].token \in matched'
      BY DEF HoldsRow
    <3>1. s # r /\ domPc'[s] = domPc[s] /\ domArg'[s] = domArg[s]
      BY <2>6 DEF DomSteps
    <3>2. CASE domArg[s].id = i
      BY <2>1, <3>1, <3>2
    <3>3. CASE domArg[s].id # i
      BY <1>1, <2>1, <2>5, <3>1, <3>3 DEF DomainsInv, HoldsRow
    <3> QED
      BY <3>2, <3>3
  <2>9. VerifiedIsMatched'
    BY <1>1, <2>1, <2>5 DEF DomainsInv, VerifiedIsMatched
  <2> QED
    BY <2>7, <2>8, <2>9 DEF DomainsInv
<1> QED
  BY <1>2, <1>3 DEF CreateDomain

LEMMA CheckOwnershipKeeps ==
    ASSUME DomainsInv, NEW r \in DomReqs, CheckOwnership(r)
    PROVE  DomainsInv'
<1> DEFINE claim == domArg[r]
           a == [NoDomArg EXCEPT !.id = claim.id]
<1>1. /\ domPc[r] = "lookup" /\ claim.id \in DomIds
      /\ dom[claim.id].in /\ claim.id \notin reused => claim.token = dom[claim.id].token
  BY DEF CheckOwnership, DomainsInv, HoldsRow, DomSteps
<1>2. a \in DomArgRow /\ a.id = claim.id
  BY <1>1 DEF NoDomArg, DomArgRow
<1>3. domArg' = [domArg EXCEPT ![r] = a] /\ UNCHANGED <<dom, domTokens, reused>> /\ dom' \in [DomIds -> DomRow]
  BY DEF CheckOwnership, DomainsInv, DomShape
<1> HIDE DEF a
<1>4. CASE domPc' = [domPc EXCEPT ![r] = "pass"] /\ matched' = matched \union {claim.token}
  BY <1>1, <1>2, <1>3, <1>4, DomMoveKeeps DEF DomSteps
<1>5. CASE domPc' = [domPc EXCEPT ![r] = "fail"] /\ UNCHANGED matched
  BY <1>1, <1>2, <1>3, <1>5, DomReadKeeps DEF DomSteps
<1> QED
  BY <1>4, <1>5 DEF CheckOwnership

(* SetRow with a row that keeps the token.                                 *)
LEMMA SetRowFits ==
    ASSUME DomainsInv, NEW i \in DomIds, NEW row \in DomRow, SetRow(i, row),
           row.in => row.token = dom[i].token
    PROVE  /\ dom' \in [DomIds -> DomRow]
           /\ \A j \in DomIds : dom'[j].in => dom[j].in /\ dom'[j].token = dom[j].token
           /\ \A j \in DomIds : j # i => dom'[j] = dom[j]
           /\ dom'[i].in => dom'[i] = row
BY DomConstants DEF SetRow, NoDomain, DomainsInv, DomShape

(* The writes of one field.                                                *)
LEMMA RowEdits ==
    ASSUME NEW row \in DomRow
    PROVE  /\ \A v \in {"verified", "failed"} :
                /\ [row EXCEPT !.verification = v] \in DomRow
                /\ [row EXCEPT !.verification = v].token = row.token
                /\ Verified([row EXCEPT !.verification = v]) => v = "verified"
           /\ \A v \in {"active", "suspended"} :
                /\ [row EXCEPT !.status = v] \in DomRow
                /\ [row EXCEPT !.status = v].token = row.token
                /\ Verified([row EXCEPT !.status = v]) => Verified(row)
           /\ \A v \in {"issued", "failed", "overdue"} :
                /\ [row EXCEPT !.ssl = v] \in DomRow
                /\ [row EXCEPT !.ssl = v].token = row.token
                /\ Verified([row EXCEPT !.ssl = v]) => Verified(row)
BY DEF DomRow, Verified

(* A step of a request that holds row i: what is written keeps the token   *)
(* and is verified only if the row was or its token has been matched.      *)
LEMMA DomWriteKeeps ==
    ASSUME DomainsInv, NEW r \in DomReqs, domPc[r] \in DomSteps,
           NEW row \in DomRow, SetRow(domArg[r].id, row),
           row.in => row.token = dom[domArg[r].id].token,
           dom[domArg[r].id].in /\ domArg[r].id \notin reused /\ row.in /\ Verified(row)
             => Verified(dom[domArg[r].id]) \/ dom[domArg[r].id].token \in matched,
           UNCHANGED <<domTokens, matched, reused>>,
           DomReturn(r) \/ (\E l \in {"activate", "reload"} : DomGoto(r, l))
    PROVE  DomainsInv'
<1>1. domArg[r].id \in DomIds /\ domArg[r] \in DomArgRow
  BY DEF DomainsInv, HoldsRow, DomShape
<1>2. /\ dom' \in [DomIds -> DomRow]
      /\ \A j \in DomIds : dom'[j].in => dom[j].in /\ dom'[j].token = dom[j].token
      /\ \A j \in DomIds : j # domArg[r].id => dom'[j] = dom[j]
      /\ dom'[domArg[r].id].in => dom'[domArg[r].id] = row
  BY <1>1, SetRowFits
<1>3. \A i \in DomIds \ reused : dom'[i].in /\ Verified(dom'[i]) => Verified(dom[i]) \/ dom[i].token \in matched
  BY <1>1, <1>2
<1>4. CASE DomReturn(r)
  BY <1>2, <1>3, <1>4, DomMoveKeeps, DomConstants DEF DomReturn, DomSteps
<1>5. ASSUME NEW l \in {"activate", "reload"}, DomGoto(r, l) PROVE DomainsInv'
  <2>1. domArg' = [domArg EXCEPT ![r] = domArg[r]] /\ domPc' = [domPc EXCEPT ![r] = l]
    BY <1>5 DEF DomGoto, DomainsInv, DomShape
  <2>2. l \in DomSteps /\ l # "lookup" /\ l # "pass"
    BY DEF DomSteps
  <2> QED
    BY <1>1, <1>2, <1>3, <2>1, <2>2, DomMoveKeeps
<1> QED
  BY <1>4, <1>5

LEMMA HeldRow ==
    ASSUME DomainsInv, NEW r \in DomReqs, domPc[r] \in DomSteps
    PROVE  domArg[r].id \in DomIds /\ dom[domArg[r].id] \in DomRow
BY DEF DomainsInv, DomShape, HoldsRow

LEMMA DomainWritesKeep ==
    ASSUME DomainsInv, NEW r \in DomReqs,
           \/ RecordVerificationAttempt(r) \/ ActivateDomain(r) \/ IssueCertificate(r)
           \/ SuspendDomain(r) \/ RemoveDomain(r)
    PROVE  DomainsInv'
<1> DEFINE i == domArg[r].id
<1>1. domPc[r] \in DomSteps /\ UNCHANGED <<domTokens, matched, reused>>
  BY DEF RecordVerificationAttempt, ActivateDomain, IssueCertificate, SuspendDomain, RemoveDomain, DomSteps
<1>2. i \in DomIds /\ dom[i] \in DomRow
  BY <1>1, HeldRow
<1>3. CASE domPc[r] = "pass" /\ RecordVerificationAttempt(r)
  <2>1. /\ SetRow(i, [dom[i] EXCEPT !.verification = "verified"])
        /\ DomReturn(r) \/ DomGoto(r, "activate")
    BY <1>3 DEF RecordVerificationAttempt
  <2>2. dom[i].in /\ i \notin reused => dom[i].token \in matched
    BY <1>1, <1>3 DEF DomainsInv, HoldsRow
  <2> QED
    BY <1>1, <1>2, <2>1, <2>2, RowEdits, DomWriteKeeps
<1>4. CASE domPc[r] = "fail" /\ RecordVerificationAttempt(r)
  BY <1>1, <1>2, <1>4, RowEdits, DomWriteKeeps DEF RecordVerificationAttempt
<1>5. CASE ActivateDomain(r) /\ UNCHANGED dom
  <2>1. CASE DomReturn(r)
    BY <1>1, <1>5, <2>1, DomConstants, DomReadKeeps DEF DomReturn, DomSteps
  <2>2. CASE DomGoto(r, "reload")
    <3>1. domArg' = [domArg EXCEPT ![r] = domArg[r]] /\ domPc' = [domPc EXCEPT ![r] = "reload"] /\ domArg[r] \in DomArgRow
      BY <2>2 DEF DomGoto, DomainsInv, DomShape
    <3> QED
      BY <1>1, <1>2, <1>5, <3>1, DomReadKeeps DEF DomSteps
  <2> QED
    BY <1>5, <2>1, <2>2 DEF ActivateDomain
<1>6. CASE ActivateDomain(r) /\ dom' # dom
  <2>1. SetRow(i, [dom[i] EXCEPT !.status = "active"]) /\ DomGoto(r, "reload")
    BY <1>6 DEF ActivateDomain
  <2> QED
    BY <1>1, <1>2, <2>1, RowEdits, DomWriteKeeps
<1>7. CASE IssueCertificate(r)
  <2>1. PICK v \in {"issued", "failed", "overdue"} : SetRow(i, [dom[i] EXCEPT !.ssl = v])
    BY <1>7 DEF IssueCertificate, AfterFailure
  <2>2. DomReturn(r)
    BY <1>7 DEF IssueCertificate
  <2> QED
    BY <1>1, <1>2, <2>1, <2>2, RowEdits, DomWriteKeeps
<1>8. CASE SuspendDomain(r)
  BY <1>1, <1>2, <1>8, RowEdits, DomWriteKeeps DEF SuspendDomain
<1>9. CASE RemoveDomain(r)
  <2>1. ~NoDomain.in
    BY DEF NoDomain
  <2> QED
    BY <1>1, <1>2, <1>9, <2>1, DomConstants, DomWriteKeeps DEF RemoveDomain
<1> QED
  BY <1>3, <1>4, <1>5, <1>6, <1>7, <1>8, <1>9 DEF RecordVerificationAttempt

LEMMA ReloadKeeps ==
    ASSUME DomainsInv, NEW r \in DomReqs, Reload(r)
    PROVE  DomainsInv'
<1> DEFINE i == domArg[r].id
<1>1. domPc[r] \in DomSteps /\ UNCHANGED <<dom, domTokens, matched, reused>>
  BY DEF Reload, DomSteps
<1>2. i \in DomIds /\ dom[i] \in DomRow /\ domArg[r] \in DomArgRow
  BY <1>1, HeldRow DEF DomainsInv, DomShape
<1>3. CASE DomReturn(r)
  BY <1>1, <1>3, DomConstants, DomReadKeeps DEF DomReturn, DomSteps
<1>4. CASE domPc' = [domPc EXCEPT ![r] = "issue"] /\ domArg' = [domArg EXCEPT ![r].name = dom[i].name]
  <2> DEFINE a == [domArg[r] EXCEPT !.name = dom[i].name]
  <2>1. a \in DomArgRow /\ a.id = i
    BY <1>2 DEF DomArgRow, DomRow
  <2>2. domArg' = [domArg EXCEPT ![r] = a]
    BY <1>4
  <2> HIDE DEF a
  <2> QED
    BY <1>1, <1>2, <1>4, <2>1, <2>2, DomReadKeeps DEF DomSteps
<1> QED
  BY <1>3, <1>4 DEF Reload

LEMMA RenewCertificatesKeeps ==
    ASSUME DomainsInv, NEW r \in DomReqs, NEW i \in DomIds, RenewCertificates(r, i)
    PROVE  DomainsInv'
<1> DEFINE a == [id |-> i, org |-> "none", name |-> dom[i].name, token |-> 0]
<1>1. dom[i] \in DomRow
  BY DEF DomainsInv, DomShape
<1>2. a \in DomArgRow /\ a.id = i
  BY <1>1 DEF DomArgRow, DomRow
<1>3. domArg' = [domArg EXCEPT ![r] = a]
  <2>1. PICK x : x = [NoDomArg EXCEPT !.id = i]
    OBVIOUS
  <2>2. [x EXCEPT !.name = dom[i].name] = a
    <3>1. x = [id |-> i, org |-> "none", name |-> "none", token |-> 0]
      BY <2>1 DEF NoDomArg
    <3> QED
      BY <3>1
  <2>3. domArg' = [domArg EXCEPT ![r] = [x EXCEPT !.name = dom[i].name]]
    BY <2>1, Zenon DEF RenewCertificates
  <2> QED
    BY <2>2, <2>3, Zenon
<1> HIDE DEF a
<1> QED
  BY <1>2, <1>3, DomReadKeeps DEF RenewCertificates, DomSteps

LEMMA DomainsInvStep == DomainsInv /\ [DomainsNext]_domainsVars => DomainsInv'
<1> SUFFICES ASSUME DomainsInv, [DomainsNext]_domainsVars PROVE DomainsInv'
  OBVIOUS
<1>1. CASE UNCHANGED <<dom, domTokens, domPc, domArg, matched, reused>>
  BY <1>1 DEF DomainsInv, DomShape, HoldsRow, VerifiedIsMatched
<1>2. (UNCHANGED domainsVars \/ (\E i \in DomIds : Publish(i)) \/ (\E n \in DomNames : Unpublish(n)))
        => UNCHANGED <<dom, domTokens, domPc, domArg, matched, reused>>
  BY DEF domainsVars, Publish, Unpublish
<1>3. ASSUME NEW r \in DomReqs, VerifyDomain(r) PROVE DomainsInv'
  BY <1>3, CheckOwnershipKeeps, DomainWritesKeep, ReloadKeeps DEF VerifyDomain
<1> QED
  BY <1>1, <1>2, <1>3, AddDomainKeeps, DomainForOrgKeeps, RenewCertificatesKeeps, CreateDomainKeeps, DomainWritesKeep
     DEF DomainsNext

(* What the server answers for has been proven: the token of the very      *)
(* claim was found published (checkOwnership), for any names,              *)
(* organizations and requests, except where a claim was given the id of a  *)
(* row that a request in flight still held.                                *)
THEOREM DomainsAreSound == DomainsSpec => []DomainsSound
<1>1. DomainsInv => DomainsSound
  <2> SUFFICES ASSUME DomainsInv PROVE DomainsSound
    OBVIOUS
  <2>1. DomainsTypeOK
    BY DEF DomainsInv, DomShape, DomRow, DomainsTypeOK
  <2>2. ServableIsProven
    BY DEF DomainsInv, VerifiedIsMatched, ServableIsProven, ResolveServableDomain, Servable
  <2> QED
    BY <2>1, <2>2 DEF DomainsSound
<1> QED
  BY <1>1, DomainsInvInit, DomainsInvStep, PTL DEF DomainsSpec


-----------------------------------------------------------------------------
(* TLS certificates, with the http-01 challenge.                           *)
(*                                                                         *)
(* Up to three callers are in IssueFor at once.  What keeps them from      *)
(* spoiling each other's challenge is that each holds an order of its own; *)
(* what keeps a half written pair, or the pair of another order, away from *)
(* the listener is that only files that parse as a pair are looked at, and *)
(* that no managed file can be mistaken for the system's.                  *)

CertSpec == CertInit /\ [][CertNext]_certVars

Pair == [host : CertHosts \cup {""}, order : -2..MaxOrders, until : Int]
IssuerSteps == {"idle", "solve", "wait", "finalize", "key", "parse"}
IssuerRow == [at : IssuerSteps, host : CertHosts \cup {""}, order : 0..MaxOrders, todo : SUBSET CertHosts]

CertCounters ==
    /\ tlsUp \in BOOLEAN /\ certClock \in Nat
    /\ orderCount \in 0..MaxOrders /\ certFaults \in 0..CertFaults

(* A managed file names its host; only certbot's pair has the order -2.    *)
FilesInv ==
    /\ chainFile \in [CertHosts -> Pair]
    /\ keyFile \in [CertHosts -> -1..MaxOrders]
    /\ \A h \in CertHosts : chainFile[h].order # -2 /\ (chainFile[h] # NoPair => chainFile[h].host = h)
    /\ foreign \in [explicit : {NoPair}, system : Pair, local : {NoPair}]
    /\ foreign.system # NoPair => foreign.system.order = -2

Working(w) == issuer[w].at # "idle"

(* Callers work only while the server is up, each on an order of its own.  *)
IssuersInv ==
    /\ issuer \in [Issuers -> IssuerRow]
    /\ \A w \in Issuers : Working(w) => tlsUp /\ issuer[w].host \in CertHosts /\ issuer[w].order \in 1..orderCount
    /\ \A v, w \in Issuers : Working(v) /\ Working(w) /\ issuer[v].order = issuer[w].order => v = w

(* The responder of an order, and the responders there should be.          *)
ArmedFor(n) == [at |-> n, order |-> n]
TokensInv ==
    CertChallenge = "http-01" =>
        \A a : a \in armed <=> \E v \in Issuers : issuer[v].at = "wait" /\ a = ArmedFor(issuer[v].order)

CertInv == CertCounters /\ FilesInv /\ IssuersInv /\ ServesOwnPair /\ TokensInv

LEMMA ArmedForOrder == \A n : ArmedFor(n).at = n
BY DEF ArmedFor

LEMMA TokensAreResponders == TokensInv => ResponderTracksOrders
BY DEF TokensInv, ResponderTracksOrders, Responder, ArmedFor

LEMMA HttpResponder ==
    ASSUME CertChallenge = "http-01", NEW w
    PROVE  /\ Responder(w) = issuer[w].order
           /\ [at |-> Responder(w), order |-> issuer[w].order] = ArmedFor(issuer[w].order)
BY DEF Responder, ArmedFor

LEMMA CertBounds == CertLife \in Nat /\ MaxOrders \in Nat /\ CertFaults \in Nat
BY CertAssumption, Zenon

LEMMA CertConstants ==
    /\ NoPair \in Pair /\ IssuerIdle \in IssuerRow /\ NoPair.order = 0 /\ NoPair.order # -2 /\ NoPair.host = ""
    /\ IssuerIdle.at = "idle" /\ 0 \in 0..MaxOrders /\ 0 \in 0..CertFaults
<1>1. 0 \in 0..MaxOrders /\ 0 \in 0..CertFaults /\ 0 \in -2..MaxOrders
  BY CertBounds
<1>2. NoPair \in Pair /\ NoPair.order = 0 /\ NoPair.order # -2 /\ NoPair.host = ""
  BY <1>1 DEF NoPair, Pair
<1>3. IssuerIdle \in IssuerRow /\ IssuerIdle.at = "idle"
  BY <1>1 DEF IssuerIdle, IssuerRow, IssuerSteps
<1> QED
  BY <1>1, <1>2, <1>3

(* The pairs found at the start: the managed one and certbot's.            *)
LEMMA OldManagedPair ==
    ASSUME NEW t \in Int, NEW p, p = [host |-> CertFqdn, order |-> -1, until |-> t]
    PROVE  p \in Pair /\ p.order # -2 /\ p.host = CertFqdn
<1>1. CertFqdn \in CertHosts
  BY CertAssumption, Zenon
<1>2. -1 \in -2..MaxOrders
  BY CertBounds
<1>3. p \in Pair
  BY <1>1, <1>2 DEF Pair
<1>4. p.order = -1 /\ p.host = CertFqdn
  OBVIOUS
<1>5. -1 # -2
  OBVIOUS
<1> QED
  BY <1>3, <1>4, <1>5, Zenon

LEMMA OldSystemPair ==
    ASSUME NEW t \in Int, NEW p, p = [host |-> CertFqdn, order |-> -2, until |-> t]
    PROVE  p \in Pair /\ p.order = -2
<1>1. CertFqdn \in CertHosts
  BY CertAssumption, Zenon
<1>2. -2 \in -2..MaxOrders
  BY CertBounds
<1> QED
  BY <1>1, <1>2 DEF Pair

LEMMA CertInvInit == CertInit => CertInv
<1> SUFFICES ASSUME CertInit PROVE CertInv
  OBVIOUS
<1>1. CertCounters
  BY CertConstants DEF CertInit, CertCounters
<1>2. PICK due \in {1, 1 + CertLife} :
        \E h0 \in {NoPair, [host |-> CertFqdn, order |-> -1, until |-> due]} :
          chainFile = [h \in CertHosts |-> IF h = CertFqdn THEN h0 ELSE NoPair]
  BY DEF CertInit
<1>3. PICK h0 \in {NoPair, [host |-> CertFqdn, order |-> -1, until |-> due]} :
        chainFile = [h \in CertHosts |-> IF h = CertFqdn THEN h0 ELSE NoPair]
  BY <1>2
<1>4. h0 \in Pair /\ h0.order # -2 /\ (h0 # NoPair => h0.host = CertFqdn)
  <2> DEFINE p == [host |-> CertFqdn, order |-> -1, until |-> due]
  <2>1. due \in Int
    BY <1>2, CertBounds
  <2>2. p \in Pair /\ p.order # -2 /\ p.host = CertFqdn
    BY <2>1, OldManagedPair
  <2>3. h0 = NoPair \/ h0 = p
    BY <1>3
  <2> HIDE DEF p
  <2> QED
    BY <2>2, <2>3, CertConstants
<1>5. PICK s \in {NoPair, [host |-> CertFqdn, order |-> -2, until |-> 1]} :
        foreign = [explicit |-> NoPair, system |-> s, local |-> NoPair]
  BY DEF CertInit
<1>6. s \in Pair /\ (s # NoPair => s.order = -2)
  <2> DEFINE p == [host |-> CertFqdn, order |-> -2, until |-> 1]
  <2>1. p \in Pair /\ p.order = -2
    BY OldSystemPair
  <2>2. s = NoPair \/ s = p
    BY <1>5
  <2> HIDE DEF p
  <2> QED
    BY <2>1, <2>2, CertConstants
<1>7. keyFile \in [CertHosts -> -1..MaxOrders]
  <2>1. 0 \in -1..MaxOrders /\ -1 \in -1..MaxOrders
    BY CertBounds
  <2> QED
    BY <2>1 DEF CertInit
<1>8. \A h \in CertHosts : chainFile[h] = (IF h = CertFqdn THEN h0 ELSE NoPair)
  BY <1>3
<1>9. FilesInv
  <2>1. chainFile \in [CertHosts -> Pair]
    BY <1>3, <1>4, CertConstants
  <2>2. \A h \in CertHosts : chainFile[h].order # -2 /\ (chainFile[h] # NoPair => chainFile[h].host = h)
    BY <1>4, <1>8, CertConstants
  <2>3. foreign \in [explicit : {NoPair}, system : Pair, local : {NoPair}] /\ foreign.system = s
    BY <1>5, <1>6
  <2> QED
    BY <1>6, <1>7, <2>1, <2>2, <2>3 DEF FilesInv
<1>10. \A w \in Issuers : issuer[w] = IssuerIdle
  BY DEF CertInit
<1>11. IssuersInv
  BY <1>10, CertConstants DEF IssuersInv, Working, CertInit
<1>12. ServesOwnPair
  BY DEF CertInit, ServesOwnPair
<1>13. TokensInv
  BY <1>10, CertConstants DEF CertInit, TokensInv
<1> QED
  BY <1>1, <1>9, <1>11, <1>12, <1>13 DEF CertInv

-----------------------------------------------------------------------------
(* What the callers' moves leave in issuer.                                *)
LEMMA MovedRow ==
    ASSUME IssuersInv, NEW w \in Issuers, NEW s \in IssuerSteps, IssuerMove(w, s)
    PROVE  \E row \in IssuerRow :
             /\ issuer' = [issuer EXCEPT ![w] = row]
             /\ row.at = s /\ row.host = issuer[w].host /\ row.order = issuer[w].order
<1> DEFINE row == [issuer[w] EXCEPT !.at = s]
<1>1. row \in IssuerRow /\ row.at = s /\ row.host = issuer[w].host /\ row.order = issuer[w].order
  BY DEF IssuersInv, IssuerRow
<1>2. issuer' = [issuer EXCEPT ![w] = row]
  BY DEF IssuerMove, IssuersInv
<1> QED
  BY <1>1, <1>2

LEMMA DoneRow ==
    ASSUME IssuersInv, NEW w \in Issuers, IssuerDone(w)
    PROVE  \E row \in IssuerRow : issuer' = [issuer EXCEPT ![w] = row] /\ row.at = "idle"
<1> DEFINE row == [IssuerIdle EXCEPT !.todo = issuer[w].todo]
<1>1. issuer[w].todo \subseteq CertHosts
  BY DEF IssuersInv, IssuerRow
<1>2. row \in IssuerRow /\ row.at = "idle"
  BY <1>1, CertConstants DEF IssuerIdle, IssuerRow, IssuerSteps
<1>3. issuer' = [issuer EXCEPT ![w] = row]
  BY DEF IssuerDone
<1> QED
  BY <1>2, <1>3

(* A caller's row is replaced.                                             *)
LEMMA RowKeeps ==
    ASSUME IssuersInv, NEW w \in Issuers, NEW row \in IssuerRow, issuer' = [issuer EXCEPT ![w] = row],
           orderCount \in Nat, orderCount' \in Nat, orderCount' >= orderCount, tlsUp => tlsUp',
           row.at # "idle" =>
             /\ tlsUp' /\ row.host \in CertHosts /\ row.order \in 1..orderCount'
             /\ \A v \in Issuers : v # w /\ Working(v) => issuer[v].order # row.order
    PROVE  /\ IssuersInv'
           /\ issuer'[w] = row /\ \A v \in Issuers : v # w => issuer'[v] = issuer[v]
<1>1. issuer'[w] = row /\ (\A v \in Issuers : v # w => issuer'[v] = issuer[v]) /\ issuer' \in [Issuers -> IssuerRow]
  BY DEF IssuersInv
<1>2. ASSUME NEW v \in Issuers, issuer'[v].at # "idle"
      PROVE  tlsUp' /\ issuer'[v].host \in CertHosts /\ issuer'[v].order \in 1..orderCount'
  <2>1. CASE v = w
    BY <1>1, <1>2, <2>1
  <2>2. CASE v # w
    BY <1>1, <1>2, <2>2 DEF IssuersInv, Working
  <2> QED
    BY <2>1, <2>2
<1>3. ASSUME NEW v \in Issuers, NEW u \in Issuers, issuer'[v].at # "idle", issuer'[u].at # "idle",
             issuer'[v].order = issuer'[u].order
      PROVE  v = u
  BY <1>1, <1>3 DEF IssuersInv, Working
<1> QED
  BY <1>1, <1>2, <1>3 DEF IssuersInv, Working

(* Nobody starts or stops waiting, and the responders stay.                *)
LEMMA SameTokens ==
    ASSUME TokensInv, NEW w \in Issuers, issuer[w].at # "wait", issuer'[w].at # "wait",
           \A v \in Issuers : v # w => issuer'[v] = issuer[v], armed' = armed
    PROVE  TokensInv'
BY DEF TokensInv

-----------------------------------------------------------------------------
(* The lookup.                                                             *)

(* Whatever the lookup finds names this server, and is certbot's pair or   *)
(* the managed one with the key that fits it.                              *)
LEMMA DiscoveredIsUsable ==
    ASSUME FilesInv, DiscoverAt # NoPair
    PROVE  /\ DiscoverAt.host = CertFqdn
           /\ \/ DiscoverAt = foreign.system
              \/ ParseCandidate(CertFqdn) /\ DiscoverAt = chainFile[CertFqdn]
<1> DEFINE C == Candidates
           usable == {i \in DOMAIN C : ValidateCert(C[i])}
<1>1. C = <<foreign.system, ManagedPair(CertFqdn), foreign.local>> /\ foreign.local = NoPair
  BY DEF Candidates, FilesInv
<1>2. DOMAIN C = 1..3 /\ C[1] = foreign.system /\ C[2] = ManagedPair(CertFqdn) /\ C[3] = NoPair
  BY <1>1
<1>3. DiscoverAt = IF usable = {} THEN NoPair ELSE C[CHOOSE i \in usable : \A j \in usable : i <= j]
  BY DEF DiscoverAt
<1> HIDE DEF C
<1>4. usable # {} /\ usable \subseteq {1, 2, 3}
  BY <1>2, <1>3
<1>5. \E i \in usable : \A j \in usable : i <= j
  <2> HIDE DEF usable
  <2>1. CASE 1 \in usable
    BY <1>4, <2>1
  <2>2. CASE 1 \notin usable /\ 2 \in usable
    BY <1>4, <2>2
  <2>3. CASE 1 \notin usable /\ 2 \notin usable
    <3>1. \A j \in usable : j = 3
      BY <1>4, <2>3
    <3>2. 3 \in usable
      BY <1>4, <3>1
    <3> QED
      BY <3>1, <3>2
  <2> QED
    BY <2>1, <2>2, <2>3
<1>6. PICK i \in usable : DiscoverAt = C[i]
  BY <1>3, <1>4, <1>5, Zenon
<1>7. ValidateCert(C[i]) /\ i \in {1, 2, 3}
  BY <1>4, <1>6
<1>8. DiscoverAt.host = CertFqdn
  BY <1>6, <1>7 DEF ValidateCert
<1>9. DiscoverAt \in {foreign.system, ManagedPair(CertFqdn)}
  BY <1>2, <1>6, <1>7
<1> QED
  BY <1>8, <1>9 DEF ManagedPair

LEMMA OpenedServesOwnPair ==
    ASSUME FilesInv, OpenTLS
    PROVE  ServesOwnPair'
<1>1. CASE DiscoverAt = NoPair
  BY <1>1 DEF OpenTLS, ServesOwnPair
<1>2. CASE DiscoverAt # NoPair
  <2> DEFINE key == IF DiscoverAt = chainFile[CertFqdn] THEN keyFile[CertFqdn] ELSE DiscoverAt.order
  <2>1. served' = [cert |-> DiscoverAt, key |-> key]
    BY <1>2 DEF OpenTLS, PairOf
  <2>2. CertFqdn \in CertHosts
    BY CertAssumption, Zenon
  <2>3. key = DiscoverAt.order
    BY <1>2, <2>2, DiscoveredIsUsable DEF FilesInv, ParseCandidate
  <2>4. DiscoverAt.host = CertFqdn
    BY <1>2, DiscoveredIsUsable
  <2> HIDE DEF key
  <2> QED
    BY <2>1, <2>3, <2>4 DEF ServesOwnPair
<1> QED
  BY <1>1, <1>2

-----------------------------------------------------------------------------
(* The actions.                                                            *)

LEMMA PlacedOrder ==
    ASSUME CertInv, NEW w \in Issuers, NEW h \in CertHosts, NEW todo \in SUBSET CertHosts,
           PlaceOrder(w, h, todo), issuer[w].at = "idle", tlsUp', armed' = armed
    PROVE  IssuersInv' /\ TokensInv' /\ orderCount' \in 0..MaxOrders
<1> DEFINE row == [at |-> "solve", host |-> h, order |-> orderCount + 1, todo |-> todo]
<1>1. /\ orderCount \in Nat /\ orderCount' = orderCount + 1 /\ orderCount' \in 0..MaxOrders /\ orderCount' \in Nat
      /\ orderCount + 1 \in 1..orderCount'
  BY CertBounds DEF CertInv, CertCounters, PlaceOrder
<1>2. row \in IssuerRow /\ row.at = "solve" /\ row.host = h /\ row.order = orderCount + 1
  BY <1>1 DEF IssuerRow, IssuerSteps
<1>3. issuer' = [issuer EXCEPT ![w] = row]
  BY DEF PlaceOrder
<1>4. \A v \in Issuers : Working(v) => issuer[v].order # orderCount + 1
  BY <1>1 DEF CertInv, IssuersInv
<1>5. orderCount' >= orderCount /\ IssuersInv
  BY <1>1 DEF CertInv
<1> HIDE DEF row
<1>6. IssuersInv' /\ issuer'[w] = row /\ \A v \in Issuers : v # w => issuer'[v] = issuer[v]
  BY <1>1, <1>2, <1>3, <1>4, <1>5, RowKeeps
<1>7. TokensInv'
  BY <1>2, <1>6, SameTokens DEF CertInv
<1> QED
  BY <1>1, <1>6, <1>7

LEMMA OpenTLSKeeps == ASSUME CertInv, OpenTLS PROVE CertInv'
<1>1. FilesInv'
  BY DEF CertInv, FilesInv, OpenTLS, ParseCandidate
<1>2. ServesOwnPair'
  BY OpenedServesOwnPair DEF CertInv
<1>3. tlsUp' \in BOOLEAN /\ ~tlsUp /\ armed' = armed
  BY DEF OpenTLS
<1>4. IssuersInv' /\ TokensInv' /\ orderCount' \in 0..MaxOrders
  <2>1. CASE DiscoverAt = NoPair /\ ACMEEnabled
    <3>1. PlaceOrder("first", CertFqdn, {}) /\ tlsUp'
      BY <2>1 DEF OpenTLS
    <3>2. "first" \in Issuers /\ CertFqdn \in CertHosts
      BY CertAssumption, Zenon DEF Issuers
    <3>3. issuer["first"].at = "idle"
      BY <1>3, <3>2 DEF CertInv, IssuersInv, Working
    <3> QED
      BY <1>3, <3>1, <3>2, <3>3, PlacedOrder
  <2>2. CASE ~(DiscoverAt = NoPair /\ ACMEEnabled)
    BY <1>3, <2>2 DEF OpenTLS, CertInv, CertCounters, IssuersInv, Working, TokensInv
  <2> QED
    BY <2>1, <2>2
<1> QED
  BY <1>1, <1>2, <1>3, <1>4 DEF CertInv, CertCounters, OpenTLS

(* The steps that only move one caller.                                    *)
LEMMA CallerKeeps ==
    ASSUME CertInv, NEW w \in Issuers, NEW row \in IssuerRow, issuer' = [issuer EXCEPT ![w] = row],
           row.at = "idle" \/ (Working(w) /\ row.host = issuer[w].host /\ row.order = issuer[w].order),
           UNCHANGED <<tlsUp, orderCount>>
    PROVE  IssuersInv' /\ issuer'[w] = row /\ \A v \in Issuers : v # w => issuer'[v] = issuer[v]
<1>1. orderCount \in Nat /\ orderCount' \in Nat /\ orderCount' >= orderCount
  BY DEF CertInv, CertCounters
<1>2. IssuersInv /\ (tlsUp => tlsUp')
  BY DEF CertInv
<1>3. row.at # "idle" =>
        /\ tlsUp' /\ row.host \in CertHosts /\ row.order \in 1..orderCount'
        /\ \A v \in Issuers : v # w /\ Working(v) => issuer[v].order # row.order
  BY DEF CertInv, IssuersInv
<1> QED
  BY <1>1, <1>2, <1>3, RowKeeps

LEMMA StartRenewAllKeeps == ASSUME CertInv, StartRenewAll PROVE CertInv'
<1> DEFINE row == [issuer["renewal"] EXCEPT !.todo = ManagedDue]
<1>1. "renewal" \in Issuers /\ ManagedDue \subseteq CertHosts /\ issuer["renewal"] = IssuerIdle
  BY DEF Issuers, ManagedDue, StartRenewAll
<1>2. row \in IssuerRow /\ row.at = "idle"
  BY <1>1, CertConstants DEF IssuerRow
<1>3. issuer' = [issuer EXCEPT !["renewal"] = row]
  BY <1>1 DEF StartRenewAll, CertInv, IssuersInv
<1> HIDE DEF row
<1>4. IssuersInv' /\ issuer'["renewal"] = row /\ \A v \in Issuers : v # "renewal" => issuer'[v] = issuer[v]
  BY <1>1, <1>2, <1>3, CallerKeeps DEF StartRenewAll
<1>5. TokensInv'
  BY <1>1, <1>2, <1>4, CertConstants, SameTokens DEF CertInv, StartRenewAll
<1> QED
  BY <1>4, <1>5 DEF CertInv, CertCounters, FilesInv, ServesOwnPair, StartRenewAll

LEMMA OrdersKeep == ASSUME CertInv, RenewNext \/ IssueForDomain PROVE CertInv'
<1>1. PICK w \in Issuers, h \in CertHosts, todo \in SUBSET CertHosts :
        PlaceOrder(w, h, todo) /\ IssuerAt(w, "idle")
  <2>1. "renewal" \in Issuers /\ "domain" \in Issuers
    BY DEF Issuers
  <2>2. issuer["renewal"].todo \subseteq CertHosts
    BY <2>1 DEF CertInv, IssuersInv, IssuerRow
  <2>3. CASE RenewNext
    BY <2>1, <2>2, <2>3 DEF RenewNext
  <2>4. CASE IssueForDomain
    BY <2>1, <2>4 DEF IssueForDomain
  <2> QED
    BY <2>3, <2>4
<1>2. UNCHANGED <<chainFile, keyFile, foreign, served, armed, tlsUp, certClock, certFaults>>
  BY DEF RenewNext, IssueForDomain
<1>3. IssuersInv' /\ TokensInv' /\ orderCount' \in 0..MaxOrders
  BY <1>1, <1>2, PlacedOrder DEF IssuerAt
<1> QED
  BY <1>2, <1>3 DEF CertInv, CertCounters, FilesInv, ServesOwnPair

(* Taking a caller's own responder away leaves the others' alone, since    *)
(* their orders differ.                                                    *)
LEMMA DisarmedTokens ==
    ASSUME CertInv, NEW w \in Issuers, Working(w), Disarm(w),
           issuer'[w].at # "wait", \A v \in Issuers : v # w => issuer'[v] = issuer[v]
    PROVE  TokensInv'
<1> SUFFICES ASSUME CertChallenge = "http-01"
             PROVE  \A a : a \in armed' <=> \E v \in Issuers : issuer'[v].at = "wait" /\ a = ArmedFor(issuer'[v].order)
  BY DEF TokensInv
<1>1. armed' = {a \in armed : a.at # issuer[w].order}
  BY HttpResponder DEF Disarm
<1>2. \A v \in Issuers : v # w /\ issuer[v].at = "wait" => issuer[v].order # issuer[w].order
  BY DEF CertInv, IssuersInv, Working
<1>3. ASSUME NEW a PROVE a \in armed' <=> \E v \in Issuers : issuer'[v].at = "wait" /\ a = ArmedFor(issuer'[v].order)
  <2>1. ASSUME a \in armed' PROVE \E v \in Issuers : issuer'[v].at = "wait" /\ a = ArmedFor(issuer'[v].order)
    <3>1. PICK v \in Issuers : issuer[v].at = "wait" /\ a = ArmedFor(issuer[v].order)
      BY <1>1, <2>1 DEF CertInv, TokensInv
    <3>2. v # w
      BY <1>1, <2>1, <3>1, ArmedForOrder
    <3> QED
      BY <3>1, <3>2
  <2>2. ASSUME NEW v \in Issuers, issuer'[v].at = "wait", a = ArmedFor(issuer'[v].order) PROVE a \in armed'
    <3>1. v # w /\ issuer[v].at = "wait" /\ a = ArmedFor(issuer[v].order)
      BY <2>2
    <3>2. a \in armed /\ a.at = issuer[v].order
      BY <3>1, ArmedForOrder DEF CertInv, TokensInv
    <3> QED
      BY <1>1, <1>2, <3>1, <3>2
  <2> QED
    BY <2>1, <2>2
<1> QED
  BY <1>3

LEMMA PrepareChallengeKeeps ==
    ASSUME CertInv, NEW w \in Issuers, PrepareChallenge(w) PROVE CertInv'
<1>1. /\ issuer[w].at = "solve"
      /\ UNCHANGED <<chainFile, keyFile, foreign, served, tlsUp, certClock, orderCount, certFaults>>
  BY DEF PrepareChallenge, IssuerAt
<1>2. PICK row \in IssuerRow :
        /\ issuer' = [issuer EXCEPT ![w] = row]
        /\ row.at = "idle" \/ (row.host = issuer[w].host /\ row.order = issuer[w].order)
        /\ CertChallenge = "http-01" => row.at = "wait" /\ row.order = issuer[w].order
  <2>1. CASE CertChallenge = "dns-01"
    BY <2>1, DoneRow DEF CertInv, PrepareChallenge
  <2>2. CASE CertChallenge # "dns-01"
    BY <2>2, MovedRow DEF CertInv, IssuerSteps, PrepareChallenge
  <2> QED
    BY <2>1, <2>2
<1>3. IssuersInv' /\ issuer'[w] = row /\ \A v \in Issuers : v # w => issuer'[v] = issuer[v]
  BY <1>1, <1>2, CallerKeeps DEF Working
<1>4. \A v \in Issuers : issuer[v].at = "wait" => v # w /\ issuer[v].order # issuer[w].order
  BY <1>1 DEF CertInv, IssuersInv, Working
<1>5. ASSUME CertChallenge = "http-01" PROVE TokensInv'
  <2>1. \A a \in armed : a.at # issuer[w].order
    BY <1>4, <1>5, ArmedForOrder DEF CertInv, TokensInv
  <2>2. armed' = {a \in armed : a.at # issuer[w].order} \union {ArmedFor(issuer[w].order)}
    BY <1>5, HttpResponder DEF PrepareChallenge
  <2>3. armed' = armed \union {ArmedFor(issuer[w].order)}
    BY <2>1, <2>2
  <2> QED
    BY <1>2, <1>3, <1>4, <1>5, <2>3 DEF CertInv, TokensInv
<1>6. TokensInv'
  BY <1>5 DEF TokensInv
<1> QED
  BY <1>1, <1>3, <1>6 DEF CertInv, CertCounters, FilesInv, ServesOwnPair

LEMMA AlreadyAuthorizedKeeps ==
    ASSUME CertInv, NEW w \in Issuers, AlreadyAuthorized(w) PROVE CertInv'
<1>1. issuer[w].at = "solve" /\ IssuerMove(w, "finalize")
  BY DEF AlreadyAuthorized, IssuerAt
<1>2. PICK row \in IssuerRow :
        /\ issuer' = [issuer EXCEPT ![w] = row]
        /\ row.at = "finalize" /\ row.host = issuer[w].host /\ row.order = issuer[w].order
  BY <1>1, MovedRow DEF CertInv, IssuerSteps
<1>3. IssuersInv' /\ issuer'[w] = row /\ \A v \in Issuers : v # w => issuer'[v] = issuer[v]
  BY <1>1, <1>2, CallerKeeps DEF Working, AlreadyAuthorized
<1>4. TokensInv'
  BY <1>1, <1>2, <1>3, SameTokens DEF CertInv, AlreadyAuthorized
<1> QED
  BY <1>3, <1>4 DEF CertInv, CertCounters, FilesInv, ServesOwnPair, AlreadyAuthorized

LEMMA WaitAuthorizationKeeps ==
    ASSUME CertInv, NEW w \in Issuers, WaitAuthorization(w) PROVE CertInv'
<1>1. issuer[w].at = "wait" /\ Disarm(w)
  BY DEF WaitAuthorization, IssuerAt, DisarmFailed
<1>2. PICK row \in IssuerRow :
        /\ issuer' = [issuer EXCEPT ![w] = row] /\ row.at # "wait"
        /\ row.at = "idle" \/ (row.host = issuer[w].host /\ row.order = issuer[w].order)
  <2>1. CASE IssuerMove(w, "finalize")
    BY <2>1, MovedRow DEF CertInv, IssuerSteps
  <2>2. CASE IssuerDone(w)
    BY <2>2, DoneRow DEF CertInv
  <2> QED
    BY <2>1, <2>2 DEF WaitAuthorization
<1>3. IssuersInv' /\ issuer'[w] = row /\ \A v \in Issuers : v # w => issuer'[v] = issuer[v]
  BY <1>1, <1>2, CallerKeeps DEF Working, WaitAuthorization
<1>4. TokensInv'
  BY <1>1, <1>2, <1>3, DisarmedTokens DEF Working
<1> QED
  BY <1>3, <1>4 DEF CertInv, CertCounters, FilesInv, ServesOwnPair, WaitAuthorization

LEMMA CAFailsKeeps ==
    ASSUME CertInv, NEW w \in Issuers, CAFails(w) PROVE CertInv'
<1>1. Working(w) /\ IssuerDone(w) /\ certFaults' \in 0..CertFaults
  BY CertBounds DEF CAFails, Working, CertInv, CertCounters
<1>2. PICK row \in IssuerRow : issuer' = [issuer EXCEPT ![w] = row] /\ row.at = "idle"
  BY <1>1, DoneRow DEF CertInv
<1>3. IssuersInv' /\ issuer'[w] = row /\ \A v \in Issuers : v # w => issuer'[v] = issuer[v]
  BY <1>2, CallerKeeps DEF CAFails
<1>4. TokensInv'
  <2>1. CASE issuer[w].at = "wait"
    BY <1>1, <1>2, <1>3, <2>1, DisarmedTokens DEF CAFails, DisarmFailed
  <2>2. CASE issuer[w].at # "wait"
    BY <1>2, <1>3, <2>2, SameTokens DEF CertInv, CAFails
  <2> QED
    BY <2>1, <2>2
<1> QED
  BY <1>1, <1>3, <1>4 DEF CertInv, CertCounters, FilesInv, ServesOwnPair, CAFails

LEMMA WriteChainKeeps ==
    ASSUME CertInv, NEW w \in Issuers, WriteChain(w) PROVE CertInv'
<1> DEFINE h == issuer[w].host
           p == [host |-> h, order |-> issuer[w].order, until |-> certClock + CertLife]
<1>1. issuer[w].at = "finalize" /\ IssuerMove(w, "key")
  BY DEF WriteChain, IssuerAt
<1>2. PICK row \in IssuerRow :
        /\ issuer' = [issuer EXCEPT ![w] = row]
        /\ row.at = "key" /\ row.host = issuer[w].host /\ row.order = issuer[w].order
  BY <1>1, MovedRow DEF CertInv, IssuerSteps
<1>3. IssuersInv' /\ issuer'[w] = row /\ \A v \in Issuers : v # w => issuer'[v] = issuer[v]
  BY <1>1, <1>2, CallerKeeps DEF Working, WriteChain
<1>4. TokensInv'
  BY <1>1, <1>2, <1>3, SameTokens DEF CertInv, WriteChain
<1>5. h \in CertHosts /\ issuer[w].order \in 1..orderCount
  BY <1>1 DEF CertInv, IssuersInv, Working
<1>6. issuer[w].order \in -2..MaxOrders /\ issuer[w].order # -2 /\ certClock + CertLife \in Int
  BY <1>5, CertBounds DEF CertInv, CertCounters
<1>7. p \in Pair /\ p.order # -2 /\ p.host = h
  <2>1. p \in Pair
    BY <1>5, <1>6 DEF Pair
  <2>2. p.order = issuer[w].order /\ p.host = h
    OBVIOUS
  <2> QED
    BY <1>6, <2>1, <2>2, Zenon
<1>8. chainFile' = [chainFile EXCEPT ![h] = p]
  BY DEF WriteChain
<1> HIDE DEF h, p
<1>9. /\ chainFile' \in [CertHosts -> Pair]
      /\ \A g \in CertHosts : chainFile'[g] = IF g = h THEN p ELSE chainFile[g]
  BY <1>7, <1>8 DEF CertInv, FilesInv
<1>10. FilesInv'
  BY <1>7, <1>9 DEF CertInv, FilesInv, WriteChain
<1> QED
  BY <1>3, <1>4, <1>10 DEF CertInv, CertCounters, ServesOwnPair, WriteChain

LEMMA WritePrivateKeyKeeps ==
    ASSUME CertInv, NEW w \in Issuers, WritePrivateKey(w) PROVE CertInv'
<1>1. issuer[w].at = "key" /\ IssuerMove(w, "parse")
  BY DEF WritePrivateKey, IssuerAt
<1>2. PICK row \in IssuerRow :
        /\ issuer' = [issuer EXCEPT ![w] = row]
        /\ row.at = "parse" /\ row.host = issuer[w].host /\ row.order = issuer[w].order
  BY <1>1, MovedRow DEF CertInv, IssuerSteps
<1>3. IssuersInv' /\ issuer'[w] = row /\ \A v \in Issuers : v # w => issuer'[v] = issuer[v]
  BY <1>1, <1>2, CallerKeeps DEF Working, WritePrivateKey
<1>4. TokensInv'
  BY <1>1, <1>2, <1>3, SameTokens DEF CertInv, WritePrivateKey
<1>5. issuer[w].order \in 1..orderCount
  BY <1>1 DEF CertInv, IssuersInv, Working
<1>6. issuer[w].order \in -1..MaxOrders
  BY <1>5, CertBounds DEF CertInv, CertCounters
<1>7. keyFile' \in [CertHosts -> -1..MaxOrders]
  BY <1>6 DEF CertInv, FilesInv, WritePrivateKey
<1> QED
  BY <1>3, <1>4, <1>7 DEF CertInv, CertCounters, FilesInv, ServesOwnPair, WritePrivateKey

LEMMA InstallIssuedKeeps ==
    ASSUME CertInv, NEW w \in Issuers, InstallIssued(w) PROVE CertInv'
<1> DEFINE h == issuer[w].host
<1>1. issuer[w].at = "parse" /\ IssuerDone(w)
  BY DEF InstallIssued, IssuerAt
<1>2. PICK row \in IssuerRow : issuer' = [issuer EXCEPT ![w] = row] /\ row.at = "idle"
  BY <1>1, DoneRow DEF CertInv
<1>3. IssuersInv' /\ issuer'[w] = row /\ \A v \in Issuers : v # w => issuer'[v] = issuer[v]
  BY <1>2, CallerKeeps DEF InstallIssued
<1>4. TokensInv'
  BY <1>1, <1>2, <1>3, SameTokens DEF CertInv, InstallIssued
<1>5. ServesOwnPair'
  <2>1. h \in CertHosts
    BY <1>1 DEF CertInv, IssuersInv, Working
  <2>2. CASE ParseCandidate(h) /\ h = CertFqdn
    <3>1. served' = [cert |-> chainFile[h], key |-> keyFile[h]]
      BY <2>2 DEF InstallIssued, PairOf, OwnHost
    <3>2. chainFile[h].host = CertFqdn /\ keyFile[h] = chainFile[h].order
      BY <2>1, <2>2 DEF ParseCandidate, CertInv, FilesInv
    <3> QED
      BY <3>1, <3>2 DEF ServesOwnPair
  <2>3. CASE ~(ParseCandidate(h) /\ h = CertFqdn)
    BY <2>3 DEF InstallIssued, OwnHost, CertInv, ServesOwnPair
  <2> QED
    BY <2>2, <2>3
<1> QED
  BY <1>3, <1>4, <1>5 DEF CertInv, CertCounters, FilesInv, InstallIssued

LEMMA KillTLSKeeps == ASSUME CertInv, KillTLS PROVE CertInv'
<1>1. \A w \in Issuers : issuer'[w] = IssuerIdle
  BY DEF KillTLS
<1>2. issuer' \in [Issuers -> IssuerRow]
  BY CertConstants DEF KillTLS
<1>3. IssuersInv'
  BY <1>1, <1>2, CertConstants DEF IssuersInv, Working
<1>4. TokensInv'
  BY <1>1, CertConstants DEF TokensInv, KillTLS
<1>5. certFaults' \in 0..CertFaults /\ tlsUp' = FALSE
  BY CertBounds DEF KillTLS, CertInv, CertCounters
<1>6. ServesOwnPair'
  BY DEF ServesOwnPair, KillTLS
<1> QED
  BY <1>3, <1>4, <1>5, <1>6 DEF CertInv, CertCounters, FilesInv, KillTLS

LEMMA CertbotRenewsKeeps == ASSUME CertInv, CertbotRenews PROVE CertInv'
<1> DEFINE t == certClock + CertLife
           s == [foreign.system EXCEPT !.until = t]
<1>1. t \in Int /\ foreign.system \in Pair /\ foreign.system.order = -2
  BY CertBounds DEF CertInv, CertCounters, FilesInv, CertbotRenews
<1> HIDE DEF t
<1>2. s \in Pair /\ s.order = foreign.system.order
  BY <1>1 DEF Pair
<1>3. foreign' = [foreign EXCEPT !.system = s]
  BY DEF CertbotRenews, CertInv, FilesInv, t
<1> HIDE DEF s
<1>4. foreign' \in [explicit : {NoPair}, system : Pair, local : {NoPair}] /\ foreign'.system = s
  BY <1>2, <1>3 DEF CertInv, FilesInv
<1>5. FilesInv'
  BY <1>1, <1>2, <1>4 DEF CertInv, FilesInv, CertbotRenews
<1> QED
  BY <1>5 DEF CertInv, CertCounters, IssuersInv, Working, ServesOwnPair, TokensInv, CertbotRenews

LEMMA CertInvStep ==
    ASSUME CertInv, [CertNext]_certVars PROVE CertInv'
<1>1. CASE CertTick
  BY <1>1 DEF CertInv, CertCounters, FilesInv, IssuersInv, Working, ServesOwnPair, TokensInv, CertTick
<1>2. CASE UNCHANGED certVars
  BY <1>2 DEF CertInv, CertCounters, FilesInv, IssuersInv, Working, ServesOwnPair, TokensInv, certVars
<1>3. ASSUME NEW w \in Issuers,
             \/ PrepareChallenge(w) \/ AlreadyAuthorized(w) \/ WaitAuthorization(w)
             \/ CAFails(w) \/ WriteChain(w) \/ WritePrivateKey(w) \/ InstallIssued(w)
      PROVE  CertInv'
  BY <1>3, PrepareChallengeKeeps, AlreadyAuthorizedKeeps, WaitAuthorizationKeeps, CAFailsKeeps,
     WriteChainKeeps, WritePrivateKeyKeeps, InstallIssuedKeeps
<1> QED
  BY <1>1, <1>2, <1>3, OpenTLSKeeps, StartRenewAllKeeps, OrdersKeep, KillTLSKeeps, CertbotRenewsKeeps
  DEF CertNext

(* Whichever challenge is configured, the listener serves this server's    *)
(* certificate with the key that belongs to it, and with http-01 the       *)
(* responders hold exactly the challenges in flight, for any hosts, any    *)
(* number of orders and any interleaving of the three callers of IssueFor  *)
(* with failures and crashes.                                              *)
THEOREM CertificatesAreSound == CertSpec => []CertificatesSound
<1>1. CertInit => CertInv
  BY CertInvInit
<1>2. CertInv /\ [CertNext]_certVars => CertInv'
  BY CertInvStep
<1>3. CertInv => CertificatesSound
  <2> SUFFICES ASSUME CertInv PROVE CertificatesSound
    OBVIOUS
  <2>1. \A h \in CertHosts : keyFile[h] \in -1..MaxOrders /\ chainFile[h].order \in -1..MaxOrders
    <3> SUFFICES ASSUME NEW h \in CertHosts
                 PROVE  keyFile[h] \in -1..MaxOrders /\ chainFile[h].order \in -1..MaxOrders
      OBVIOUS
    <3>1. keyFile[h] \in -1..MaxOrders /\ chainFile[h].order \in -2..MaxOrders /\ chainFile[h].order # -2
      BY DEF CertInv, FilesInv, Pair
    <3> QED
      BY <3>1, CertBounds
  <2>2. \A w \in Issuers : /\ issuer[w].at \in {"idle", "solve", "wait", "finalize", "key", "parse"}
                           /\ issuer[w].todo \subseteq CertHosts
    BY DEF CertInv, IssuersInv, IssuerRow, IssuerSteps
  <2>3. CertTypeOK
    BY <2>1, <2>2 DEF CertTypeOK, CertInv, CertCounters
  <2> QED
    BY <2>3, TokensAreResponders DEF CertificatesSound, CertInv
<1> QED
  BY <1>1, <1>2, <1>3, PTL DEF CertSpec
=============================================================================
