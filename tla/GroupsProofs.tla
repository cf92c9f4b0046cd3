------------------------------ MODULE GroupsProofs ------------------------------
(***************************************************************************)
(* Proofs about Groups, for any accounts, invitations, requests and any    *)
(* limit of members.                                                       *)
(*                                                                         *)
(*   GroupHolds   Spec => []GroupInv                                       *)
(*   KeysHold     Spec => []KeyInv                                         *)
(*   KeysStay     Spec => KeysStand                                        *)
(*                                                                         *)
(* The inductive invariant has a part about the tables (Rows) and a part   *)
(* about each request under way (Fits): what a request has read, or locked,*)
(* and can therefore rely on when it writes.  A request whose conversation *)
(* was deleted under it goes on, and must do no harm either.               *)
(***************************************************************************)
EXTENDS Groups, FiniteSetTheorems, TLAPS

USE GroupsAssumption

(* Operations that name a user or an invitation.                           *)
Targeted == {"promote", "demote", "remove", "mute", "unmute", "invite", "start", "join",
             "accept", "decline"}

(* Which statements an operation consists of, and what it names.           *)
Shape(r) ==
    /\ r \in Req
    /\ r.pc = "target" => r.op \in Targeted \ {"start", "accept", "decline"}
    /\ r.pc \in {"sum", "insert"} => r.op \in {"join", "accept"}
    /\ r.pc \in {"read", "create", "mark"} => r.op = "accept"
    /\ r.op = "accept" => r.pc \in {"read", "create", "mark", "sum", "insert"}
    /\ r.op = "decline" => r.pc = "write"
    /\ r.pc \in {"lock", "cover", "seal"} <=> r.op = "rotate"
    /\ r.op \in Targeted => r.target \in Users
    /\ r.op = "leave" => r.user \in Users
    /\ r.op \in {"accept", "decline"} => r.row \in Invites
    /\ r.op = "rotate" => r.to # {}
    /\ r.pc \in {"lock", "cover"} => r.done = {}

(* Who counted under the lock of the conversation has room.                *)
Joins(p, r) ==
    /\ joinLock = p <=> r.pc = "insert"
    /\ r.pc = "insert" => ~Full(r.target)

(* Nobody has business with a group before it is there.                    *)
Early(r) ==
    group.state = "none" => /\ r.op \in {"none", "start", "accept", "decline"}
                            /\ r.pc \notin {"sum", "insert"}

(* The owner is not a target, and never becomes one.                       *)
Ranks(r) ==
    r.op \in {"promote", "demote", "mute", "unmute"} /\ r.pc = "write" => role[r.target] # "owner"

(* An answer is to a request that was made, and marks what was done.       *)
Answers(r) ==
    /\ r.op \in {"accept", "decline"} => invite[r.row].state # "none"
    /\ r.pc = "mark" => ~Exists(r.row) \/ invite[r.row].made > 0

(* A rotation that found all its envelopes in order still does, and those  *)
(* it has found to be members are not erased.                              *)
Sealed(r) ==
    /\ \A u \in Users : role[u] # "none" /\ u \in published /\ mark[u] < r.version => u \in r.to
    /\ \A u \in r.done : role[u] = "none" => r.version <= mark[u]

(* It holds the conversation, or the conversation is gone and no envelope  *)
(* has an addressee.                                                       *)
Rotates(p, r) ==
    /\ Live => (rowLock = p <=> r.pc \in {"cover", "seal"})
    /\ Live /\ r.pc \in {"cover", "seal"} => r.version = Len(keys) + 1
    /\ Live /\ r.pc = "seal" => Sealed(r)
    /\ ~Live /\ r.pc = "seal" => r.done = {}
    /\ r.pc = "seal" => r.done \cap erased = {}

Fits(p, r) == Shape(r) /\ Joins(p, r) /\ Early(r) /\ Ranks(r) /\ Answers(r) /\ Rotates(p, r)

Requests == req \in [Handlers -> Req] /\ \A p \in Handlers : Fits(p, req[p])

Types ==
    /\ group \in Group
    /\ role \in [Users -> Role \cup {"none"}]
    /\ muted \subseteq Users
    /\ invite \in [Invites -> Invite]
    /\ published \subseteq Users
    /\ keys \in Seq(SUBSET Users)
    /\ joinLock \in Handlers \cup {None} /\ rowLock \in Handlers \cup {None}
    /\ mark \in [Users -> Nat]
    /\ client \in Clients
    /\ erased \subseteq Users
    /\ faults \in Nat

Few == IsFiniteSet(Members) /\ LimitKept

(* Who is named, as owner or as addressee of a request, is somebody.       *)
Named ==
    /\ group.owner \in Creators \cup {None}
    /\ \A i \in Invites : Exists(i) => invite[i].to \in Users

Rows ==
    /\ Types /\ Few /\ OwnerStands /\ Forgotten /\ NothingLeft /\ AcceptedIsDone
    /\ KeyReaches /\ Named

IInv == Rows /\ Requests

----------------------------------------------------------------------------
(* The fields of the requests the actions build.                           *)
LEMMA NewReqFields ==
  ASSUME NEW op, NEW pc, NEW u, NEW t, NEW i, NEW seen, NEW to, NEW r,
         r = NewReq(op, pc, u, t, i, seen, to)
  PROVE  /\ r.op = op /\ r.pc = pc /\ r.user = u /\ r.target = t /\ r.row = i
         /\ r.seen = seen /\ r.to = to /\ r.done = {} /\ r.version = 0
         /\ (/\ op \in Ops \cup {"none"} /\ pc \in Pc /\ u \in Users \cup {None}
             /\ t \in Users \cup {None} /\ i \in Invites \cup {None}
             /\ seen \in Role \cup {"none"} /\ to \in SUBSET Users) => r \in Req
  BY DEF NewReq, Req

LEMMA NoReqFields ==
  NoReq.op = "none" /\ NoReq.pc = "idle" /\ Shape(NoReq)
<1>1. /\ NoReq.op = "none" /\ NoReq.pc = "idle" /\ NoReq \in Req
  BY NewReqFields DEF NoReq, Pc
<1> QED  BY <1>1 DEF Shape, Targeted

LEMMA GoFields ==
  ASSUME NEW s \in Req, NEW pc \in Pc, NEW r, r = [s EXCEPT !.pc = pc]
  PROVE  /\ r \in Req /\ r.op = s.op /\ r.pc = pc /\ r.user = s.user /\ r.target = s.target
         /\ r.row = s.row /\ r.seen = s.seen /\ r.to = s.to /\ r.done = s.done
         /\ r.version = s.version
  BY DEF Req

LEMMA GroupFields ==
  /\ \A u \in Users : NewGroup("live", u) \in Group
  /\ NewGroup("none", None) \in Group /\ NewGroup("deleted", None) \in Group
  /\ \A state, u : NewGroup(state, u).state = state /\ NewGroup(state, u).owner = u
  BY DEF NewGroup, Group

LEMMA InviteFields ==
  ASSUME NEW state, NEW kind, NEW u, NEW t, NEW n, n = NewInvite(state, kind, u, t)
  PROVE  /\ n.state = state /\ n.kind = kind /\ n.from = u /\ n.to = t /\ n.made = 0
         /\ (/\ state \in {"none", "pending"} /\ kind \in {"group", "private"}
             /\ u \in Users \cup {None} /\ t \in Users \cup {None}) => n \in Invite
  BY DEF NewInvite, Invite

----------------------------------------------------------------------------
(* The invariant implies the ones the runs check.                          *)
LEMMA Implied == IInv => GroupInv /\ KeyInv
<1> SUFFICES ASSUME IInv PROVE GroupInv /\ KeyInv
  OBVIOUS
<1>1. TypeOK
  BY DEF IInv, Rows, Types, Requests, Fits, Shape, Targeted, TypeOK
<1>2. JoinLockHeld /\ RoomKept /\ RotationAlone
  BY DEF IInv, Requests, Fits, Joins, Rotates, JoinLockHeld, RoomKept, RotationAlone
<1> QED  BY <1>1, <1>2 DEF IInv, Rows, Few, GroupInv, KeyInv

(* A request fits a state that differs in nothing it relies on.            *)
LEMMA FitsSame ==
  ASSUME UNCHANGED <<group, role, mark, erased, invite, published, keys, joinLock, rowLock>>,
         NEW p, NEW r
  PROVE  Fits(p, r)' <=> Fits(p, r)
<1>1. Members' = Members /\ Live' = Live /\ \A u : Full(u)' = Full(u)
  BY DEF Members, Live, Full
<1>2. \A i : Exists(i)' = Exists(i)
  BY DEF Exists
<1> QED  BY <1>1, <1>2 DEF Fits, Joins, Early, Ranks, Answers, Rotates, Sealed

LEMMA RowsSame ==
  ASSUME Rows, UNCHANGED <<group, role, muted, mark, erased, invite, published, keys, joinLock, rowLock, client>>,
         faults' \in Nat
  PROVE  Rows'
<1>1. Members' = Members /\ Live' = Live /\ \A i : Exists(i)' = Exists(i)
  BY DEF Members, Live, Exists
<1> QED
  BY <1>1 DEF Rows, Types, Few, LimitKept, OwnerStands, Forgotten, NothingLeft, AcceptedIsDone, KeyReaches, Named

(* One request goes on; the others fit as before.                          *)
LEMMA OthersFit ==
  ASSUME Requests, NEW p \in Handlers, NEW r, req' = [req EXCEPT ![p] = r], Fits(p, r)',
         \A q \in Handlers : q # p => \A s : Fits(q, s) => Fits(q, s)'
  PROVE  Requests'
<1>1. req'[p] = r /\ \A q \in Handlers : q # p => req'[q] = req[q]
  BY DEF Requests
<1>2. r \in Req
  BY DEF Fits, Shape
<1>3. ASSUME NEW q \in Handlers PROVE Fits(q, req[q])'
  <2>1. CASE q = p
    BY <1>1, <2>1
  <2>2. CASE q # p
    <3>1. PICK s : s = req[q]
      OBVIOUS
    <3>2. Fits(q, s)'
      BY <2>2, <3>1 DEF Requests
    <3>3. req'[q] = s
      BY <1>1, <2>2, <3>1
    <3> QED  BY <3>2, <3>3
  <2> QED  BY <2>1, <2>2
<1> QED  BY <1>2, <1>3 DEF Requests

(* A step that changes nothing but one request.                            *)
LEMMA QuietStep ==
  ASSUME IInv, NEW p \in Handlers, NEW r, req' = [req EXCEPT ![p] = r], Fits(p, r),
         UNCHANGED <<members, invite, published, keys, locks, client, faults>>
  PROVE  IInv'
<1>1. UNCHANGED <<group, role, muted, mark, erased, invite, published, keys, joinLock, rowLock, client, faults>>
  BY DEF members, locks
<1>2. Rows'
  BY <1>1, RowsSame DEF IInv, Rows, Types
<1>3. Requests'
  BY <1>1, FitsSame, OthersFit DEF IInv
<1> QED  BY <1>2, <1>3 DEF IInv

(* A request at a statement that needs no lock.                            *)
LEMMA FreeFits ==
  ASSUME NEW p \in Handlers, NEW r, joinLock # p, Live => rowLock # p,
         Shape(r), Early(r), Ranks(r), Answers(r), r.pc \notin {"insert", "cover", "seal"}
  PROVE  Fits(p, r)
  BY DEF Fits, Joins, Rotates

LEMMA NoReqFits ==
  ASSUME NEW p \in Handlers, joinLock # p, Live => rowLock # p
  PROVE  Fits(p, NoReq)
  BY NoReqFields, FreeFits DEF Early, Ranks, Answers

LEMMA HeldBy ==
  ASSUME IInv, NEW p \in Handlers
  PROVE  /\ Fits(p, req[p]) /\ req[p] \in Req
         /\ req[p].pc # "insert" => joinLock # p
         /\ req[p].pc \notin {"cover", "seal"} => (Live => rowLock # p)
  BY DEF IInv, Requests, Fits, Joins, Rotates

(* Those who act on the group are in it.                                   *)
LEMMA RankLives ==
  ASSUME IInv, NEW u \in Users, role[u] # "none"
  PROVE  Live
  BY DEF IInv, Rows, NothingLeft, Members

----------------------------------------------------------------------------
(* Nothing is there at first.                                              *)
LEMMA InitInv == Init => IInv
<1> SUFFICES ASSUME Init PROVE IInv
  OBVIOUS
<1>1. group.state = "none" /\ ~Live
  BY GroupFields DEF Init, Live
<1>2. Members = {}
  BY DEF Init, Members
<1>3. \A i \in Invites : /\ invite[i] \in Invite /\ invite[i].state = "none" /\ ~Exists(i)
  BY InviteFields DEF Init, Exists
<1>4. Types
  BY <1>3, GroupFields DEF Init, Types
<1>5. Few
  BY <1>2, FS_EmptySet DEF Few, LimitKept
<1>6. OwnerStands /\ Forgotten
  BY <1>1 DEF Init, OwnerStands, Forgotten
<1>7. NothingLeft /\ AcceptedIsDone /\ Named
  BY <1>1, <1>2, <1>3, GroupFields DEF Init, NothingLeft, AcceptedIsDone, Named
<1>8. KeyReaches
  BY DEF Init, KeyReaches
<1>9. Requests
  <2>1. \A p \in Handlers : Fits(p, NoReq)
    BY NoReqFits DEF Init
  <2> QED  BY <2>1, NoReqFields DEF Init, Requests, Shape
<1> QED  BY <1>4, <1>5, <1>6, <1>7, <1>8, <1>9 DEF IInv, Rows

----------------------------------------------------------------------------
(* Requests that begin.                                                    *)
LEMMA StartFits ==
  ASSUME IInv, NEW p \in Handlers, NEW r, Start(p, r),
         Shape(r), Early(r), Ranks(r), Answers(r), r.pc \notin {"insert", "cover", "seal"},
         UNCHANGED <<members, invite, published, keys, locks, client, faults>>
  PROVE  IInv'
<1>1. req[p].pc = "idle" /\ req' = [req EXCEPT ![p] = r]
  BY DEF Start
<1>2. Fits(p, r)
  BY <1>1, HeldBy, FreeFits
<1> QED  BY <1>1, <1>2, QuietStep

LEMMA AskInv ==
  ASSUME IInv, NEW p \in Handlers, NEW op \in Ops, NEW u \in Users, NEW t \in Users \cup {None},
         NEW roles \in SUBSET Role, Ask(p, op, u, t, roles),
         t = None => op \in {"leave", "delete", "settings", "mute_all", "unmute_all"},
         t # None => op \in {"promote", "demote", "remove", "mute", "unmute", "invite"}
  PROVE  IInv'
<1>1. PICK r : r = NewReq(op, IF t = None THEN "write" ELSE "target", u, t, None,
                          IF t = None THEN "none" ELSE role[u], {})
  OBVIOUS
<1>2. role[u] \in roles /\ Start(p, r)
      /\ UNCHANGED <<members, invite, published, keys, locks, client, faults>>
  BY <1>1 DEF Ask
<1>3. Live
  BY <1>2, RankLives DEF Role
<1>4. role[u] \in Role
  BY <1>2
<1>5. r.op = op /\ r.pc = (IF t = None THEN "write" ELSE "target") /\ r.user = u /\ r.target = t
      /\ r \in Req
  BY <1>1, <1>4, NewReqFields DEF Pc
<1>6. Shape(r)
  BY <1>5 DEF Shape, Targeted
<1>7. Early(r) /\ Ranks(r) /\ Answers(r)
  BY <1>3, <1>5 DEF Early, Live, Ranks, Answers
<1> QED  BY <1>2, <1>5, <1>6, <1>7, StartFits

LEMMA AsksInv ==
  ASSUME IInv, NEW p \in Handlers, NEW u \in Users,
         \/ AskLeave(p, u) \/ AskDelete(p, u) \/ AskSettings(p, u)
         \/ AskMuteAll(p, u) \/ AskUnmuteAll(p, u)
         \/ \E t \in Users : \/ AskRole(p, u, t) \/ AskRemove(p, u, t) \/ AskMute(p, u, t)
                             \/ AskUnmute(p, u, t) \/ InviteToGroup(p, u, t)
  PROVE  IInv'
<1>1. {"admin", "member"} \in SUBSET Role /\ {"owner"} \in SUBSET Role /\ Manager \in SUBSET Role
      /\ Role \in SUBSET Role
  BY DEF Role, Manager
<1>2. ASSUME NEW op \in {"leave", "delete", "settings", "mute_all", "unmute_all"},
             NEW roles \in SUBSET Role, Ask(p, op, u, None, roles)
      PROVE  IInv'
  BY <1>2, AskInv DEF Ops
<1>3. ASSUME NEW op \in {"promote", "demote", "remove", "mute", "unmute", "invite"},
             NEW t \in Users, NEW roles \in SUBSET Role, Ask(p, op, u, t, roles)
      PROVE  IInv'
  <2>1. op \in Ops /\ t # None
    BY DEF Ops
  <2> QED  BY <1>3, <2>1, AskInv
<1>4. CASE \/ AskLeave(p, u) \/ AskDelete(p, u) \/ AskSettings(p, u)
           \/ AskMuteAll(p, u) \/ AskUnmuteAll(p, u)
  BY <1>1, <1>2, <1>4 DEF AskLeave, AskDelete, AskSettings, AskMuteAll, AskUnmuteAll
<1>5. ASSUME NEW t \in Users,
             \/ AskRole(p, u, t) \/ AskRemove(p, u, t) \/ AskMute(p, u, t)
             \/ AskUnmute(p, u, t) \/ InviteToGroup(p, u, t)
      PROVE  IInv'
  BY <1>1, <1>3, <1>5 DEF AskRole, AskRemove, AskMute, AskUnmute, InviteToGroup
<1> QED  BY <1>4, <1>5

LEMMA PutKeysInv ==
  ASSUME IInv, NEW p \in Handlers, NEW u \in Users, client.users \subseteq Users, PutE2EEKeys(p, u)
  PROVE  IInv'
<1>1. PICK to \in (SUBSET client.users) \ {{}} :
        Start(p, NewReq("rotate", "lock", None, None, None, "none", to))
  BY DEF PutE2EEKeys
<1>2. PICK r : r = NewReq("rotate", "lock", None, None, None, "none", to)
  OBVIOUS
<1>3. Live /\ to \in SUBSET Users
  BY RankLives DEF PutE2EEKeys
<1>4. r.op = "rotate" /\ r.pc = "lock" /\ r.to = to /\ r.done = {} /\ r \in Req
  BY <1>2, <1>3, NewReqFields DEF Pc, Ops
<1>5. Shape(r)
  BY <1>1, <1>4 DEF Shape, Targeted
<1>6. Early(r) /\ Ranks(r) /\ Answers(r)
  BY <1>3, <1>4 DEF Early, Live, Ranks, Answers
<1> QED  BY <1>1, <1>2, <1>4, <1>5, <1>6, StartFits DEF PutE2EEKeys

LEMMA JoinInv ==
  ASSUME IInv, NEW p \in Handlers, NEW u \in Users, JoinGroup(p, u)
  PROVE  IInv'
<1>1. PICK r : r = NewReq("join", "target", u, u, None, "none", {})
  OBVIOUS
<1>2. r.op = "join" /\ r.pc = "target" /\ r.target = u /\ r \in Req
  BY <1>1, NewReqFields DEF Pc, Ops
<1>3. Shape(r)
  BY <1>2 DEF Shape, Targeted
<1>4. Early(r) /\ Ranks(r) /\ Answers(r)
  BY <1>2 DEF JoinGroup, Early, Live, Ranks, Answers
<1> QED  BY <1>1, <1>2, <1>3, <1>4, StartFits DEF JoinGroup

LEMMA StartChatInv ==
  ASSUME IInv, NEW p \in Handlers, NEW u \in Users, NEW t \in Users, StartPrivateChat(p, u, t)
  PROVE  IInv'
<1>1. PICK r : r = NewReq("start", "write", u, t, None, "none", {})
  OBVIOUS
<1>2. r.op = "start" /\ r.pc = "write" /\ r.target = t /\ r \in Req
  BY <1>1, NewReqFields DEF Pc, Ops
<1>3. Shape(r)
  BY <1>2 DEF Shape, Targeted
<1>4. Early(r) /\ Ranks(r) /\ Answers(r)
  BY <1>2 DEF Early, Ranks, Answers
<1> QED  BY <1>1, <1>2, <1>3, <1>4, StartFits DEF StartPrivateChat

LEMMA AnswerInv ==
  ASSUME IInv, NEW p \in Handlers, NEW op, NEW i \in Invites, Answer(p, op, i)
  PROVE  IInv'
<1>1. PICK t, pc : t = invite[i].to /\ pc = (IF op = "accept" THEN "read" ELSE "write")
  OBVIOUS
<1>2. PICK r : r = NewReq(op, pc, None, t, i, "none", {})
  OBVIOUS
<1>3. op \in {"accept", "decline"} /\ Exists(i) /\ Start(p, r)
  BY <1>1, <1>2 DEF Answer
<1>4. t \in Users
  BY <1>1, <1>3 DEF IInv, Rows, Named
<1>5. r.op = op /\ r.pc = pc /\ r.target = t /\ r.row = i /\ r \in Req
  BY <1>1, <1>2, <1>3, <1>4, NewReqFields DEF Pc, Ops
<1>6. Shape(r)
  BY <1>1, <1>3, <1>4, <1>5 DEF Shape, Targeted
<1>7. Early(r) /\ Ranks(r) /\ Answers(r)
  BY <1>1, <1>3, <1>5 DEF Early, Ranks, Answers, Exists
<1>8. r.pc \notin {"insert", "cover", "seal"}
  BY <1>1, <1>5
<1> QED  BY <1>3, <1>6, <1>7, <1>8, StartFits DEF Answer

----------------------------------------------------------------------------
(* Requests that read, or give up.                                         *)
LEMMA DoneQuiet ==
  ASSUME IInv, NEW p \in Handlers, Done(p), req[p].pc \notin {"insert", "cover", "seal"},
         UNCHANGED <<members, invite, published, keys, locks, client, faults>>
  PROVE  IInv'
<1>1. Fits(p, NoReq)
  BY HeldBy, NoReqFits
<1> QED  BY <1>1, QuietStep DEF Done

LEMMA CheckTargetInv ==
  ASSUME IInv, NEW p \in Handlers, CheckTarget(p)
  PROVE  IInv'
<1>1. PICK s : s = req[p]
  OBVIOUS
<1>2. Fits(p, s) /\ s.pc = "target" /\ s \in Req
  BY <1>1, HeldBy DEF CheckTarget
<1>3. UNCHANGED <<members, invite, published, keys, locks, client, faults>>
  BY DEF CheckTarget
<1>4. CASE role[s.target] \notin TargetRoles(s.op, s.seen)
  BY <1>1, <1>2, <1>3, <1>4, DoneQuiet DEF CheckTarget
<1>5. CASE role[s.target] \in TargetRoles(s.op, s.seen)
  <2>1. PICK pc : pc = IF s.op = "join" THEN "sum" ELSE "write"
    OBVIOUS
  <2>2. PICK r : r = [s EXCEPT !.pc = pc]
    OBVIOUS
  <2>3. req' = [req EXCEPT ![p] = r]
    BY <1>1, <1>5, <2>1, <2>2 DEF CheckTarget, Go
  <2>4. /\ r \in Req /\ r.op = s.op /\ r.pc = pc /\ r.target = s.target /\ r.row = s.row
        /\ r.user = s.user /\ r.to = s.to /\ r.done = s.done
    BY <1>2, <2>1, <2>2, GoFields DEF Pc
  <2>5. s.op \in Targeted \ {"start", "accept", "decline"}
    BY <1>2 DEF Fits, Shape
  <2>6. Shape(r)
    BY <1>2, <2>1, <2>4, <2>5 DEF Fits, Shape, Targeted
  <2>7. role[s.target] # "owner"
    BY <1>5 DEF TargetRoles
  <2>8. Early(r) /\ Ranks(r) /\ Answers(r)
    BY <1>2, <2>1, <2>4, <2>5, <2>7 DEF Fits, Early, Ranks, Answers, Targeted
  <2>9. Fits(p, r)
    BY <1>1, <1>2, <2>1, <2>4, <2>6, <2>8, HeldBy, FreeFits
  <2> QED  BY <1>3, <2>3, <2>9, QuietStep
<1> QED  BY <1>4, <1>5

LEMMA ReadInviteInv ==
  ASSUME IInv, NEW p \in Handlers, ReadInvite(p)
  PROVE  IInv'
<1>1. PICK s, i : s = req[p] /\ i = s.row
  OBVIOUS
<1>2. Fits(p, s) /\ s.pc = "read" /\ s \in Req
  BY <1>1, HeldBy DEF ReadInvite
<1>3. UNCHANGED <<members, invite, published, keys, locks, client, faults>>
  BY DEF ReadInvite
<1>4. CASE invite[i].state # "pending"
  BY <1>1, <1>2, <1>3, <1>4, DoneQuiet DEF ReadInvite
<1>5. CASE invite[i].state = "pending"
  <2>1. PICK pc : pc = IF invite[i].kind = "private" THEN "create" ELSE "sum"
    OBVIOUS
  <2>2. PICK r : r = [s EXCEPT !.pc = pc]
    OBVIOUS
  <2>3. req' = [req EXCEPT ![p] = r]
    BY <1>1, <1>5, <2>1, <2>2 DEF ReadInvite, Go
  <2>4. /\ r \in Req /\ r.op = s.op /\ r.pc = pc /\ r.target = s.target /\ r.row = s.row
        /\ r.user = s.user /\ r.to = s.to /\ r.done = s.done
    BY <1>2, <2>1, <2>2, GoFields DEF Pc
  <2>5. s.op = "accept" /\ i \in Invites
    BY <1>1, <1>2 DEF Fits, Shape
  <2>6. Shape(r)
    BY <1>2, <2>1, <2>4, <2>5 DEF Fits, Shape, Targeted
  <2>7. group.state = "none" => invite[i].kind = "private"
    BY <1>5, <2>5 DEF IInv, Rows, NothingLeft, Live, Exists
  <2>8. Early(r) /\ Ranks(r) /\ Answers(r)
    BY <1>2, <2>1, <2>4, <2>5, <2>7 DEF Fits, Early, Ranks, Answers
  <2>9. Fits(p, r)
    BY <1>1, <1>2, <2>1, <2>4, <2>6, <2>8, HeldBy, FreeFits
  <2> QED  BY <1>3, <2>3, <2>9, QuietStep
<1> QED  BY <1>4, <1>5

----------------------------------------------------------------------------
(* The writer is done, and the others still fit.                           *)
LEMMA DoneFits ==
  ASSUME IInv, NEW p \in Handlers, Done(p),
         joinLock' # p, rowLock' # p,
         \A q \in Handlers : q # p => \A s : Fits(q, s) => Fits(q, s)'
  PROVE  Requests'
<1>1. Fits(p, NoReq)'
  <2>1. Shape(NoReq) /\ NoReq.op = "none" /\ NoReq.pc = "idle"
    BY NoReqFields
  <2> QED  BY <2>1 DEF Fits, Joins, Early, Ranks, Answers, Rotates
<1> QED  BY <1>1, OthersFit DEF Done, IInv

(* No rotation is under way.                                               *)
LEMMA NobodyRotates ==
  ASSUME NEW q \in Handlers, NEW s, Fits(q, s), Live, rowLock = None
  PROVE  s.pc \notin {"cover", "seal"}
  BY DEF Fits, Rotates

(* A rotation under way counts as a version.                               *)
LEMMA VersionsWhileSealing ==
  ASSUME Rows, NEW q \in Handlers, NEW s, Fits(q, s), Live, s.pc \in {"cover", "seal"}
  PROVE  rowLock = q /\ Versions = s.version /\ s.version = Len(keys) + 1
  BY DEF Fits, Rotates, Versions, Unlocked

LEMMA VersionsBound ==
  ASSUME Rows PROVE Len(keys) \in Nat /\ Versions \in Nat /\ Versions >= Len(keys)
<1>1. Len(keys) \in Nat
  BY DEF Rows, Types
<1> QED  BY <1>1 DEF Versions

----------------------------------------------------------------------------
(* Members come and go.                                                    *)
LEMMA SameMembers ==
  ASSUME \A u \in Users : role'[u] = "none" <=> role[u] = "none"
  PROVE  Members' = Members
  BY DEF Members

LEMMA CreateGroupInv ==
  ASSUME IInv, NEW u \in Creators, CreateGroup(u)
  PROVE  IInv'
<1>0. u \in Users
  BY GroupsAssumption
<1>1. /\ group.state = "none" /\ ~Live /\ group' = NewGroup("live", u)
      /\ role' = [role EXCEPT ![u] = "owner"]
      /\ UNCHANGED <<muted, mark, erased, invite, published, keys, joinLock, rowLock, req, client, faults>>
  BY DEF CreateGroup, Live, locks
<1>2. group'.state = "live" /\ group'.owner = u /\ Live' /\ group' \in Group
  BY <1>0, <1>1, GroupFields DEF Live
<1>3. Members = {} /\ muted = {} /\ keys = <<>> /\ rowLock = None
  BY <1>1 DEF IInv, Rows, NothingLeft
<1>4. role \in [Users -> Role \cup {"none"}] /\ \A v \in Users : role[v] = "none"
  BY <1>3 DEF IInv, Rows, Types, Members
<1>5. role' \in [Users -> Role \cup {"none"}]
  BY <1>0, <1>1, <1>4 DEF Role
<1>6. Members' = {u}
  BY <1>0, <1>1, <1>4 DEF Members
<1>7. Rows'
  <2>1. Types'
    BY <1>1, <1>2, <1>5 DEF IInv, Rows, Types
  <2>2. Few'
    <3>1. IsFiniteSet({u}) /\ Cardinality({u}) = 1
      BY FS_Singleton
    <3>2. MaxMembers \in Nat \ {0}
      OBVIOUS
    <3> QED  BY <1>6, <3>1, <3>2 DEF Few, LimitKept
  <2>3. OwnerStands' /\ Forgotten'
    <3>1. u \notin erased /\ None \notin Users /\ \A v : v \in erased => v \in Users
      BY DEF CreateGroup, IInv, Rows, Types
    <3>2. OwnerStands'
      BY <1>1, <1>2, <1>3, <1>4, <3>1 DEF OwnerStands
    <3>3. Forgotten'
      BY <1>1, <1>2, <1>3, <1>4, <3>1 DEF IInv, Rows, Forgotten, Exists
    <3> QED  BY <3>2, <3>3
  <2>4. NothingLeft' /\ AcceptedIsDone' /\ Named'
    BY <1>1, <1>2 DEF IInv, Rows, NothingLeft, AcceptedIsDone, Named, Exists
  <2>5. KeyReaches'
    BY <1>1, <1>3 DEF KeyReaches
  <2> QED  BY <2>1, <2>2, <2>3, <2>4, <2>5 DEF Rows
<1>8. ASSUME NEW q \in Handlers, NEW s, Fits(q, s) PROVE Fits(q, s)'
  <2>1. s.op \in {"none", "start", "accept", "decline"} /\ s.pc \notin {"sum", "insert"} /\ Shape(s)
    BY <1>1, <1>8 DEF Fits, Early
  <2>2. s.pc \notin {"cover", "seal"}
    BY <2>1 DEF Shape
  <2>3. Joins(q, s)' /\ Early(s)' /\ Ranks(s)'
    BY <1>1, <1>2, <1>8, <2>1 DEF Fits, Joins, Early, Ranks
  <2>4. Answers(s)'
    BY <1>1, <1>8 DEF Fits, Answers, Exists
  <2>5. Rotates(q, s)'
    BY <1>1, <1>2, <1>3, <2>2 DEF Rotates
  <2> QED  BY <2>1, <2>3, <2>4, <2>5 DEF Fits
<1>9. Requests'
  <2> SUFFICES ASSUME NEW q \in Handlers PROVE Fits(q, req[q])'
    BY <1>1 DEF IInv, Requests
  <2>1. PICK s : s = req[q]
    OBVIOUS
  <2>2. Fits(q, s)'
    BY <1>8, <2>1 DEF IInv, Requests
  <2> QED  BY <1>1, <2>1, <2>2
<1> QED  BY <1>7, <1>9 DEF IInv

LEMMA DropInv ==
  ASSUME IInv, NEW u \in Users, role[u] \in {"admin", "member"}, Drop(u),
         UNCHANGED <<invite, published, keys, locks, client, faults>>
  PROVE  /\ Rows'
         /\ \A q \in Handlers : \A s : Fits(q, s) => Fits(q, s)'
<1>1. /\ role' = [role EXCEPT ![u] = "none"] /\ muted' = muted \ {u}
      /\ mark' = [mark EXCEPT ![u] = Versions]
      /\ UNCHANGED <<group, erased, invite, published, keys, joinLock, rowLock, client, faults>>
  BY DEF Drop, locks
<1>2. Live
  BY RankLives
<1>3. Types
  BY DEF IInv, Rows
<1>4. /\ role'[u] = "none" /\ mark'[u] = Versions
      /\ \A v \in Users : v # u => role'[v] = role[v] /\ mark'[v] = mark[v]
  BY <1>1, <1>3 DEF Types
<1>5. Versions \in Nat /\ Len(keys) \in Nat /\ Versions >= Len(keys)
  BY VersionsBound DEF IInv
<1>6. Members' = Members \ {u} /\ u \in Members
  BY <1>4 DEF Members
<1>7. /\ IsFiniteSet(Members') /\ Cardinality(Members) \in Nat
      /\ Cardinality(Members') = Cardinality(Members) - 1
  BY <1>6, FS_RemoveElement, FS_CardinalityType DEF IInv, Rows, Few
<1>8. Rows'
  <2>1. Types'
    BY <1>1, <1>3, <1>5 DEF Types
  <2>2. Few'
    BY <1>7 DEF IInv, Rows, Few, LimitKept
  <2>3. OwnerStands' /\ Forgotten'
    <3>1. OwnerStands'
      BY <1>1, <1>4 DEF IInv, Rows, OwnerStands, Live, Types, Group
    <3>2. Forgotten'
      BY <1>1, <1>3, <1>4 DEF IInv, Rows, Forgotten, Exists, Types
    <3> QED  BY <3>1, <3>2
  <2>4. NothingLeft' /\ AcceptedIsDone' /\ Named'
    BY <1>1, <1>2 DEF IInv, Rows, NothingLeft, AcceptedIsDone, Named, Exists, Live
  <2>5. KeyReaches'
    BY <1>1, <1>4, <1>5 DEF IInv, Rows, KeyReaches
  <2> QED  BY <2>1, <2>2, <2>3, <2>4, <2>5 DEF Rows
<1>9. ASSUME NEW q \in Handlers, NEW s, Fits(q, s) PROVE Fits(q, s)'
  <2>1. Shape(s) /\ Early(s)'
    BY <1>1, <1>9 DEF Fits, Early
  <2>2. Joins(q, s)'
    <3>1. s.pc = "insert" => s.target \in Users
      BY <2>1 DEF Shape, Targeted
    <3>2. ASSUME s.pc = "insert" PROVE ~Full(s.target)'
      <4>1. ~Full(s.target) /\ Cardinality(Members) <= MaxMembers
        BY <1>9, <3>2 DEF Fits, Joins, IInv, Rows, Few, LimitKept
      <4>2. MaxMembers \in Nat
        OBVIOUS
      <4> QED  BY <1>4, <1>7, <3>1, <3>2, <4>1, <4>2 DEF Full
    <3> QED  BY <1>1, <1>9, <3>2 DEF Fits, Joins
  <2>3. Ranks(s)'
    <3>1. s.op \in {"promote", "demote", "mute", "unmute"} => s.target \in Users
      BY <2>1 DEF Shape, Targeted
    <3> QED  BY <1>4, <1>9, <3>1 DEF Fits, Ranks
  <2>4. Answers(s)'
    BY <1>1, <1>9 DEF Fits, Answers, Exists
  <2>5. Rotates(q, s)'
    <3>1. Live' /\ UNCHANGED <<rowLock, keys>>
      BY <1>1, <1>2 DEF Live
    <3>2. ASSUME s.pc = "seal" PROVE Sealed(s)'
      <4>1. Sealed(s) /\ s.version = Versions /\ s.version = Len(keys) + 1
        BY <1>2, <1>9, <3>2, VersionsWhileSealing DEF Fits, Rotates, IInv
      <4>2. \A v \in s.done : v \in Users
        BY <2>1 DEF Shape, Req
      <4> QED  BY <1>1, <1>4, <1>5, <4>1, <4>2 DEF Sealed
    <3> QED  BY <1>1, <1>2, <1>9, <3>1, <3>2 DEF Fits, Rotates
  <2> QED  BY <2>1, <2>2, <2>3, <2>4, <2>5 DEF Fits
<1> QED  BY <1>8, <1>9

LEMMA RemoveInv ==
  ASSUME IInv, NEW p \in Handlers, RemoveMember(p)
  PROVE  IInv'
<1>1. PICK s, u : s = req[p] /\ u = IF s.op = "leave" THEN s.user ELSE s.target
  OBVIOUS
<1>2. Fits(p, s) /\ s.pc = "write" /\ s.op \in {"leave", "remove"}
  BY <1>1, HeldBy DEF RemoveMember
<1>3. joinLock # p /\ (Live => rowLock # p)
  BY <1>1, <1>2, HeldBy
<1>4. u \in Users
  BY <1>1, <1>2 DEF Fits, Shape, Targeted
<1>5. CASE role[u] \in {"admin", "member"}
  <2>1. Drop(u) /\ Done(p) /\ UNCHANGED <<invite, published, keys, locks, client, faults>>
    BY <1>1, <1>5 DEF RemoveMember
  <2>2. Rows' /\ \A q \in Handlers : \A r : Fits(q, r) => Fits(q, r)'
    BY <1>4, <1>5, <2>1, DropInv
  <2>3. Live
    BY <1>4, <1>5, RankLives
  <2> QED  BY <1>3, <2>1, <2>2, <2>3, DoneFits DEF IInv, locks
<1>6. CASE role[u] \notin {"admin", "member"}
  BY <1>1, <1>2, <1>6, DoneQuiet DEF RemoveMember
<1> QED  BY <1>5, <1>6

LEMMA LockFree ==
  ASSUME IInv, NEW p \in Handlers, req[p].pc \notin {"insert", "cover", "seal"}
  PROVE  joinLock # p /\ rowLock # p
  BY HeldBy DEF IInv, Rows, NothingLeft

(* A change of rank: nobody enters, leaves or becomes the owner.           *)
LEMMA SetRoleInv ==
  ASSUME IInv, NEW p \in Handlers, SetMemberRole(p)
  PROVE  IInv'
<1>1. PICK s, t : s = req[p] /\ t = s.target
  OBVIOUS
<1>2. Fits(p, s) /\ s.pc = "write" /\ s.op \in {"promote", "demote"}
  BY <1>1, HeldBy DEF SetMemberRole
<1>3. t \in Users /\ role[t] # "owner" /\ Types
  BY <1>1, <1>2 DEF Fits, Shape, Ranks, Targeted, IInv, Rows
<1>4. /\ role' = [role EXCEPT ![t] = IF @ = "none" THEN @ ELSE IF s.op = "promote" THEN "admin" ELSE "member"]
      /\ Done(p)
      /\ UNCHANGED <<group, muted, mark, erased, invite, published, keys, joinLock, rowLock, client, faults>>
  BY <1>1 DEF SetMemberRole, locks
<1>5. /\ role' \in [Users -> Role \cup {"none"}]
      /\ \A u \in Users : /\ role'[u] = "none" <=> role[u] = "none"
                          /\ role'[u] = "owner" <=> role[u] = "owner"
  BY <1>3, <1>4 DEF Types, Role
<1>6. Members' = Members /\ Live' = Live /\ \A u \in Users : Full(u)' = Full(u)
  BY <1>4, <1>5, SameMembers DEF Live, Full
<1>7. Rows'
  <2>1. Types'
    BY <1>3, <1>4, <1>5 DEF Types
  <2>2. Few'
    BY <1>6 DEF IInv, Rows, Few, LimitKept
  <2>3. OwnerStands' /\ Forgotten'
    <3>1. group.owner \in Users \cup {None} /\ erased \subseteq Users
      BY DEF IInv, Rows, Types, Group
    <3>2. OwnerStands'
      BY <1>4, <1>5, <1>6, <3>1 DEF IInv, Rows, OwnerStands
    <3>3. Forgotten'
      BY <1>4, <1>5, <3>1 DEF IInv, Rows, Forgotten, Exists
    <3> QED  BY <3>2, <3>3
  <2>4. NothingLeft' /\ AcceptedIsDone' /\ Named'
    BY <1>4, <1>6 DEF IInv, Rows, NothingLeft, AcceptedIsDone, Named, Exists
  <2>5. KeyReaches'
    BY <1>4, <1>5 DEF IInv, Rows, KeyReaches
  <2> QED  BY <2>1, <2>2, <2>3, <2>4, <2>5 DEF Rows
<1>8. ASSUME NEW q \in Handlers, NEW r, Fits(q, r) PROVE Fits(q, r)'
  <2>1. Shape(r) /\ Early(r)' /\ Answers(r)'
    BY <1>4, <1>8 DEF Fits, Early, Answers, Exists
  <2>2. Joins(q, r)'
    BY <1>4, <1>6, <1>8, <2>1 DEF Fits, Joins, Shape, Targeted
  <2>3. Ranks(r)'
    BY <1>5, <1>8, <2>1 DEF Fits, Ranks, Shape, Targeted
  <2>4. Sealed(r) => Sealed(r)'
    BY <1>4, <1>5, <2>1 DEF Sealed, Shape, Req
  <2>5. Rotates(q, r)'
    BY <1>4, <1>6, <1>8, <2>4 DEF Fits, Rotates
  <2> QED  BY <2>1, <2>2, <2>3, <2>5 DEF Fits
<1> QED  BY <1>1, <1>2, <1>4, <1>7, <1>8, LockFree, DoneFits DEF IInv

LEMMA SetMuteInv ==
  ASSUME IInv, NEW p \in Handlers, SetMemberMute(p)
  PROVE  IInv'
<1>1. PICK s, t : s = req[p] /\ t = s.target
  OBVIOUS
<1>2. Fits(p, s) /\ s.pc = "write" /\ s.op \in {"mute", "unmute"}
  BY <1>1, HeldBy DEF SetMemberMute
<1>3. t \in Users /\ role[t] # "owner" /\ Types
  BY <1>1, <1>2 DEF Fits, Shape, Ranks, Targeted, IInv, Rows
<1>4. /\ muted' = IF s.op = "mute" /\ role[t] # "none" THEN muted \cup {t} ELSE muted \ {t}
      /\ Done(p)
      /\ UNCHANGED <<group, role, mark, erased, invite, published, keys, joinLock, rowLock, client, faults>>
  BY <1>1 DEF SetMemberMute, locks
<1>5. Members' = Members /\ Live' = Live
  BY <1>4 DEF Members, Live
<1>6. Rows'
  <2>1. Types'
    BY <1>3, <1>4 DEF Types
  <2>2. OwnerStands' /\ Forgotten'
    <3>1. OwnerStands'
      BY <1>3, <1>4, <1>5 DEF IInv, Rows, OwnerStands
    <3>2. Forgotten'
      BY <1>3, <1>4 DEF IInv, Rows, Forgotten, Exists
    <3> QED  BY <3>1, <3>2
  <2>3. NothingLeft'
    BY <1>3, <1>4, <1>5 DEF IInv, Rows, NothingLeft, Exists, Members
  <2>4. Few' /\ AcceptedIsDone' /\ Named' /\ KeyReaches'
    BY <1>4, <1>5 DEF IInv, Rows, Few, LimitKept, AcceptedIsDone, Named, KeyReaches, Exists
  <2> QED  BY <2>1, <2>2, <2>3, <2>4 DEF Rows
<1>7. \A q \in Handlers : \A r : Fits(q, r) => Fits(q, r)'
  BY <1>4, FitsSame
<1> QED  BY <1>1, <1>2, <1>4, <1>6, <1>7, LockFree, DoneFits DEF IInv

(* Settings and mutes of a conversation leave its state and owner alone.   *)
LEMMA SettingsKept ==
  ASSUME IInv, group' \in Group, group'.state = group.state, group'.owner = group.owner,
         muted' \subseteq muted, UNCHANGED <<role, mark, erased, invite, published, keys, joinLock, rowLock, client, faults>>
  PROVE  /\ Rows'
         /\ \A q \in Handlers : \A r : Fits(q, r) => Fits(q, r)'
<1>1. Members' = Members /\ Live' = Live /\ \A u : Full(u)' = Full(u)
  BY DEF Members, Live, Full
<1>2. \A i : Exists(i)' = Exists(i)
  BY DEF Exists
<1>3. Rows'
  BY <1>1, <1>2 DEF IInv, Rows, Types, Few, LimitKept, OwnerStands, Forgotten, NothingLeft, AcceptedIsDone,
                    Named, KeyReaches
<1>4. \A q \in Handlers : \A r : Fits(q, r) => Fits(q, r)'
  BY <1>1, <1>2 DEF Fits, Joins, Early, Ranks, Answers, Rotates, Sealed
<1> QED  BY <1>3, <1>4

LEMMA UpdateGroupInv ==
  ASSUME IInv, NEW p \in Handlers, UpdateGroup(p)
  PROVE  IInv'
<1>1. group \in Group
  BY DEF IInv, Rows, Types
<1>2. group' \in Group /\ group'.state = group.state /\ group'.owner = group.owner
  <2>1. \A b \in BOOLEAN : [group EXCEPT !.open = b] \in Group /\ [group EXCEPT !.mutedAll = b] \in Group
    BY <1>1 DEF Group
  <2>2. \A b : /\ [group EXCEPT !.open = b].state = group.state
               /\ [group EXCEPT !.open = b].owner = group.owner
               /\ [group EXCEPT !.mutedAll = b].state = group.state
               /\ [group EXCEPT !.mutedAll = b].owner = group.owner
    BY <1>1 DEF Group
  <2>3. PICK b \in BOOLEAN : b = (req[p].op = "mute_all")
    OBVIOUS
  <2>4. \/ group' = group \/ (\E c \in BOOLEAN : group' = [group EXCEPT !.open = c])
        \/ group' = [group EXCEPT !.mutedAll = b]
    BY <2>3 DEF UpdateGroup
  <2>5. CASE group' = group
    BY <1>1, <2>5
  <2>6. CASE \E c \in BOOLEAN : group' = [group EXCEPT !.open = c]
    BY <2>1, <2>2, <2>6
  <2>7. CASE group' = [group EXCEPT !.mutedAll = b]
    BY <2>1, <2>2, <2>7
  <2> QED  BY <2>4, <2>5, <2>6, <2>7
<1>3. Rows' /\ \A q \in Handlers : \A r : Fits(q, r) => Fits(q, r)'
  BY <1>2, SettingsKept DEF UpdateGroup, locks
<1> QED  BY <1>3, LockFree, DoneFits DEF UpdateGroup, IInv, locks

LEMMA MuteLapsesInv == ASSUME IInv, MuteLapses PROVE IInv'
<1>1. group \in Group
  BY DEF IInv, Rows, Types
<1>2. group' \in Group /\ group'.state = group.state /\ group'.owner = group.owner
  BY <1>1 DEF MuteLapses, Group
<1>3. muted' \subseteq muted
  BY DEF MuteLapses
<1>4. Rows' /\ \A q \in Handlers : \A r : Fits(q, r) => Fits(q, r)'
  BY <1>2, <1>3, SettingsKept DEF MuteLapses, locks
<1>5. Requests'
  <2> SUFFICES ASSUME NEW q \in Handlers PROVE Fits(q, req[q])'
    BY DEF IInv, Requests, MuteLapses
  <2>1. PICK s : s = req[q]
    OBVIOUS
  <2> QED  BY <1>4, <2>1 DEF MuteLapses, IInv, Requests
<1> QED  BY <1>4, <1>5 DEF IInv

(* With the conversation go its members, its invitations and its keys.     *)
LEMMA DeleteInv ==
  ASSUME IInv, NEW p \in Handlers, DeleteGroup(p)
  PROVE  IInv'
<1>1. /\ group' = NewGroup("deleted", None) /\ role' = [u \in Users |-> "none"] /\ muted' = {}
      /\ invite' = [i \in Invites |->
           IF invite[i].kind = "group" /\ Exists(i) THEN [invite[i] EXCEPT !.state = "erased"]
           ELSE invite[i]]
      /\ keys' = <<>> /\ mark' = [u \in Users |-> 0] /\ rowLock = None /\ Done(p)
      /\ UNCHANGED <<erased, published, joinLock, rowLock, client, faults>>
  BY DEF DeleteGroup, Unlocked, locks
<1>2. group' \in Group /\ group'.state = "deleted" /\ group'.owner = None /\ ~Live'
  BY <1>1, GroupFields DEF Live
<1>3. Members' = {} /\ \A u \in Users : ~Full(u)'
  <2>1. Members' = {}
    BY <1>1 DEF Members
  <2>2. Cardinality({}) = 0 /\ MaxMembers \in Nat \ {0}
    BY FS_EmptySet
  <2> QED  BY <2>1, <2>2 DEF Full
<1>4. \A i \in Invites : invite[i] \in Invite
  BY DEF IInv, Rows, Types
<1>5. ASSUME NEW i \in Invites
      PROVE  /\ invite'[i] \in Invite
             /\ invite'[i].made = invite[i].made /\ invite'[i].to = invite[i].to
             /\ invite'[i].state = "none" <=> invite[i].state = "none"
             /\ Exists(i)' => /\ Exists(i) /\ invite'[i] = invite[i] /\ invite[i].kind = "private"
  BY <1>1, <1>4 DEF Invite, Exists
<1>6. Rows'
  <2>1. Types'
    BY <1>1, <1>2, <1>5 DEF IInv, Rows, Types
  <2>2. Few'
    BY <1>3, FS_EmptySet DEF Few, LimitKept
  <2>3. OwnerStands' /\ Forgotten'
    <3>1. OwnerStands'
      BY <1>1, <1>2 DEF OwnerStands
    <3>2. erased \subseteq Users /\ None \notin Users /\ group'.owner = None
      BY <1>2 DEF IInv, Rows, Types
    <3>3. Forgotten'
      <4>1. \A v \in erased : v \in Users /\ v # None
        BY <3>2
      <4>2. \A v \in 1 .. Len(keys') : FALSE
        BY <1>1
      <4> QED  BY <1>1, <1>5, <3>2, <4>1, <4>2 DEF IInv, Rows, Forgotten
    <3> QED  BY <3>1, <3>3
  <2>4. NothingLeft'
    BY <1>1, <1>2, <1>3, <1>5 DEF NothingLeft
  <2>5. AcceptedIsDone' /\ Named'
    <3>1. \A i \in Invites : invite'[i].state = "accepted" => Exists(i)'
      BY DEF Exists
    <3> QED  BY <1>2, <1>5, <3>1 DEF IInv, Rows, AcceptedIsDone, Named
  <2>6. KeyReaches'
    BY <1>1 DEF KeyReaches
  <2> QED  BY <2>1, <2>2, <2>3, <2>4, <2>5, <2>6 DEF Rows
<1>7. ASSUME NEW q \in Handlers, NEW r, Fits(q, r) PROVE Fits(q, r)'
  <2>1. Shape(r) /\ Early(r)'
    BY <1>2, <1>7 DEF Fits, Early
  <2>2. Joins(q, r)'
    BY <1>1, <1>3, <1>7, <2>1 DEF Fits, Joins, Shape, Targeted
  <2>3. Ranks(r)'
    BY <1>1, <2>1 DEF Ranks, Shape, Targeted
  <2>4. Answers(r)'
    BY <1>5, <1>7, <2>1 DEF Fits, Answers, Shape
  <2>5. Rotates(q, r)'
    <3>1. r.pc = "seal" => ~Live
      BY <1>1, <1>7, NobodyRotates
    <3> QED  BY <1>1, <1>2, <1>7, <3>1 DEF Fits, Rotates
  <2> QED  BY <2>1, <2>2, <2>3, <2>4, <2>5 DEF Fits
<1>8. req[p].pc = "write"
  BY DEF DeleteGroup
<1> QED  BY <1>1, <1>6, <1>7, <1>8, LockFree, DoneFits DEF IInv

----------------------------------------------------------------------------
(* A step that changes only rows of consent_requests.                      *)
LEMMA InviteStep ==
  ASSUME IInv, NEW p \in Handlers, NEW r, req' = [req EXCEPT ![p] = r], Fits(p, r)',
         invite' \in [Invites -> Invite],
         \A i \in Invites :
           /\ invite[i].state # "none" => invite'[i].state # "none"
           /\ Exists(i)' => /\ invite'[i].to \in Users
                            /\ ~Live => invite'[i].kind = "private"
                            /\ {invite'[i].from, invite'[i].to} \cap erased = {}
           /\ invite'[i].state = "accepted" => invite'[i].made > 0
           /\ invite[i].made > 0 /\ (Exists(i)' => Exists(i)) => invite'[i].made > 0
           /\ invite[i].state # "none" => (Exists(i)' <=> Exists(i)),
         UNCHANGED <<members, published, keys, locks, client, faults>>
  PROVE  IInv'
<1>1. UNCHANGED <<group, role, muted, mark, erased, published, keys, joinLock, rowLock, client, faults>>
  BY DEF members, locks
<1>2. Members' = Members /\ Live' = Live /\ \A u : Full(u)' = Full(u)
  BY <1>1 DEF Members, Live, Full
<1>3. Rows'
  BY <1>1, <1>2 DEF IInv, Rows, Types, Few, LimitKept, OwnerStands, Forgotten, NothingLeft, AcceptedIsDone,
                    Named, KeyReaches
<1>4. ASSUME NEW q \in Handlers, NEW s, Fits(q, s) PROVE Fits(q, s)'
  <2>1. Shape(s) /\ Joins(q, s)' /\ Early(s)' /\ Ranks(s)' /\ Rotates(q, s)'
    BY <1>1, <1>2, <1>4 DEF Fits, Joins, Early, Ranks, Rotates, Sealed
  <2>2. Answers(s)'
    BY <1>4, <2>1 DEF Fits, Answers, Shape
  <2> QED  BY <2>1, <2>2 DEF Fits
<1>5. Requests'
  BY <1>4, OthersFit DEF IInv
<1> QED  BY <1>3, <1>5 DEF IInv

(* A finished request fits whatever became of the rows.                    *)
LEMMA NoReqFitsNext ==
  ASSUME NEW p \in Handlers, joinLock' # p, rowLock' # p
  PROVE  Fits(p, NoReq)'
<1>1. Shape(NoReq) /\ NoReq.op = "none" /\ NoReq.pc = "idle"
  BY NoReqFields
<1> QED  BY <1>1 DEF Fits, Joins, Early, Ranks, Answers, Rotates

LEMMA InviteFacts ==
  ASSUME IInv, NEW i \in Invites
  PROVE  /\ invite[i] \in Invite
         /\ invite[i].state = "accepted" => invite[i].made > 0
         /\ Exists(i) => /\ invite[i].to \in Users
                         /\ ~Live => invite[i].kind = "private"
                         /\ {invite[i].from, invite[i].to} \cap erased = {}
         /\ invite[i].made \in Nat
  BY DEF IInv, Rows, Types, AcceptedIsDone, Named, NothingLeft, Forgotten, Invite

LEMMA CreateInviteInv ==
  ASSUME IInv, NEW p \in Handlers, CreateInvite(p)
  PROVE  IInv'
<1>1. PICK s, kind, user, target :
        /\ s = req[p] /\ kind = IF s.op = "start" THEN "private" ELSE "group"
        /\ user = s.user /\ target = s.target
  OBVIOUS
<1>2. Fits(p, s) /\ s.pc = "write" /\ s.op \in {"invite", "start"}
  BY <1>1, HeldBy DEF CreateInvite
<1>3. target \in Users /\ user \in Users \cup {None}
  BY <1>1, <1>2 DEF Fits, Shape, Targeted, Req
<1>4. Done(p) /\ UNCHANGED <<members, published, keys, locks, client, faults>>
  BY DEF CreateInvite
<1>5. CASE UNCHANGED invite
  BY <1>1, <1>2, <1>4, <1>5, DoneQuiet
<1>6. CASE invite' # invite
  <2>1. PICK j \in Invites :
          /\ kind = "private" \/ Live
          /\ {user, target} \cap erased = {}
          /\ invite[j].state = "none"
          /\ invite' = [invite EXCEPT ![j] = NewInvite("pending", kind, user, target)]
    BY <1>1, <1>6 DEF CreateInvite
  <2>2. PICK n : n = NewInvite("pending", kind, user, target)
    OBVIOUS
  <2>3. n.state = "pending" /\ n.kind = kind /\ n.from = user /\ n.to = target /\ n \in Invite
    BY <1>1, <1>3, <2>2, InviteFields
  <2>4. /\ invite \in [Invites -> Invite]
        /\ invite' = [invite EXCEPT ![j] = n]
    BY <2>1, <2>2 DEF IInv, Rows, Types
  <2>5. /\ invite' \in [Invites -> Invite] /\ invite'[j] = n
        /\ \A i \in Invites : i # j => invite'[i] = invite[i]
    BY <2>3, <2>4
  <2>6. \A i \in Invites : i # j => (Exists(i)' <=> Exists(i))
    BY <2>5 DEF Exists
  <2>7. Exists(j)' /\ ~Exists(j)
    BY <2>1, <2>3, <2>5 DEF Exists
  <2>8. Fits(p, NoReq)'
    BY <1>1, <1>2, <1>4, LockFree, NoReqFitsNext DEF locks
  <2> QED
    BY <1>3, <1>4, <2>1, <2>3, <2>5, <2>6, <2>7, <2>8, InviteFacts, InviteStep DEF Done
<1> QED  BY <1>5, <1>6

LEMMA DeclineInv ==
  ASSUME IInv, NEW p \in Handlers, Decline(p)
  PROVE  IInv'
<1>1. PICK s, j : s = req[p] /\ j = s.row
  OBVIOUS
<1>2. Fits(p, s) /\ s.pc = "write" /\ s.op = "decline"
  BY <1>1, HeldBy DEF Decline
<1>3. j \in Invites
  BY <1>1, <1>2 DEF Fits, Shape
<1>4. PICK state : state = IF invite[j].state = "pending" THEN "declined" ELSE invite[j].state
  OBVIOUS
<1>5. /\ invite \in [Invites -> Invite] /\ invite' = [invite EXCEPT ![j].state = state]
      /\ Done(p) /\ UNCHANGED <<members, published, keys, locks, client, faults>>
  BY <1>1, <1>4 DEF Decline, IInv, Rows, Types
<1>6. /\ invite'[j] \in Invite /\ invite'[j].state = state /\ invite'[j].kind = invite[j].kind
      /\ invite'[j].from = invite[j].from /\ invite'[j].to = invite[j].to
      /\ invite'[j].made = invite[j].made
      /\ \A i \in Invites : i # j => invite'[i] = invite[i]
  BY <1>3, <1>4, <1>5 DEF Invite
<1>7. invite' \in [Invites -> Invite]
  BY <1>3, <1>5, <1>6
<1>8. \A i \in Invites : Exists(i)' <=> Exists(i)
  BY <1>3, <1>4, <1>6 DEF Exists
<1>9. Fits(p, NoReq)'
  BY <1>1, <1>2, <1>5, LockFree, NoReqFitsNext DEF locks
<1>10. ASSUME NEW i \in Invites
      PROVE  /\ invite[i].state # "none" => invite'[i].state # "none"
             /\ Exists(i)' => /\ invite'[i].to \in Users
                              /\ ~Live => invite'[i].kind = "private"
                              /\ {invite'[i].from, invite'[i].to} \cap erased = {}
             /\ invite'[i].state = "accepted" => invite'[i].made > 0
             /\ invite[i].made > 0 => invite'[i].made > 0
             /\ Exists(i)' <=> Exists(i)
  <2>1. CASE i = j
    BY <1>3, <1>4, <1>6, <1>8, <2>1, InviteFacts DEF Exists
  <2>2. CASE i # j
    BY <1>6, <1>8, <2>2, InviteFacts
  <2> QED  BY <2>1, <2>2
<1> QED  BY <1>5, <1>7, <1>9, <1>10, InviteStep DEF Done

LEMMA MarkAcceptedInv ==
  ASSUME IInv, NEW p \in Handlers, MarkAccepted(p)
  PROVE  IInv'
<1>1. PICK s, j : s = req[p] /\ j = s.row
  OBVIOUS
<1>2. Fits(p, s) /\ s.pc = "mark" /\ s.op = "accept"
  BY <1>1, HeldBy DEF MarkAccepted, Fits, Shape
<1>3. j \in Invites
  BY <1>1, <1>2 DEF Fits, Shape
<1>4. PICK state : state = IF Exists(j) THEN "accepted" ELSE invite[j].state
  OBVIOUS
<1>5. /\ invite \in [Invites -> Invite] /\ invite' = [invite EXCEPT ![j].state = state]
      /\ Done(p) /\ UNCHANGED <<members, published, keys, locks, client, faults>>
  BY <1>1, <1>4 DEF MarkAccepted, IInv, Rows, Types
<1>6. /\ invite'[j] \in Invite /\ invite'[j].state = state /\ invite'[j].kind = invite[j].kind
      /\ invite'[j].from = invite[j].from /\ invite'[j].to = invite[j].to
      /\ invite'[j].made = invite[j].made
      /\ \A i \in Invites : i # j => invite'[i] = invite[i]
  BY <1>3, <1>4, <1>5 DEF Invite
<1>7. invite' \in [Invites -> Invite]
  BY <1>3, <1>5, <1>6
<1>8. \A i \in Invites : Exists(i)' <=> Exists(i)
  BY <1>3, <1>4, <1>6 DEF Exists
<1>9. Exists(j) => invite[j].made > 0
  BY <1>1, <1>2 DEF Fits, Answers
<1>10. Fits(p, NoReq)'
  BY <1>1, <1>2, <1>5, LockFree, NoReqFitsNext DEF locks
<1>11. ASSUME NEW i \in Invites
      PROVE  /\ invite[i].state # "none" => invite'[i].state # "none"
             /\ Exists(i)' => /\ invite'[i].to \in Users
                              /\ ~Live => invite'[i].kind = "private"
                              /\ {invite'[i].from, invite'[i].to} \cap erased = {}
             /\ invite'[i].state = "accepted" => invite'[i].made > 0
             /\ invite[i].made > 0 => invite'[i].made > 0
             /\ Exists(i)' <=> Exists(i)
  <2>1. CASE i = j
    BY <1>3, <1>4, <1>6, <1>8, <1>9, <2>1, InviteFacts DEF Exists
  <2>2. CASE i # j
    BY <1>6, <1>8, <2>2, InviteFacts
  <2> QED  BY <2>1, <2>2
<1> QED  BY <1>5, <1>7, <1>10, <1>11, InviteStep DEF Done

(* What accepting an invitation brings about is counted.                   *)
LEMMA Made ==
  ASSUME IInv, NEW j \in Invites, Make(j)
  PROVE  /\ invite' \in [Invites -> Invite]
         /\ invite'[j].state = invite[j].state /\ invite'[j].kind = invite[j].kind
         /\ invite'[j].from = invite[j].from /\ invite'[j].to = invite[j].to
         /\ invite'[j].made = invite[j].made + 1
         /\ invite'[j].made > 0
         /\ \A i \in Invites : i # j => invite'[i] = invite[i]
         /\ \A i \in Invites : Exists(i)' <=> Exists(i)
<1>1. PICK m : m = invite[j].made + 1
  OBVIOUS
<1>2. invite \in [Invites -> Invite] /\ invite' = [invite EXCEPT ![j].made = m]
  BY <1>1 DEF Make, IInv, Rows, Types
<1>3. m \in Nat /\ m > 0
  BY <1>1, InviteFacts
<1>4. /\ invite'[j] \in Invite
      /\ invite'[j].state = invite[j].state /\ invite'[j].kind = invite[j].kind
      /\ invite'[j].from = invite[j].from /\ invite'[j].to = invite[j].to /\ invite'[j].made = m
      /\ \A i \in Invites : i # j => invite'[i] = invite[i]
  BY <1>2, <1>3 DEF Invite
<1>5. invite' \in [Invites -> Invite]
  BY <1>2, <1>4
<1>6. \A i \in Invites : Exists(i)' <=> Exists(i)
  BY <1>4 DEF Exists
<1> QED  BY <1>1, <1>3, <1>4, <1>5, <1>6

LEMMA CreatePrivateInv ==
  ASSUME IInv, NEW p \in Handlers, CreatePrivate(p)
  PROVE  IInv'
<1>1. PICK s, j : s = req[p] /\ j = s.row
  OBVIOUS
<1>2. Fits(p, s) /\ s.pc = "create" /\ s.op = "accept" /\ s \in Req
  BY <1>1, HeldBy DEF CreatePrivate, Fits, Shape
<1>3. CASE ~Exists(j)
  BY <1>1, <1>2, <1>3, DoneQuiet DEF CreatePrivate
<1> SUFFICES ASSUME Exists(j) PROVE IInv'
  BY <1>3
<1>4. j \in Invites /\ Make(j)
  BY <1>1, <1>2 DEF Fits, Shape, CreatePrivate
<1>5. PICK r : r = [s EXCEPT !.pc = "mark"]
  OBVIOUS
<1>6. req' = [req EXCEPT ![p] = r] /\ UNCHANGED <<members, published, keys, locks, client, faults>>
  BY <1>1, <1>2, <1>5 DEF CreatePrivate, Go
<1>7. /\ r \in Req /\ r.op = s.op /\ r.pc = "mark" /\ r.target = s.target /\ r.row = s.row
      /\ r.user = s.user /\ r.to = s.to /\ r.done = s.done
  BY <1>2, <1>5, GoFields DEF Pc
<1>8. Shape(r)
  BY <1>2, <1>7 DEF Fits, Shape, Targeted
<1>9. Answers(r)'
  BY <1>1, <1>2, <1>4, <1>7, Made DEF Answers, Fits
<1>10. Fits(p, r)'
  <2>1. joinLock' # p /\ rowLock' # p
    BY <1>1, <1>2, <1>6, LockFree DEF locks
  <2>2. Early(r)' /\ Ranks(r)'
    BY <1>2, <1>6, <1>7 DEF Fits, Early, Ranks, members
  <2> QED  BY <1>7, <1>8, <1>9, <2>1, <2>2 DEF Fits, Joins, Rotates
<1> QED  BY <1>6, <1>10, <1>4, Made, InviteFacts, InviteStep

----------------------------------------------------------------------------
(* Only locks and one request change.                                      *)
LEMMA LockStep ==
  ASSUME IInv, NEW p \in Handlers, NEW r, req' = [req EXCEPT ![p] = r], Fits(p, r)',
         joinLock' \in Handlers \cup {None}, rowLock' \in Handlers \cup {None},
         ~Live => rowLock' = None,
         \A q \in Handlers : q # p => /\ joinLock' = q <=> joinLock = q
                                      /\ Live => (rowLock' = q <=> rowLock = q),
         UNCHANGED <<members, invite, published, keys, client>>, faults' \in Nat
  PROVE  IInv'
<1>1. UNCHANGED <<group, role, muted, mark, erased, invite, published, keys, client>>
  BY DEF members
<1>2. Members' = Members /\ Live' = Live /\ (\A u : Full(u)' = Full(u)) /\ (\A i : Exists(i)' = Exists(i))
  BY <1>1 DEF Members, Live, Full, Exists
<1>3. Rows'
  BY <1>1, <1>2 DEF IInv, Rows, Types, Few, LimitKept, OwnerStands, Forgotten, NothingLeft, AcceptedIsDone,
                    Named, KeyReaches
<1>4. ASSUME NEW q \in Handlers, q # p, NEW s, Fits(q, s) PROVE Fits(q, s)'
  <2>1. Shape(s) /\ Early(s)' /\ Ranks(s)' /\ Answers(s)'
    BY <1>1, <1>2, <1>4 DEF Fits, Early, Ranks, Answers
  <2>2. Joins(q, s)'
    BY <1>2, <1>4 DEF Fits, Joins
  <2>3. Sealed(s)' <=> Sealed(s)
    BY <1>1 DEF Sealed
  <2>4. Rotates(q, s)'
    BY <1>1, <1>2, <1>4, <2>3 DEF Fits, Rotates
  <2> QED  BY <2>1, <2>2, <2>4 DEF Fits
<1>5. Requests'
  BY <1>4, OthersFit DEF IInv
<1> QED  BY <1>3, <1>5 DEF IInv

LEMMA CountInv ==
  ASSUME IInv, NEW p \in Handlers, CountMembers(p)
  PROVE  IInv'
<1>1. PICK s : s = req[p]
  OBVIOUS
<1>2. Fits(p, s) /\ s.pc = "sum" /\ s \in Req /\ joinLock = None /\ joinLock # p /\ rowLock # p
  BY <1>1, HeldBy, LockFree DEF CountMembers, MayCount
<1>3. UNCHANGED <<members, invite, published, keys, rowLock, client, faults>>
  BY DEF CountMembers
<1>4. CASE Full(s.target)
  BY <1>1, <1>2, <1>3, <1>4, DoneQuiet DEF CountMembers, Refuse, locks
<1>5. CASE ~Full(s.target)
  <2>1. PICK r : r = [s EXCEPT !.pc = "insert"]
    OBVIOUS
  <2>2. req' = [req EXCEPT ![p] = r] /\ joinLock' = p
    BY <1>1, <1>5, <2>1 DEF CountMembers, Go
  <2>3. /\ r \in Req /\ r.op = s.op /\ r.pc = "insert" /\ r.target = s.target /\ r.row = s.row
        /\ r.user = s.user /\ r.to = s.to /\ r.done = s.done
    BY <1>2, <2>1, GoFields DEF Pc
  <2>4. Shape(r)
    BY <1>2, <2>3 DEF Fits, Shape, Targeted
  <2>5. Joins(p, r)'
    BY <1>3, <1>5, <2>2, <2>3 DEF Joins, Full, Members, members
  <2>6. Early(r)' /\ Ranks(r)' /\ Answers(r)'
    BY <1>2, <1>3, <2>3 DEF Fits, Early, Ranks, Answers, Exists, members
  <2>7. Rotates(p, r)'
    BY <1>2, <1>3, <2>3 DEF Rotates
  <2>8. Fits(p, r)'
    BY <2>4, <2>5, <2>6, <2>7 DEF Fits
  <2>9. /\ rowLock' \in Handlers \cup {None} /\ faults' \in Nat /\ (~Live => rowLock' = None)
    BY <1>3 DEF IInv, Rows, Types, NothingLeft
  <2> QED  BY <1>2, <1>3, <2>2, <2>8, <2>9, LockStep
<1> QED  BY <1>4, <1>5

(* Who enters was counted, and knows no key but those published from now.  *)
LEMMA EnterInv ==
  ASSUME IInv, NEW p \in Handlers, NEW t \in Users, Fits(p, req[p]), req[p].pc = "insert",
         req[p].target = t, role[t] = "none", t \notin erased, Live, rowLock = None, Enter(t), joinLock' = None,
         UNCHANGED <<published, keys, rowLock, client, faults>>,
         invite' \in [Invites -> Invite],
         \A i \in Invites : /\ invite'[i].state = invite[i].state /\ invite'[i].kind = invite[i].kind
                            /\ invite'[i].from = invite[i].from /\ invite'[i].to = invite[i].to
                            /\ invite'[i].made >= invite[i].made
  PROVE  /\ Rows'
         /\ \A q \in Handlers : q # p => \A s : Fits(q, s) => Fits(q, s)'
<1>1. /\ role' = [role EXCEPT ![t] = "member"]
      /\ mark' = [mark EXCEPT ![t] = IF t \in published THEN Len(keys) ELSE 0]
      /\ UNCHANGED <<group, erased, muted>>
  BY DEF Enter
<1>2. Types /\ Live' = Live /\ \A i \in Invites : Exists(i)' = Exists(i)
  BY <1>1 DEF IInv, Rows, Live, Exists
<1>3. Len(keys) \in Nat
  BY <1>2 DEF Types
<1>4. /\ role'[t] = "member" /\ mark'[t] = (IF t \in published THEN Len(keys) ELSE 0)
      /\ \A v \in Users : v # t => role'[v] = role[v] /\ mark'[v] = mark[v]
  BY <1>1, <1>2 DEF Types
<1>5. Members' = Members \cup {t} /\ t \notin Members
  BY <1>4 DEF Members
<1>6. /\ IsFiniteSet(Members') /\ Cardinality(Members) \in Nat
      /\ Cardinality(Members') = Cardinality(Members) + 1
  BY <1>5, FS_AddElement, FS_CardinalityType DEF IInv, Rows, Few
<1>7. Cardinality(Members) < MaxMembers /\ MaxMembers \in Nat
  <2>1. ~Full(t)
    BY DEF Fits, Joins
  <2> QED  BY <1>6, <2>1 DEF Full
<1>8. Rows'
  <2>1. Types'
    BY <1>1, <1>2, <1>3 DEF Types, Role
  <2>2. Few'
    BY <1>6, <1>7 DEF Few, LimitKept
  <2>3. OwnerStands' /\ Forgotten'
    <3>1. group.owner \in Users \cup {None} /\ t # group.owner
      BY <1>2 DEF IInv, Rows, Types, Group, OwnerStands
    <3>2. OwnerStands'
      BY <1>1, <1>2, <1>4, <3>1 DEF IInv, Rows, OwnerStands
    <3>3. erased \subseteq Users
      BY <1>2 DEF Types
    <3>4. Forgotten'
      BY <1>1, <1>2, <1>4, <3>3 DEF IInv, Rows, Forgotten
    <3> QED  BY <3>2, <3>4
  <2>4. NothingLeft' /\ Named'
    BY <1>1, <1>2 DEF IInv, Rows, NothingLeft, Named
  <2>5. AcceptedIsDone'
    BY <1>2 DEF IInv, Rows, AcceptedIsDone, Types, Invite
  <2>6. KeyReaches'
    BY <1>3, <1>4 DEF IInv, Rows, KeyReaches
  <2> QED  BY <2>1, <2>2, <2>3, <2>4, <2>5, <2>6 DEF Rows
<1>9. ASSUME NEW q \in Handlers, q # p, NEW s, Fits(q, s) PROVE Fits(q, s)'
  <2>1. Shape(s) /\ Early(s)'
    BY <1>1, <1>9 DEF Fits, Early
  <2>2. joinLock = p /\ s.pc # "insert" /\ s.pc \notin {"cover", "seal"}
    BY <1>9, NobodyRotates DEF Fits, Joins
  <2>3. Joins(q, s)'
    BY <2>2 DEF Joins
  <2>4. Ranks(s)'
    BY <1>4, <1>9, <2>1 DEF Fits, Ranks, Shape, Targeted
  <2>5. Answers(s)'
    <3>1. \A i \in Invites : invite[i].made \in Nat /\ invite'[i].made \in Nat
      BY <1>2 DEF Types, Invite
    <3> QED  BY <1>2, <1>9, <2>1, <3>1 DEF Fits, Answers, Shape
  <2>6. Rotates(q, s)'
    BY <2>2 DEF Rotates
  <2> QED  BY <2>1, <2>3, <2>4, <2>5, <2>6 DEF Fits
<1> QED  BY <1>8, <1>9

LEMMA InsertInv ==
  ASSUME IInv, NEW p \in Handlers, InsertMember(p)
  PROVE  IInv'
<1>1. PICK s, t, j : s = req[p] /\ t = s.target /\ j = s.row
  OBVIOUS
<1>2. Fits(p, s) /\ s.pc = "insert" /\ s \in Req /\ s.op \in {"join", "accept"} /\ t \in Users
      /\ joinLock = p /\ joinLock' = None /\ rowLock # p
  <2>1. Fits(p, s) /\ s.pc = "insert" /\ s \in Req /\ joinLock' = None
    BY <1>1, HeldBy DEF InsertMember
  <2>2. rowLock # p
    BY <1>1, <2>1, HeldBy DEF IInv, Rows, NothingLeft
  <2> QED  BY <1>1, <2>1, <2>2 DEF Fits, Shape, Joins, Targeted
<1>3. UNCHANGED <<published, keys, rowLock, client, faults>>
  BY DEF InsertMember
<1>4. /\ rowLock' \in Handlers \cup {None} /\ faults' \in Nat /\ (~Live => rowLock' = None)
  BY <1>3 DEF IInv, Rows, Types, NothingLeft
<1>5. Fits(p, NoReq)'
  BY <1>2, <1>3, NoReqFitsNext
<1>6. CASE ~Insertable(s)
  <2>1. Done(p) /\ UNCHANGED <<members, invite>>
    BY <1>1, <1>2, <1>6 DEF InsertMember
  <2> QED  BY <1>2, <1>3, <1>4, <1>5, <2>1, LockStep DEF Done
<1>7. CASE Insertable(s)
  <2>0. Live /\ t \notin erased
    BY <1>1, <1>7 DEF Insertable
  <2>1. PICK r : r = IF s.op = "accept" THEN [s EXCEPT !.pc = "mark"] ELSE NoReq
    OBVIOUS
  <2>2. /\ req' = [req EXCEPT ![p] = r]
        /\ IF s.op = "accept" THEN Make(j) ELSE UNCHANGED invite
        /\ \/ role[t] # "none" /\ UNCHANGED members
           \/ role[t] = "none" /\ Unlocked /\ Enter(t)
    BY <1>1, <1>2, <1>7, <2>1 DEF InsertMember, Go, Done
  <2>3. s.op = "accept" => j \in Invites
    BY <1>1, <1>2 DEF Fits, Shape
  <2>4. /\ invite' \in [Invites -> Invite]
        /\ \A i \in Invites :
             /\ invite'[i].state = invite[i].state /\ invite'[i].kind = invite[i].kind
             /\ invite'[i].from = invite[i].from /\ invite'[i].to = invite[i].to
             /\ invite'[i].made >= invite[i].made
             /\ Exists(i)' = Exists(i)
        /\ s.op = "accept" => invite'[j].made > 0
    <3>1. CASE s.op = "accept"
      <4>1. Make(j) /\ j \in Invites
        BY <2>2, <2>3, <3>1
      <4> HIDE DEF Make
      <4>2. /\ invite' \in [Invites -> Invite]
            /\ invite'[j].state = invite[j].state /\ invite'[j].kind = invite[j].kind
            /\ invite'[j].from = invite[j].from /\ invite'[j].to = invite[j].to
            /\ invite'[j].made = invite[j].made + 1
            /\ invite'[j].made > 0
            /\ \A i \in Invites : i # j => invite'[i] = invite[i]
            /\ \A i \in Invites : Exists(i)' <=> Exists(i)
        BY <4>1, Made
      <4>3. \A i \in Invites : invite[i].made \in Nat
        BY InviteFacts
      <4> QED  BY <4>2, <4>3 DEF Exists
    <3>2. CASE s.op # "accept"
      <4>1. UNCHANGED invite
        BY <2>2, <3>2
      <4>2. \A i \in Invites : invite[i].made \in Nat
        BY InviteFacts
      <4> QED  BY <3>2, <4>1, <4>2 DEF IInv, Rows, Types, Exists
    <3> QED  BY <3>1, <3>2
  <2>5. Fits(p, r)'
    <3>1. CASE s.op # "accept"
      BY <1>5, <2>1, <3>1
    <3>2. CASE s.op = "accept"
      <4>1. /\ r \in Req /\ r.op = "accept" /\ r.pc = "mark" /\ r.target = t /\ r.row = j
            /\ r.user = s.user /\ r.to = s.to /\ r.done = s.done
        BY <1>1, <1>2, <2>1, <3>2, GoFields DEF Pc
      <4>2. Shape(r)
        BY <1>2, <2>3, <3>2, <4>1 DEF Shape, Targeted
      <4>3. Answers(r)'
        <5>1. invite[j].state # "none"
          BY <1>1, <1>2, <3>2 DEF Fits, Answers
        <5> QED  BY <2>3, <2>4, <3>2, <4>1, <5>1 DEF Answers
      <4>4. Joins(p, r)' /\ Early(r)' /\ Ranks(r)'
        <5>1. group'.state = "live"
          BY <2>0, <2>2 DEF Live, Enter, members
        <5> QED  BY <1>2, <4>1, <5>1 DEF Joins, Early, Ranks
      <4>5. Rotates(p, r)'
        BY <1>2, <1>3, <4>1 DEF Rotates
      <4> QED  BY <4>2, <4>3, <4>4, <4>5 DEF Fits
    <3> QED  BY <3>1, <3>2
  <2>6. CASE role[t] # "none" /\ UNCHANGED members
    <3>1. Rows'
      <4>1. Members' = Members /\ Live' = Live
        BY <2>6 DEF Members, Live, members
      <4>2. \A i \in Invites : invite[i] \in Invite /\ invite'[i].made \in Nat
        BY <2>4, InviteFacts DEF Invite
      <4>3. AcceptedIsDone'
        BY <2>4, <4>2 DEF IInv, Rows, AcceptedIsDone, Invite
      <4> QED
        BY <1>2, <1>3, <2>4, <2>6, <4>1, <4>3 DEF members, IInv, Rows, Types, Few, LimitKept,
              OwnerStands, Forgotten, NothingLeft, Named, KeyReaches
    <3>2. ASSUME NEW q \in Handlers, q # p, NEW x, Fits(q, x) PROVE Fits(q, x)'
      <4>1. Shape(x) /\ Early(x)' /\ Ranks(x)' /\ Rotates(q, x)'
        BY <1>3, <2>6, <3>2 DEF members, Fits, Early, Ranks, Rotates, Sealed, Live
      <4>2. Joins(q, x)'
        BY <1>2, <3>2 DEF Fits, Joins
      <4>3. Answers(x)'
        <5>1. \A i \in Invites : invite[i].made \in Nat /\ invite'[i].made \in Nat
          BY <2>4, InviteFacts DEF Invite
        <5> QED  BY <2>4, <3>2, <4>1, <5>1 DEF Fits, Answers, Shape
      <4> QED  BY <4>1, <4>2, <4>3 DEF Fits
    <3>3. Requests'
      BY <2>2, <2>5, <3>2, OthersFit DEF IInv
    <3> QED  BY <3>1, <3>3 DEF IInv
  <2>7. CASE role[t] = "none" /\ Unlocked /\ Enter(t)
    <3>1. Rows' /\ \A q \in Handlers : q # p => \A x : Fits(q, x) => Fits(q, x)'
      BY <1>1, <1>2, <1>3, <2>0, <2>4, <2>7, EnterInv DEF Unlocked
    <3>2. Requests'
      BY <2>2, <2>5, <3>1, OthersFit DEF IInv
    <3> QED  BY <3>1, <3>2 DEF IInv
  <2> QED  BY <2>2, <2>6, <2>7
<1> QED  BY <1>6, <1>7

----------------------------------------------------------------------------
(* Rotations.  One that finds a live conversation holds its row from then  *)
(* on, and nobody else writes a version.                                   *)
LEMMA LockInv ==
  ASSUME IInv, NEW p \in Handlers, LockConversation(p)
  PROVE  IInv'
<1>1. PICK s : s = req[p]
  OBVIOUS
<1>2. Fits(p, s) /\ s.pc = "lock" /\ s \in Req /\ rowLock = None /\ joinLock # p /\ rowLock # p
  BY <1>1, HeldBy, LockFree DEF LockConversation, MayLock, Unlocked
<1>3. UNCHANGED <<group, role, muted, erased, invite, published, joinLock, client, faults>>
  BY DEF LockConversation
<1>4. Len(keys) \in Nat /\ keys \in Seq(SUBSET Users) /\ Types
  BY DEF IInv, Rows, Types
<1>5. PICK n \in 0 .. Len(keys) :
        /\ LastVersion(n) /\ keys' = SubSeq(keys, 1, n)
        /\ mark' = [u \in Users |-> IF mark[u] > n THEN n ELSE mark[u]]
        /\ IF n < MaxVersion
           THEN /\ req' = [req EXCEPT ![p].pc = "cover", ![p].version = n + 1]
                /\ rowLock' = IF Live THEN p ELSE None
           ELSE Done(p) /\ UNCHANGED rowLock
  BY DEF LockConversation
<1>6. /\ keys' \in Seq(SUBSET Users) /\ Len(keys') = n /\ n \in Nat
      /\ \A v \in 1 .. n : v \in 1 .. Len(keys) /\ keys'[v] = keys[v]
  BY <1>4, <1>5
<1>7. \A u \in Users : /\ mark[u] \in Nat /\ mark'[u] \in Nat
                       /\ mark'[u] = IF mark[u] > n THEN n ELSE mark[u]
  BY <1>4, <1>5, <1>6 DEF Types
<1>8. Members' = Members /\ Live' = Live /\ (\A u : Full(u)' = Full(u)) /\ (\A i : Exists(i)' = Exists(i))
  BY <1>3 DEF Members, Live, Full, Exists
<1>9. rowLock' \in {p, None} /\ (~Live => rowLock' = None)
  BY <1>2, <1>5
<1>10. Rows'
  <2>1. Types'
    BY <1>2, <1>3, <1>4, <1>5, <1>6, <1>7, <1>9 DEF Types
  <2>2. KeyReaches'
    <3> SUFFICES ASSUME NEW v \in 1 .. n, NEW u \in Users
                 PROVE  /\ role[u] # "none" /\ u \in published /\ mark'[u] < v => u \in keys[v]
                        /\ role[u] = "none" /\ u \in keys[v] => v <= mark'[u]
      BY <1>3, <1>6 DEF KeyReaches
    <3>1. /\ role[u] # "none" /\ u \in published /\ mark[u] < v => u \in keys[v]
          /\ role[u] = "none" /\ u \in keys[v] => v <= mark[u]
      BY <1>6 DEF IInv, Rows, KeyReaches
    <3> QED  BY <1>6, <1>7, <3>1
  <2>3. NothingLeft'
    <3>1. ~Live => keys = <<>>
      BY DEF IInv, Rows, NothingLeft
    <3>2. ~Live => keys' = <<>>
      BY <1>4, <1>5, <3>1
    <3> QED  BY <1>3, <1>8, <1>9, <3>2 DEF IInv, Rows, NothingLeft
  <2>4. Forgotten'
    BY <1>3, <1>6, <1>8 DEF IInv, Rows, Forgotten
  <2>5. Few' /\ OwnerStands' /\ AcceptedIsDone' /\ Named'
    BY <1>3, <1>8 DEF IInv, Rows, Few, LimitKept, OwnerStands, AcceptedIsDone, Named
  <2> QED  BY <2>1, <2>2, <2>3, <2>4, <2>5 DEF Rows
<1>11. ASSUME NEW q \in Handlers, q # p, NEW x, Fits(q, x) PROVE Fits(q, x)'
  <2>1. Shape(x) /\ Joins(q, x)' /\ Early(x)' /\ Ranks(x)' /\ Answers(x)'
    BY <1>3, <1>8, <1>11 DEF Fits, Joins, Early, Ranks, Answers
  <2>2. Live => x.pc \notin {"cover", "seal"}
    BY <1>2, <1>11, NobodyRotates
  <2>3. rowLock' # q
    BY <1>9, <1>11, GroupsAssumption
  <2>4. Rotates(q, x)'
    BY <1>3, <1>8, <1>11, <2>2, <2>3 DEF Fits, Rotates
  <2> QED  BY <2>1, <2>4 DEF Fits
<1>12. CASE ~(n < MaxVersion)
  <2>1. Done(p) /\ joinLock' # p /\ rowLock' # p
    BY <1>2, <1>3, <1>5, <1>12
  <2> QED  BY <1>10, <1>11, <2>1, DoneFits DEF IInv
<1>13. CASE n < MaxVersion
  <2>1. PICK r : r = [s EXCEPT !.pc = "cover", !.version = n + 1]
    OBVIOUS
  <2>2. req' = [req EXCEPT ![p] = r] /\ rowLock' = IF Live THEN p ELSE None
    BY <1>1, <1>5, <1>13, <2>1
  <2>3. /\ r \in Req /\ r.op = s.op /\ r.pc = "cover" /\ r.target = s.target /\ r.row = s.row
        /\ r.user = s.user /\ r.to = s.to /\ r.done = s.done /\ r.version = n + 1
    <3>1. PICK m \in Nat : m = n + 1
      BY <1>6
    <3>2. PICK pc \in Pc : pc = "cover"
      BY DEF Pc
    <3>3. r = [s EXCEPT !.pc = pc, !.version = m]
      BY <2>1, <3>1, <3>2
    <3> QED  BY <1>2, <3>1, <3>2, <3>3 DEF Req
  <2>4. Shape(r) /\ r.op = "rotate"
    BY <1>2, <2>3 DEF Fits, Shape, Targeted
  <2>5. Joins(p, r)' /\ Early(r)' /\ Ranks(r)' /\ Answers(r)'
    BY <1>2, <1>3, <2>3, <2>4 DEF Fits, Joins, Early, Ranks, Answers
  <2>6. Rotates(p, r)'
    BY <1>2, <1>3, <1>6, <1>8, <2>2, <2>3 DEF Fits, Rotates
  <2>7. Fits(p, r)'
    BY <2>4, <2>5, <2>6 DEF Fits
  <2>8. Requests'
    BY <1>11, <2>2, <2>7, OthersFit DEF IInv
  <2> QED  BY <1>10, <2>8 DEF IInv
<1> QED  BY <1>12, <1>13

(* A rotation that fails gives the conversation back.                      *)
LEMMA GiveUpInv ==
  ASSUME IInv, NEW p \in Handlers, Done(p), joinLock' = IF joinLock = p THEN None ELSE joinLock,
         rowLock' = Unlock(p), UNCHANGED <<members, invite, published, keys, client>>, faults' \in Nat
  PROVE  IInv'
<1>1. Types /\ (~Live => rowLock = None)
  BY DEF IInv, Rows, NothingLeft
<1>2. Fits(p, NoReq)'
  BY NoReqFitsNext DEF Unlock
<1>3. /\ joinLock' \in Handlers \cup {None} /\ rowLock' \in Handlers \cup {None}
      /\ ~Live => rowLock' = None
      /\ \A q \in Handlers : q # p => /\ joinLock' = q <=> joinLock = q
                                      /\ Live => (rowLock' = q <=> rowLock = q)
  BY <1>1 DEF Types, Unlock
<1> QED  BY <1>2, <1>3, LockStep DEF Done

LEMMA CoverageInv ==
  ASSUME IInv, NEW p \in Handlers, CheckCoverage(p)
  PROVE  IInv'
<1>1. PICK s : s = req[p]
  OBVIOUS
<1>2. Fits(p, s) /\ s.pc = "cover" /\ s \in Req /\ joinLock # p
  BY <1>1, HeldBy DEF CheckCoverage
<1>3. UNCHANGED <<members, invite, published, keys, joinLock, client, faults>>
  BY DEF CheckCoverage
<1>4. Types
  BY DEF IInv, Rows
<1>5. CASE ~Covers(s.to)
  BY <1>1, <1>2, <1>3, <1>4, <1>5, GiveUpInv DEF CheckCoverage, Types
<1>6. CASE Covers(s.to)
  <2>1. PICK r : r = [s EXCEPT !.pc = "seal"]
    OBVIOUS
  <2>2. req' = [req EXCEPT ![p] = r] /\ rowLock' = rowLock
    BY <1>1, <1>6, <2>1 DEF CheckCoverage, Go
  <2>3. /\ r \in Req /\ r.op = s.op /\ r.pc = "seal" /\ r.target = s.target /\ r.row = s.row
        /\ r.user = s.user /\ r.to = s.to /\ r.done = s.done /\ r.version = s.version
    BY <1>2, <2>1, GoFields DEF Pc
  <2>4. Shape(r) /\ r.done = {}
    BY <1>2, <2>3 DEF Fits, Shape, Targeted
  <2>5. Joins(p, r) /\ Early(r) /\ Ranks(r) /\ Answers(r)
    BY <1>2, <2>3, <2>4 DEF Fits, Shape, Joins, Early, Ranks, Answers
  <2>6. Sealed(r)
    BY <1>6, <2>3, <2>4 DEF Sealed, Covers, Members
  <2>7. Rotates(p, r)
    BY <1>2, <2>3, <2>4, <2>6 DEF Fits, Rotates
  <2>8. Fits(p, r)
    BY <2>4, <2>5, <2>7 DEF Fits
  <2> QED  BY <1>3, <2>2, <2>8, QuietStep DEF locks
<1> QED  BY <1>5, <1>6

LEMMA EnvelopeInv ==
  ASSUME IInv, NEW p \in Handlers, NEW u \in Users, InsertEnvelope(p, u)
  PROVE  IInv'
<1>1. PICK s : s = req[p]
  OBVIOUS
<1>2. Fits(p, s) /\ s.pc = "seal" /\ s \in Req /\ joinLock # p /\ u \in s.to
  BY <1>1, HeldBy DEF InsertEnvelope
<1>3. UNCHANGED <<members, invite, published, keys, joinLock, client, faults>>
  BY DEF InsertEnvelope
<1>4. Types
  BY DEF IInv, Rows
<1>5. CASE ~Addressee(u)
  BY <1>1, <1>2, <1>3, <1>4, <1>5, GiveUpInv DEF InsertEnvelope, Types
<1>6. CASE Addressee(u)
  <2>1. PICK r : r = [s EXCEPT !.done = @ \cup {u}]
    OBVIOUS
  <2>2. req' = [req EXCEPT ![p] = r] /\ rowLock' = rowLock
    BY <1>1, <1>6, <2>1 DEF InsertEnvelope
  <2>3. /\ r \in Req /\ r.op = s.op /\ r.pc = "seal" /\ r.target = s.target /\ r.row = s.row
        /\ r.user = s.user /\ r.to = s.to /\ r.done = s.done \cup {u} /\ r.version = s.version
    BY <1>2, <2>1 DEF Req
  <2>4. Shape(r)
    BY <1>2, <2>3 DEF Fits, Shape, Targeted
  <2>5. Joins(p, r) /\ Early(r) /\ Ranks(r) /\ Answers(r)
    BY <1>2, <2>3 DEF Fits, Shape, Joins, Early, Ranks, Answers
  <2>6. Live
    BY <1>6, RankLives DEF Addressee
  <2>7. Sealed(s) /\ rowLock = p /\ s.version = Len(keys) + 1
    BY <1>2, <2>6 DEF Fits, Rotates
  <2>8. Sealed(r)
    BY <1>6, <2>3, <2>7 DEF Sealed, Addressee
  <2>9. Rotates(p, r)
    <3>1. r.done \cap erased = {}
      BY <1>2, <1>6, <2>3 DEF Fits, Rotates, IInv, Rows, Forgotten, Addressee
    <3> QED  BY <2>3, <2>6, <2>7, <2>8, <3>1 DEF Rotates
  <2>10. Fits(p, r)
    BY <2>4, <2>5, <2>9 DEF Fits
  <2> QED  BY <1>3, <2>2, <2>10, QuietStep DEF locks
<1> QED  BY <1>5, <1>6

(* What a rotation commits: a version nobody wrote, to those it was        *)
(* checked for, of a conversation that is still there.                     *)
LEMMA CommitFacts ==
  ASSUME IInv, NEW p \in Handlers, CommitKeys(p)
  PROVE  /\ Live /\ rowLock = p /\ joinLock # p
         /\ req[p].version = Len(keys) + 1 /\ keys' = Append(keys, req[p].to)
         /\ Sealed(req[p]) /\ req[p].done = req[p].to /\ req[p].to \in SUBSET Users
         /\ req[p].to \cap erased = {}
<1>1. PICK s : s = req[p]
  OBVIOUS
<1>2. Fits(p, s) /\ s.pc = "seal" /\ s \in Req /\ s.done = s.to /\ joinLock # p
  BY <1>1, HeldBy DEF CommitKeys
<1>3. s.to # {} /\ s.to \in SUBSET Users /\ s.to \cap erased = {}
  BY <1>2 DEF Fits, Shape, Req, Rotates
<1>4. Live
  BY <1>2, <1>3 DEF Fits, Rotates
<1>5. rowLock = p /\ s.version = Len(keys) + 1 /\ Sealed(s)
  BY <1>2, <1>4 DEF Fits, Rotates
<1>6. Len(keys) \in Nat
  BY DEF IInv, Rows, Types
<1>7. keys' = Append(keys, s.to)
  BY <1>1, <1>5, <1>6 DEF CommitKeys
<1> QED  BY <1>1, <1>2, <1>3, <1>4, <1>5, <1>7

LEMMA CommitInv ==
  ASSUME IInv, NEW p \in Handlers, CommitKeys(p)
  PROVE  IInv'
<1>1. PICK s, to : s = req[p] /\ to = s.to
  OBVIOUS
<1>2. /\ Live /\ rowLock = p /\ joinLock # p
      /\ s.version = Len(keys) + 1 /\ keys' = Append(keys, to)
      /\ Sealed(s) /\ s.done = to /\ to \in SUBSET Users /\ to \cap erased = {}
  BY <1>1, CommitFacts
<1>3. /\ Done(p) /\ rowLock' = None
      /\ UNCHANGED <<group, role, muted, mark, erased, invite, published, joinLock, client, faults>>
  BY <1>2 DEF CommitKeys, Unlock, members
<1>4. Types /\ keys \in Seq(SUBSET Users)
  BY DEF IInv, Rows, Types
<1>5. /\ Len(keys) \in Nat /\ Len(keys') = Len(keys) + 1 /\ keys' \in Seq(SUBSET Users)
      /\ keys'[Len(keys) + 1] = to /\ \A v \in 1 .. Len(keys) : keys'[v] = keys[v]
  BY <1>2, <1>4
<1>6. Members' = Members /\ Live' = Live /\ (\A u : Full(u)' = Full(u)) /\ (\A i : Exists(i)' = Exists(i))
  BY <1>3 DEF Members, Live, Full, Exists
<1>7. Rows'
  <2>1. Types'
    BY <1>3, <1>4, <1>5 DEF Types
  <2>2. KeyReaches'
    <3> SUFFICES ASSUME NEW v \in 1 .. Len(keys'), NEW u \in Users
                 PROVE  /\ role[u] # "none" /\ u \in published /\ mark[u] < v => u \in keys'[v]
                        /\ role[u] = "none" /\ u \in keys'[v] => v <= mark[u]
      BY <1>3 DEF KeyReaches
    <3>1. CASE v \in 1 .. Len(keys)
      BY <1>5, <3>1 DEF IInv, Rows, KeyReaches
    <3>2. CASE v = Len(keys) + 1
      <4>1. keys'[v] = to /\ v = s.version
        BY <1>2, <1>5, <3>2
      <4>2. /\ role[u] # "none" /\ u \in published /\ mark[u] < s.version => u \in to
            /\ role[u] = "none" /\ u \in to => s.version <= mark[u]
        BY <1>1, <1>2 DEF Sealed
      <4> QED  BY <4>1, <4>2
    <3> QED  BY <1>5, <3>1, <3>2
  <2>3. Few' /\ OwnerStands' /\ NothingLeft' /\ AcceptedIsDone' /\ Named'
    BY <1>2, <1>3, <1>6 DEF IInv, Rows, Few, LimitKept, OwnerStands, NothingLeft, AcceptedIsDone, Named
  <2>4. Forgotten'
    <3> SUFFICES ASSUME NEW u \in erased
                 PROVE  /\ role[u] = "none" /\ u \notin muted \cup published /\ group.owner # u
                        /\ \A v \in 1 .. Len(keys') : u \notin keys'[v]
                        /\ \A i \in Invites : Exists(i) => u \notin {invite[i].from, invite[i].to}
      BY <1>3, <1>6 DEF Forgotten
    <3>1. \A v \in 1 .. Len(keys') : u \notin keys'[v]
      BY <1>2, <1>5 DEF IInv, Rows, Forgotten
    <3> QED  BY <3>1 DEF IInv, Rows, Forgotten
  <2> QED  BY <2>1, <2>2, <2>3, <2>4 DEF Rows
<1>8. ASSUME NEW q \in Handlers, q # p, NEW r, Fits(q, r) PROVE Fits(q, r)'
  <2>1. Shape(r) /\ Joins(q, r)' /\ Early(r)' /\ Ranks(r)' /\ Answers(r)'
    BY <1>3, <1>6, <1>8 DEF Fits, Joins, Early, Ranks, Answers
  <2>2. r.pc \notin {"cover", "seal"}
    BY <1>2, <1>8 DEF Fits, Rotates
  <2>3. Rotates(q, r)'
    BY <1>3, <2>2, GroupsAssumption DEF Rotates
  <2> QED  BY <2>1, <2>3 DEF Fits
<1> QED  BY <1>2, <1>3, <1>7, <1>8, DoneFits DEF IInv

(* Who publishes a key counts from the version under way, and who          *)
(* withdraws it may have every version there was.                          *)
LEMMA PublishInv ==
  ASSUME IInv, NEW u \in Users, SetE2EEKey(u)
  PROVE  IInv'
<1>1. /\ published' = IF u \in published THEN published \ {u} ELSE published \cup {u}
      /\ mark' = [mark EXCEPT ![u] = IF role[u] = "none" THEN @
                                    ELSE IF u \in published THEN 0 ELSE Versions]
      /\ UNCHANGED <<group, role, muted, erased, invite, keys, joinLock, rowLock, req, client, faults>>
  BY DEF SetE2EEKey, locks
<1>2. Types
  BY DEF IInv, Rows
<1>3. Versions \in Nat /\ Len(keys) \in Nat /\ Versions >= Len(keys)
  BY VersionsBound DEF IInv
<1>4. /\ mark'[u] = IF role[u] = "none" THEN mark[u] ELSE IF u \in published THEN 0 ELSE Versions
      /\ u \in published' <=> u \notin published
      /\ \A v \in Users : v # u => mark'[v] = mark[v] /\ (v \in published' <=> v \in published)
  BY <1>1, <1>2 DEF Types
<1>5. Members' = Members /\ Live' = Live /\ (\A v : Full(v)' = Full(v)) /\ (\A i : Exists(i)' = Exists(i))
  BY <1>1 DEF Members, Live, Full, Exists
<1>6. Rows'
  <2>1. Types'
    BY <1>1, <1>2, <1>3 DEF Types
  <2>2. KeyReaches'
    BY <1>1, <1>3, <1>4 DEF IInv, Rows, KeyReaches
  <2>3. Few' /\ OwnerStands' /\ Forgotten' /\ NothingLeft' /\ AcceptedIsDone' /\ Named'
    <3>1. Forgotten'
      <4>1. u \notin erased /\ erased \subseteq Users
        BY <1>2 DEF SetE2EEKey, Types
      <4> QED  BY <1>1, <1>4, <1>5, <4>1 DEF IInv, Rows, Forgotten
    <3> QED
      BY <1>1, <1>5, <3>1
         DEF IInv, Rows, Few, LimitKept, OwnerStands, NothingLeft, AcceptedIsDone, Named
  <2> QED  BY <2>1, <2>2, <2>3 DEF Rows
<1>7. ASSUME NEW q \in Handlers, NEW r, Fits(q, r) PROVE Fits(q, r)'
  <2>1. Shape(r) /\ Joins(q, r)' /\ Early(r)' /\ Ranks(r)' /\ Answers(r)'
    BY <1>1, <1>5, <1>7 DEF Fits, Joins, Early, Ranks, Answers
  <2>2. ASSUME Live, r.pc = "seal" PROVE Sealed(r)'
    <3>1. Sealed(r) /\ r.version = Versions
      BY <1>7, <2>2, VersionsWhileSealing DEF Fits, Rotates, IInv
    <3>2. r.done \in SUBSET Users
      BY <2>1 DEF Shape, Req
    <3> QED  BY <1>1, <1>3, <1>4, <3>1, <3>2 DEF Sealed
  <2>3. Rotates(q, r)'
    BY <1>1, <1>5, <1>7, <2>2 DEF Fits, Rotates
  <2> QED  BY <2>1, <2>3 DEF Fits
<1>8. Requests'
  <2> SUFFICES ASSUME NEW q \in Handlers PROVE Fits(q, req[q])'
    BY <1>1 DEF IInv, Requests
  <2>1. PICK r : r = req[q]
    OBVIOUS
  <2>2. Fits(q, r)'
    BY <1>7, <2>1 DEF IInv, Requests
  <2> QED  BY <1>1, <2>1, <2>2
<1> QED  BY <1>6, <1>8 DEF IInv

(* With an account go its rows, and no request goes on that counted on it. *)
LEMMA EraseInv ==
  ASSUME IInv, NEW u \in Users, EraseUser(u)
  PROVE  IInv'
<1>1. /\ u \notin erased /\ erased' = erased \cup {u}
      /\ \A p \in Handlers : u \notin req[p].done
      /\ group' = IF group.owner = u THEN [group EXCEPT !.owner = None] ELSE group
      /\ role' = [role EXCEPT ![u] = "none"] /\ muted' = muted \ {u}
      /\ published' = published \ {u}
      /\ keys' = [v \in 1 .. Len(keys) |-> keys[v] \ {u}]
      /\ mark' = [mark EXCEPT ![u] = 0]
      /\ UNCHANGED <<joinLock, rowLock, req, client, faults>>
  BY DEF EraseUser, locks
<1>2. Types /\ group \in Group /\ u # None
  BY DEF IInv, Rows, Types
<1>3. /\ group' \in Group /\ group'.state = group.state
      /\ group'.owner = IF group.owner = u THEN None ELSE group.owner
  BY <1>1, <1>2 DEF Group
<1>4. /\ role'[u] = "none" /\ mark'[u] = 0
      /\ \A v \in Users : v # u => role'[v] = role[v] /\ mark'[v] = mark[v]
  BY <1>1, <1>2 DEF Types
<1>5. /\ Len(keys) \in Nat /\ keys' \in Seq(SUBSET Users) /\ Len(keys') = Len(keys)
      /\ \A v \in 1 .. Len(keys) : keys[v] \in SUBSET Users /\ keys'[v] = keys[v] \ {u}
  BY <1>1, <1>2 DEF Types
<1>6. \A i \in Invites : invite[i] \in Invite
  BY <1>2 DEF Types
<1>7. invite' = [i \in Invites |->
         IF Exists(i) /\ u \in {invite[i].from, invite[i].to}
         THEN [invite[i] EXCEPT !.state = "erased"] ELSE invite[i]]
  BY DEF EraseUser
<1>8. ASSUME NEW i \in Invites
      PROVE  /\ invite'[i] \in Invite
             /\ invite'[i].made = invite[i].made
             /\ invite'[i].state = "none" <=> invite[i].state = "none"
             /\ Exists(i)' => /\ Exists(i) /\ invite'[i] = invite[i]
                              /\ u \notin {invite[i].from, invite[i].to}
  BY <1>6, <1>7 DEF Invite, Exists
<1>9. Live' = Live /\ Members' = Members \ {u}
  BY <1>3, <1>4 DEF Live, Members
<1>10. /\ IsFiniteSet(Members') /\ Cardinality(Members') <= Cardinality(Members)
       /\ Cardinality(Members') \in Nat /\ Cardinality(Members) \in Nat
  BY <1>9, FS_Subset, FS_CardinalityType DEF IInv, Rows, Few
<1>11. Rows'
  <2>1. Types'
    <3>1. invite' \in [Invites -> Invite]
      BY <1>7, <1>8
    <3> QED  BY <1>1, <1>2, <1>3, <1>5, <3>1 DEF Types, Role
  <2>2. Few'
    <3>1. MaxMembers \in Nat
      OBVIOUS
    <3> QED  BY <1>10, <3>1 DEF IInv, Rows, Few, LimitKept
  <2>3. OwnerStands'
    <3>1. role[u] = "owner" => u = group.owner
      BY DEF IInv, Rows, OwnerStands
    <3>2. CASE group.owner = u
      <4>1. \A v \in Users : role'[v] # "owner"
        BY <1>4, <3>2 DEF IInv, Rows, OwnerStands
      <4>2. u \in Creators
        BY <1>2, <3>2 DEF IInv, Rows, Named
      <4> QED  BY <1>1, <1>3, <1>9, <3>2, <4>1, <4>2 DEF OwnerStands
    <3>3. CASE group.owner # u
      <4>1. group.owner \in Users \cup {None}
        BY <1>2 DEF Group
      <4> QED  BY <1>1, <1>2, <1>3, <1>4, <1>9, <3>1, <3>3, <4>1 DEF IInv, Rows, OwnerStands
    <3> QED  BY <3>2, <3>3
  <2>4. Forgotten'
    <3> SUFFICES ASSUME NEW v \in erased \cup {u}
                 PROVE  /\ role'[v] = "none" /\ v \notin muted' \cup published' /\ group'.owner # v
                        /\ \A k \in 1 .. Len(keys') : v \notin keys'[k]
                        /\ \A i \in Invites : Exists(i)' => v \notin {invite'[i].from, invite'[i].to}
      BY <1>1 DEF Forgotten
    <3>1. CASE v = u
      BY <1>1, <1>2, <1>3, <1>4, <1>5, <1>8, <3>1
    <3>2. CASE v \in erased
      <4>1. v \in Users /\ v # None
        BY <1>2, <3>2 DEF Types
      <4> QED  BY <1>1, <1>3, <1>4, <1>5, <1>8, <3>2, <4>1 DEF IInv, Rows, Forgotten
    <3> QED  BY <3>1, <3>2
  <2>5. NothingLeft'
    <3>1. ~Live => keys' = <<>>
      BY <1>1, <1>5 DEF IInv, Rows, NothingLeft
    <3> QED  BY <1>1, <1>8, <1>9, <3>1 DEF IInv, Rows, NothingLeft
  <2>6. AcceptedIsDone' /\ Named'
    <3>1. \A i \in Invites : invite'[i].state = "accepted" => Exists(i)'
      BY DEF Exists
    <3> QED  BY <1>3, <1>8, <3>1 DEF IInv, Rows, AcceptedIsDone, Named
  <2>7. KeyReaches'
    BY <1>1, <1>4, <1>5 DEF IInv, Rows, KeyReaches
  <2> QED  BY <2>1, <2>2, <2>3, <2>4, <2>5, <2>6, <2>7 DEF Rows
<1>12. ASSUME NEW q \in Handlers, NEW r, Fits(q, r), u \notin r.done PROVE Fits(q, r)'
  <2>1. Shape(r) /\ Early(r)'
    BY <1>3, <1>12 DEF Fits, Early
  <2>2. Joins(q, r)'
    <3>1. r.pc = "insert" => r.target \in Users
      BY <2>1 DEF Shape, Targeted
    <3>2. ASSUME r.pc = "insert" PROVE ~Full(r.target)'
      <4>1. ~Full(r.target) /\ Cardinality(Members) <= MaxMembers /\ MaxMembers \in Nat
        BY <1>12, <3>2 DEF Fits, Joins, IInv, Rows, Few, LimitKept
      <4>2. CASE r.target = u /\ u \in Members
        <5>1. Cardinality(Members') = Cardinality(Members) - 1
          BY <1>9, <4>2, FS_RemoveElement DEF IInv, Rows, Few
        <5> QED  BY <1>10, <4>1, <5>1 DEF Full
      <4>3. CASE ~(r.target = u /\ u \in Members)
        <5>1. role'[r.target] = role[r.target]
          BY <1>4, <3>1, <3>2, <4>3 DEF Members
        <5> QED  BY <1>10, <4>1, <5>1 DEF Full
      <4> QED  BY <4>2, <4>3
    <3> QED  BY <1>1, <1>12, <3>2 DEF Fits, Joins
  <2>3. Ranks(r)'
    <3>1. r.op \in {"promote", "demote", "mute", "unmute"} => r.target \in Users
      BY <2>1 DEF Shape, Targeted
    <3> QED  BY <1>4, <1>12, <3>1 DEF Fits, Ranks
  <2>4. Answers(r)'
    BY <1>8, <1>12, <2>1 DEF Fits, Answers, Shape
  <2>5. Rotates(q, r)'
    <3>1. r.pc = "seal" => r.done \cap erased' = {}
      BY <1>1, <1>12 DEF Fits, Rotates
    <3>2. ASSUME Live, r.pc = "seal" PROVE Sealed(r)'
      <4>1. Sealed(r) /\ r.done \in SUBSET Users
        BY <1>12, <2>1, <3>2 DEF Fits, Rotates, Shape, Req
      <4> QED  BY <1>1, <1>4, <1>12, <4>1 DEF Sealed
    <3> QED  BY <1>1, <1>5, <1>9, <1>12, <3>1, <3>2 DEF Fits, Rotates
  <2> QED  BY <2>1, <2>2, <2>3, <2>4, <2>5 DEF Fits
<1>13. Requests'
  <2> SUFFICES ASSUME NEW q \in Handlers PROVE Fits(q, req[q])'
    BY <1>1 DEF IInv, Requests
  <2>1. PICK r : r = req[q]
    OBVIOUS
  <2>2. Fits(q, r)'
    BY <1>1, <1>12, <2>1 DEF IInv, Requests
  <2> QED  BY <1>1, <2>1, <2>2
<1> QED  BY <1>11, <1>13 DEF IInv

LEMMA FaultInv ==
  ASSUME IInv, NEW p \in Handlers, Fault(p)
  PROVE  IInv'
<1>1. faults \in Nat
  BY DEF IInv, Rows, Types
<1> QED  BY <1>1, GiveUpInv DEF Fault

----------------------------------------------------------------------------
LEMMA ServeInv ==
  ASSUME IInv, NEW p \in Handlers, Serve(p)
  PROVE  IInv'
<1>1. CASE CheckTarget(p) \/ ReadInvite(p) \/ CreatePrivate(p) \/ MarkAccepted(p)
  BY <1>1, CheckTargetInv, ReadInviteInv, CreatePrivateInv, MarkAcceptedInv
<1>2. CASE Write(p)
  BY <1>2, RemoveInv, SetRoleInv, SetMuteInv, UpdateGroupInv, DeleteInv, CreateInviteInv, DeclineInv
     DEF Write
<1>3. CASE CountMembers(p) \/ InsertMember(p)
  BY <1>3, CountInv, InsertInv
<1>4. CASE LockConversation(p) \/ CheckCoverage(p) \/ CommitKeys(p) \/ \E u \in Users : InsertEnvelope(p, u)
  BY <1>4, LockInv, CoverageInv, CommitInv, EnvelopeInv
<1> QED  BY <1>1, <1>2, <1>3, <1>4 DEF Serve

LEMMA NextInv ==
  ASSUME IInv, [Next]_vars
  PROVE  IInv'
<1>1. client.users \subseteq Users /\ Creators \subseteq Users
  BY GroupsAssumption DEF IInv, Rows, Types
<1>2. CASE UNCHANGED vars
  <2>1. UNCHANGED <<members, invite, published, keys, locks, req, client, faults>>
    BY <1>2 DEF vars
  <2>2. UNCHANGED <<group, role, muted, mark, erased, invite, published, keys, joinLock, rowLock, client, faults>>
    BY <2>1 DEF members, locks
  <2>3. Rows'
    BY <2>2, RowsSame DEF IInv, Rows, Types
  <2>4. ASSUME NEW q \in Handlers PROVE Fits(q, req[q])'
    <3>1. PICK r : r = req[q]
      OBVIOUS
    <3>2. Fits(q, r)'
      BY <2>2, <3>1, FitsSame DEF IInv, Requests
    <3> QED  BY <2>1, <3>1, <3>2
  <2> QED  BY <2>1, <2>3, <2>4 DEF IInv, Requests
<1>3. ASSUME NEW u \in Creators, CreateGroup(u) PROVE IInv'
  BY <1>1, <1>3, CreateGroupInv
<1>4. ASSUME NEW p \in Handlers, NEW u \in client.users,
             \/ JoinGroup(p, u)
             \/ AskLeave(p, u) \/ AskDelete(p, u) \/ AskSettings(p, u)
             \/ AskMuteAll(p, u) \/ AskUnmuteAll(p, u) \/ PutE2EEKeys(p, u)
      PROVE  IInv'
  BY <1>1, <1>4, JoinInv, AsksInv, PutKeysInv
<1>5. ASSUME NEW p \in Handlers, NEW u \in client.users, NEW t \in client.users,
             \/ AskRole(p, u, t) \/ AskRemove(p, u, t)
             \/ AskMute(p, u, t) \/ AskUnmute(p, u, t)
             \/ InviteToGroup(p, u, t) \/ StartPrivateChat(p, u, t)
      PROVE  IInv'
  BY <1>1, <1>5, AsksInv, StartChatInv
<1>6. ASSUME NEW p \in Handlers, NEW op \in Ops, NEW i \in Invites, Answer(p, op, i) PROVE IInv'
  BY <1>6, AnswerInv
<1>7. ASSUME NEW p \in Handlers, Serve(p) \/ Fault(p) PROVE IInv'
  BY <1>7, ServeInv, FaultInv
<1>8. CASE MuteLapses \/ \E u \in client.users : SetE2EEKey(u) \/ EraseUser(u)
  BY <1>1, <1>8, MuteLapsesInv, PublishInv, EraseInv
<1> QED  BY <1>2, <1>3, <1>4, <1>5, <1>6, <1>7, <1>8 DEF Next

(* The group never takes in more than its limit, loses its owner only with *)
(* the account of the owner, leaves nothing behind when it is deleted and  *)
(* nothing of an account when that is erased, and marks no request         *)
(* accepted that brought about nothing (conversation.go, consent.go,       *)
(* member_limits.go, migration.go), whatever requests are under way.       *)
THEOREM GroupHolds == Spec => []GroupInv
<1>1. IInv /\ [Next]_vars => IInv'
  BY NextInv
<1> QED  BY <1>1, InitInv, Implied, PTL DEF Spec

(* Every version of the group key is for exactly those it should be for,   *)
(* and only one rotation at a time writes one (PutE2EEKeys in chat.go).    *)
THEOREM KeysHold == Spec => []KeyInv
<1>1. IInv /\ [Next]_vars => IInv'
  BY NextInv
<1> QED  BY <1>1, InitInv, Implied, PTL DEF Spec

(* What a step makes of the versions there are.                            *)
Stand ==
    \A v \in 1 .. Len(keys) :
      Live' /\ keys[v] \ erased' # {} => v <= Len(keys') /\ keys'[v] = keys[v] \ erased'

LEMMA StepStands ==
  ASSUME IInv, Next PROVE Stand
<1>1. /\ Len(keys) \in Nat /\ keys \in Seq(SUBSET Users)
      /\ \A v \in 1 .. Len(keys) : keys[v] \ erased = keys[v]
  BY DEF IInv, Rows, Types, Forgotten
<1>2. ASSUME keys' = keys, erased' = erased PROVE Stand
  BY <1>1, <1>2 DEF Stand
<1>3. ASSUME ~Live' PROVE Stand
  BY <1>3 DEF Stand
<1>4. ASSUME NEW to \in SUBSET Users, keys' = Append(keys, to), erased' = erased PROVE Stand
  BY <1>1, <1>4 DEF Stand
<1>5. ASSUME NEW n \in 0 .. Len(keys), LastVersion(n), keys' = SubSeq(keys, 1, n), erased' = erased
      PROVE  Stand
  <2> SUFFICES ASSUME NEW v \in 1 .. Len(keys), keys[v] \ erased' # {}
               PROVE  v <= Len(keys') /\ keys'[v] = keys[v] \ erased'
    BY DEF Stand
  <2>1. v \notin (n + 1) .. Len(keys)
    BY <1>5 DEF LastVersion
  <2>2. v \in 1 .. n /\ n \in Nat
    BY <1>1, <2>1
  <2>3. Len(keys') = n /\ keys'[v] = keys[v]
    BY <1>1, <1>5, <2>2
  <2> QED  BY <1>1, <1>5, <2>2, <2>3
<1>6. ASSUME NEW u \in Users, EraseUser(u) PROVE Stand
  <2>1. keys' = [v \in 1 .. Len(keys) |-> keys[v] \ {u}] /\ erased' = erased \cup {u}
    BY <1>6 DEF EraseUser
  <2>2. keys' \in Seq(SUBSET Users) /\ Len(keys') = Len(keys)
    BY <1>1, <2>1
  <2>3. \A v \in 1 .. Len(keys) : keys'[v] = keys[v] \ {u} /\ keys[v] \ {u} = keys[v] \ (erased \cup {u})
    BY <1>1, <2>1
  <2> QED  BY <1>1, <2>1, <2>2, <2>3 DEF Stand
<1>7. ASSUME NEW p \in Handlers, Serve(p) PROVE Stand
  <2>1. CASE CommitKeys(p)
    BY <1>4, <2>1, CommitFacts DEF CommitKeys, members
  <2>2. CASE DeleteGroup(p)
    BY <1>3, <2>2, GroupFields DEF DeleteGroup, Live
  <2>3. CASE LockConversation(p)
    BY <1>5, <2>3 DEF LockConversation
  <2>4. CASE ~CommitKeys(p) /\ ~DeleteGroup(p) /\ ~LockConversation(p)
    <3>1. keys' = keys /\ erased' = erased
      BY <1>7, <2>4
         DEF Serve, Write, CheckTarget, RemoveMember, Drop, SetMemberRole, SetMemberMute, UpdateGroup,
             CreateInvite, Decline, ReadInvite, CreatePrivate, MarkAccepted, CountMembers,
             InsertMember, Enter, CheckCoverage, InsertEnvelope, members
    <3> QED  BY <1>2, <3>1
  <2> QED  BY <2>1, <2>2, <2>3, <2>4
<1>8. client.users \subseteq Users
  BY GroupsAssumption DEF IInv, Rows, Types
<1>9. CASE \E u \in client.users : EraseUser(u)
  BY <1>6, <1>8, <1>9
<1>10. CASE \E p \in Handlers : Serve(p)
  BY <1>7, <1>10
<1>11. CASE ~(\E u \in client.users : EraseUser(u)) /\ ~(\E p \in Handlers : Serve(p))
  <2>1. keys' = keys /\ erased' = erased
    BY <1>11
       DEF Next, CreateGroup, JoinGroup, AskLeave, AskDelete, AskSettings, AskMuteAll, AskUnmuteAll,
           PutE2EEKeys, AskRole, AskRemove, AskMute, AskUnmute, InviteToGroup, StartPrivateChat, Ask,
           Answer, Fault, SetE2EEKey, MuteLapses, members
  <2> QED  BY <1>2, <2>1
<1> QED  BY <1>9, <1>10, <1>11

(* A version once written is not written again, until the group goes: the  *)
(* rotation that commits found the conversation locked, and the version it *)
(* read is still the last one (PutE2EEKeys in chat.go); only the envelopes *)
(* of erased accounts leave it.                                            *)
THEOREM KeysStay == Spec => KeysStand
<1>1. IInv /\ [Next]_vars => IInv'
  BY NextInv
<1>2. IInv /\ [Next]_vars =>
        [\A v \in 1 .. Len(keys) :
           Live' /\ keys[v] \ erased' # {} =>
             v <= Len(keys') /\ keys'[v] = keys[v] \ erased']_vars
  BY StepStands DEF Stand
<1> QED  BY <1>1, <1>2, InitInv, PTL DEF Spec, KeysStand
=============================================================================
