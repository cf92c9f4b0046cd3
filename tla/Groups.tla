-------------------------------- MODULE Groups --------------------------------
(***************************************************************************)
(* One group conversation and the requests for consent around it: members  *)
(* and roles, mutes, invitations, private chats, and the envelopes of the  *)
(* end-to-end key (services/chat/internal/handler/conversation.go and      *)
(* consent.go, pkg/repository/chat.go, consent.go, member_limits.go).      *)
(*                                                                         *)
(* A handler reads the rights of the caller, then the row of the target,   *)
(* then writes, each a statement of its own: roles and settings may have   *)
(* changed by the time it writes.  Two transactions exclude each other:    *)
(* joins by an advisory lock, and key rotations by the row lock of the     *)
(* conversation, which every INSERT that refers to the conversation and    *)
(* every UPDATE or DELETE of it also waits for.                            *)
(*                                                                         *)
(* An account may be erased at any time (session.go, bot.go): its rows go  *)
(* with it, and what its requests still insert for it fails.               *)
(***************************************************************************)
EXTENDS Naturals, FiniteSets, Sequences

CONSTANTS
    Users,       \* accounts
    Creators,    \* bound: those who may create the group
    Invites,     \* rows of consent_requests
    Handlers,    \* concurrent requests
    Clients,     \* bound: the users and operations of one behaviour
    MaxMembers,  \* MaxGroupMembers
    MaxVersion,  \* bound: key rotations
    MaxFaults,   \* bound: crashes
    None

Ops == {"leave", "delete", "settings", "promote", "demote", "remove", "mute", "unmute",
        "mute_all", "unmute_all", "invite", "start", "join", "accept", "decline", "rotate"}

ASSUME GroupsAssumption ==
    /\ None \notin Users \cup Invites \cup Handlers
    /\ Creators \subseteq Users
    /\ Clients \subseteq [users : SUBSET Users, ops : SUBSET (Ops \cup {"erase"})]
    /\ MaxMembers \in Nat \ {0} /\ MaxVersion \in Nat /\ MaxFaults \in Nat

VARIABLES
    group,      \* the row of conversations
    role,       \* conversation_members.role, "none" where there is no row
    muted,      \* members whose muted_until is ahead
    invite,     \* rows of consent_requests, with what they brought about
    published,  \* users with an e2ee_public_key
    keys,       \* conversation_e2ee_keys: per version the users with an envelope
    joinLock,   \* pg_advisory_xact_lock of the conversation
    rowLock,    \* FOR UPDATE of the conversation
    req,        \* the request each handler serves
    mark,       \* history: versions written when a user last entered or left the
                \* circle of members with a key
    client,     \* who does what in this behaviour
    erased,     \* users whose account is erased
    faults

Role == {"owner", "admin", "member"}
Manager == {"owner", "admin"}

Group == [state : {"none", "live", "deleted"}, owner : Users \cup {None}, open : BOOLEAN,
          mutedAll : BOOLEAN]

NewGroup(state, u) == [state |-> state, owner |-> u, open |-> FALSE, mutedAll |-> FALSE]

(* made counts the memberships or conversations that accepting it produced.*)
Invite == [state : {"none", "pending", "accepted", "declined", "erased"}, kind : {"group", "private"},
           from : Users \cup {None}, to : Users \cup {None}, made : Nat]

NewInvite(state, kind, u, t) ==
    [state |-> state, kind |-> kind, from |-> u, to |-> t, made |-> 0]

Pc == {"idle", "target", "write", "sum", "insert", "read", "create", "mark",
       "lock", "cover", "seal"}

(* seen is the role of the caller as read, row an invitation; a rotation   *)
(* is addressed to some users, of whom done have been found to be members, *)
(* and will be the version after the last it read.                         *)
Req == [op : Ops \cup {"none"}, pc : Pc, user : Users \cup {None},
        target : Users \cup {None}, row : Invites \cup {None}, seen : Role \cup {"none"},
        to : SUBSET Users, done : SUBSET Users, version : Nat]

NewReq(op, pc, u, t, i, seen, to) ==
    [op |-> op, pc |-> pc, user |-> u, target |-> t, row |-> i, seen |-> seen,
     to |-> to, done |-> {}, version |-> 0]

NoReq == NewReq("none", "idle", None, None, None, "none", {})

members == <<group, role, muted, mark, erased>>
locks == <<joinLock, rowLock>>
vars == <<members, invite, published, keys, locks, req, client, faults>>

TypeOK ==
    /\ group \in Group
    /\ role \in [Users -> Role \cup {"none"}]
    /\ muted \subseteq Users
    /\ invite \in [Invites -> Invite]
    /\ published \subseteq Users
    /\ keys \in Seq(SUBSET Users)
    /\ joinLock \in Handlers \cup {None} /\ rowLock \in Handlers \cup {None}
    /\ req \in [Handlers -> Req]
    /\ \A p \in Handlers :
         /\ req[p].pc \in {"target", "sum", "insert"} => req[p].target \in Users
         /\ req[p].op \in {"accept", "decline"} => req[p].row \in Invites
    /\ mark \in [Users -> Nat]
    /\ client \in Clients
    /\ erased \subseteq Users
    /\ faults \in Nat

Init ==
    /\ group = NewGroup("none", None)
    /\ role = [u \in Users |-> "none"]
    /\ muted = {}
    /\ invite = [i \in Invites |-> NewInvite("none", "group", None, None)]
    /\ published = {}
    /\ keys = <<>>
    /\ joinLock = None /\ rowLock = None
    /\ req = [p \in Handlers |-> NoReq]
    /\ mark = [u \in Users |-> 0]
    /\ client \in Clients
    /\ erased = {}
    /\ faults = 0

----------------------------------------------------------------------------
Members == {u \in Users : role[u] # "none"}
Live == group.state = "live"

(* A write to the conversation, or a new row that refers to it, waits      *)
(* while a rotation holds the row.                                         *)
Unlocked == rowLock = None

(* The version a rotation under way will write counts as written.          *)
Versions == Len(keys) + IF Unlocked THEN 0 ELSE 1

Start(p, r) == req[p].pc = "idle" /\ r.op \in client.ops /\ req' = [req EXCEPT ![p] = r]
Go(p, pc) == req' = [req EXCEPT ![p].pc = pc]
Done(p) == req' = [req EXCEPT ![p] = NoReq]

(* CreateGroup.  The quota of owned groups is not modelled.                *)
CreateGroup(u) ==
    /\ group.state = "none" /\ u \notin erased
    /\ group' = NewGroup("live", u)
    /\ role' = [role EXCEPT ![u] = "owner"]
    /\ UNCHANGED <<muted, mark, erased, invite, published, keys, locks, req, client, faults>>

(* Whose row the target may have, as the handlers check it.                *)
TargetRoles(op, seen) ==
    CASE op \in {"invite", "join"} -> {"none"}
      [] op \in {"promote", "demote"} -> {"admin", "member"}
      [] op \in {"remove", "mute", "unmute"} ->
           IF seen = "admin" THEN {"member"} ELSE {"admin", "member"}
      [] OTHER -> {}

(* The handlers check the caller's row, some the conversation before it;   *)
(* who writes about another member reads the row of that one next.         *)
Ask(p, op, u, t, roles) ==
    /\ role[u] \in roles
    /\ Start(p, NewReq(op, IF t = None THEN "write" ELSE "target", u, t, None,
                      IF t = None THEN "none" ELSE role[u], {}))
    /\ UNCHANGED <<members, invite, published, keys, locks, client, faults>>

AskLeave(p, u) == Ask(p, "leave", u, None, {"admin", "member"})
AskDelete(p, u) == Ask(p, "delete", u, None, {"owner"})
AskSettings(p, u) == Ask(p, "settings", u, None, {"owner"})
AskMuteAll(p, u) == Ask(p, "mute_all", u, None, Manager)
AskUnmuteAll(p, u) == Ask(p, "unmute_all", u, None, Manager)
AskRole(p, u, t) == \E op \in {"promote", "demote"} : Ask(p, op, u, t, {"owner"})
AskRemove(p, u, t) == Ask(p, "remove", u, t, Manager)
AskMute(p, u, t) == Ask(p, "mute", u, t, Manager)
AskUnmute(p, u, t) == Ask(p, "unmute", u, t, Manager)
InviteToGroup(p, u, t) == u # t /\ Ask(p, "invite", u, t, Role)

PutE2EEKeys(p, u) ==
    /\ role[u] # "none"
    /\ \E to \in (SUBSET client.users) \ {{}} :
         Start(p, NewReq("rotate", "lock", None, None, None, "none", to))
    /\ UNCHANGED <<members, invite, published, keys, locks, client, faults>>

JoinGroup(p, u) ==
    /\ Live /\ group.open
    /\ Start(p, NewReq("join", "target", u, u, None, "none", {}))
    /\ UNCHANGED <<members, invite, published, keys, locks, client, faults>>

(* HasPendingBetween.                                                      *)
PendingBetween(u, t) ==
    \E i \in Invites : /\ invite[i].state = "pending" /\ invite[i].kind = "private"
                       /\ {invite[i].from, invite[i].to} = {u, t}

StartPrivateChat(p, u, t) ==
    /\ u # t /\ ~PendingBetween(u, t)
    /\ Start(p, NewReq("start", "write", u, t, None, "none", {}))
    /\ UNCHANGED <<members, invite, published, keys, locks, client, faults>>

Exists(i) == invite[i].state \in {"pending", "accepted", "declined"}

(* The handlers of Accept and Decline look whose request it is; Accept     *)
(* then reads it once more.                                                *)
Answer(p, op, i) ==
    /\ op \in {"accept", "decline"} /\ Exists(i)
    /\ Start(p, NewReq(op, IF op = "accept" THEN "read" ELSE "write",
                       None, invite[i].to, i, "none", {}))
    /\ UNCHANGED <<members, invite, published, keys, locks, client, faults>>

CheckTarget(p) ==
    LET r == req[p]
    IN  /\ r.pc = "target"
        /\ IF role[r.target] \notin TargetRoles(r.op, r.seen)
           THEN Done(p)
           ELSE Go(p, IF r.op = "join" THEN "sum" ELSE "write")
        /\ UNCHANGED <<members, invite, published, keys, locks, client, faults>>

----------------------------------------------------------------------------
(* The writes, each a statement by primary key.                            *)
Drop(u) ==
    /\ role' = [role EXCEPT ![u] = "none"]
    /\ muted' = muted \ {u}
    /\ mark' = [mark EXCEPT ![u] = Versions]
    /\ UNCHANGED <<group, erased>>

(* RemoveMember: of Leave and of the removal of another; never the owner.  *)
RemoveMember(p) ==
    LET r == req[p]
        u == IF r.op = "leave" THEN r.user ELSE r.target
    IN  /\ r.op \in {"leave", "remove"} /\ r.pc = "write"
        /\ IF role[u] \in {"admin", "member"} THEN Drop(u) ELSE UNCHANGED members
        /\ Done(p)
        /\ UNCHANGED <<invite, published, keys, locks, client, faults>>

SetMemberRole(p) ==
    LET r == req[p]
    IN  /\ r.op \in {"promote", "demote"} /\ r.pc = "write"
        /\ role' = [role EXCEPT ![r.target] =
             IF @ = "none" THEN @ ELSE IF r.op = "promote" THEN "admin" ELSE "member"]
        /\ Done(p)
        /\ UNCHANGED <<group, muted, mark, erased, invite, published, keys, locks, client, faults>>

SetMemberMute(p) ==
    LET r == req[p]
    IN  /\ r.op \in {"mute", "unmute"} /\ r.pc = "write"
        /\ muted' = IF r.op = "mute" /\ role[r.target] # "none"
                    THEN muted \cup {r.target} ELSE muted \ {r.target}
        /\ Done(p)
        /\ UNCHANGED <<group, role, mark, erased, invite, published, keys, locks, client, faults>>

(* UpdateGroupSettings and SetGroupMuteAll write the conversation's row.   *)
UpdateGroup(p) ==
    LET r == req[p]
    IN  /\ r.op \in {"settings", "mute_all", "unmute_all"} /\ r.pc = "write"
        /\ Unlocked
        /\ \/ ~Live /\ UNCHANGED group
           \/ /\ Live /\ r.op = "settings"
              /\ \E open \in BOOLEAN : group' = [group EXCEPT !.open = open]
           \/ /\ Live /\ r.op # "settings"
              /\ group' = [group EXCEPT !.mutedAll = (r.op = "mute_all")]
        /\ Done(p)
        /\ UNCHANGED <<role, muted, mark, erased, invite, published, keys, locks, client, faults>>

(* Delete: memberships, invitations and envelopes cascade.  The id of an   *)
(* erased row is not given out again.                                      *)
DeleteGroup(p) ==
    /\ req[p].op = "delete" /\ req[p].pc = "write"
    /\ Unlocked
    /\ group' = NewGroup("deleted", None)
    /\ role' = [u \in Users |-> "none"]
    /\ muted' = {}
    /\ invite' = [i \in Invites |->
         IF invite[i].kind = "group" /\ Exists(i) THEN [invite[i] EXCEPT !.state = "erased"]
         ELSE invite[i]]
    /\ keys' = <<>>
    /\ mark' = [u \in Users |-> 0]
    /\ Done(p)
    /\ UNCHANGED <<erased, published, locks, client, faults>>

(* InviteToGroup and StartPrivateChat insert a pending request.            *)
CreateInvite(p) ==
    LET r == req[p]
        kind == IF r.op = "start" THEN "private" ELSE "group"
    IN  /\ r.op \in {"invite", "start"} /\ r.pc = "write"
        /\ kind = "group" => Unlocked
        /\ \/ /\ kind = "private" \/ Live
              /\ {r.user, r.target} \cap erased = {}
              /\ \E i \in Invites :
                   /\ invite[i].state = "none"
                   /\ invite' = [invite EXCEPT ![i] = NewInvite("pending", kind, r.user, r.target)]
           \/ /\ \/ kind = "group" /\ ~Live
                 \/ {r.user, r.target} \cap erased # {}
                 \/ \A i \in Invites : invite[i].state # "none"
              /\ UNCHANGED invite
        /\ Done(p)
        /\ UNCHANGED <<members, published, keys, locks, client, faults>>

(* Decline: conditional on the request still pending.                      *)
Decline(p) ==
    LET i == req[p].row
    IN  /\ req[p].op = "decline" /\ req[p].pc = "write"
        /\ invite' = [invite EXCEPT ![i].state = IF @ = "pending" THEN "declined" ELSE @]
        /\ Done(p)
        /\ UNCHANGED <<members, published, keys, locks, client, faults>>

----------------------------------------------------------------------------
(* ConsentRequestRepository.Accept: read, do, mark, in that order; what is *)
(* done commits on its own.                                                *)
ReadInvite(p) ==
    LET i == req[p].row
    IN  /\ req[p].pc = "read"
        /\ IF invite[i].state # "pending" THEN Done(p)
           ELSE Go(p, IF invite[i].kind = "private" THEN "create" ELSE "sum")
        /\ UNCHANGED <<members, invite, published, keys, locks, client, faults>>

(* The members' rows refer to the accounts, with which the request goes.   *)
Make(i) == invite' = [invite EXCEPT ![i].made = @ + 1]

CreatePrivate(p) ==
    /\ req[p].pc = "create"
    /\ \/ Exists(req[p].row) /\ Make(req[p].row) /\ Go(p, "mark")
       \/ ~Exists(req[p].row) /\ Done(p) /\ UNCHANGED invite
    /\ UNCHANGED <<members, published, keys, locks, client, faults>>

(* The UPDATE is by id alone.                                              *)
MarkAccepted(p) ==
    LET i == req[p].row
    IN  /\ req[p].pc = "mark"
        /\ invite' = [invite EXCEPT ![i].state = IF Exists(i) THEN "accepted" ELSE @]
        /\ Done(p)
        /\ UNCHANGED <<members, published, keys, locks, client, faults>>

(* Mutant: the count and the insert without the lock.                      *)
MayCountUnlocked(p) == TRUE
MayCount(p) == joinLock = None

Full(u) == role[u] = "none" /\ Cardinality(Members) >= MaxMembers

(* Mutant: a full group ends the transaction without giving up the lock.   *)
RefuseHolding(p) == Done(p) /\ joinLock' = p
Refuse(p) == Done(p) /\ UNCHANGED joinLock

(* addMemberLimited: the lock of the conversation, the count ...           *)
CountMembers(p) ==
    /\ req[p].pc = "sum"
    /\ MayCount(p)
    /\ IF Full(req[p].target) THEN Refuse(p)
       ELSE Go(p, "insert") /\ joinLock' = p
    /\ UNCHANGED <<members, invite, published, keys, rowLock, client, faults>>

Enter(u) ==
    /\ role' = [role EXCEPT ![u] = "member"]
    /\ mark' = [mark EXCEPT ![u] = IF u \in published THEN Len(keys) ELSE 0]
    /\ UNCHANGED <<group, muted, erased>>

(* ... and the insert, which leaves the role of an existing member alone   *)
(* and fails when the conversation, the user or who invited it is gone.    *)
Insertable(r) ==
    Live /\ r.target \notin erased /\ (r.op = "accept" => Exists(r.row))

InsertMember(p) ==
    LET r == req[p]
    IN  /\ r.pc = "insert"
        /\ joinLock' = None
        /\ \/ /\ ~Insertable(r)
              /\ Done(p) /\ UNCHANGED <<members, invite>>
           \/ /\ Insertable(r)
              /\ \/ role[r.target] # "none" /\ UNCHANGED members
                 \/ role[r.target] = "none" /\ Unlocked /\ Enter(r.target)
              /\ IF r.op = "accept" THEN Make(r.row) /\ Go(p, "mark")
                 ELSE Done(p) /\ UNCHANGED invite
        /\ UNCHANGED <<published, keys, rowLock, client, faults>>

----------------------------------------------------------------------------
(* PutE2EEKeys: rotations of one conversation wait for each other ...      *)
MayLockAlways == TRUE
MayLock == Unlocked

(* MAX(version): versions whose envelopes have all gone with the accounts  *)
(* they were for no longer count, and their numbers are given out again.   *)
LastVersion(n) ==
    /\ n > 0 => keys[n] # {}
    /\ \A v \in (n + 1) .. Len(keys) : keys[v] = {}

LockConversation(p) ==
    /\ req[p].pc = "lock"
    /\ MayLock
    /\ \E n \in 0 .. Len(keys) :
         /\ LastVersion(n)
         /\ keys' = SubSeq(keys, 1, n)
         /\ mark' = [u \in Users |-> IF mark[u] > n THEN n ELSE mark[u]]
         /\ IF n < MaxVersion
            THEN /\ req' = [req EXCEPT ![p].pc = "cover", ![p].version = n + 1]
                 /\ rowLock' = IF Live THEN p ELSE None
            ELSE Done(p) /\ UNCHANGED rowLock
    /\ UNCHANGED <<group, role, muted, erased, invite, published, joinLock, client, faults>>

Unlock(p) == IF rowLock = p THEN None ELSE rowLock

(* Mutant: a subset of the conversation will do.                           *)
CoversAny(to) == TRUE
Covers(to) == Members \cap published \subseteq to

(* ... must address every member with a key ...                            *)
CheckCoverage(p) ==
    /\ req[p].pc = "cover"
    /\ IF Covers(req[p].to) THEN Go(p, "seal") /\ UNCHANGED rowLock
       ELSE Done(p) /\ rowLock' = Unlock(p)
    /\ UNCHANGED <<members, invite, published, keys, joinLock, client, faults>>

Addressee(u) == role[u] # "none"

(* ... and nobody else: each envelope is preceded by a look at the member. *)
InsertEnvelope(p, u) ==
    LET r == req[p]
    IN  /\ r.pc = "seal" /\ u \in r.to \ r.done
        /\ IF Addressee(u)
           THEN req' = [req EXCEPT ![p].done = @ \cup {u}] /\ UNCHANGED rowLock
           ELSE Done(p) /\ rowLock' = Unlock(p)
        /\ UNCHANGED <<members, invite, published, keys, joinLock, client, faults>>

CommitKeys(p) ==
    LET r == req[p]
    IN  /\ r.pc = "seal" /\ r.done = r.to
        /\ keys' = IF r.version > Len(keys) THEN Append(keys, r.to)
                   ELSE [keys EXCEPT ![r.version] = @ \cup r.to]
        /\ rowLock' = Unlock(p)
        /\ Done(p)
        /\ UNCHANGED <<members, invite, published, joinLock, client, faults>>

(* SetE2EEKey of the account service knows nothing of conversations.       *)
SetE2EEKey(u) ==
    /\ "rotate" \in client.ops /\ u \notin erased
    /\ published' = IF u \in published THEN published \ {u} ELSE published \cup {u}
    /\ mark' = [mark EXCEPT ![u] = IF role[u] = "none" THEN @
                                  ELSE IF u \in published THEN 0 ELSE Versions]
    /\ UNCHANGED <<group, role, muted, erased, invite, keys, locks, req, client, faults>>

----------------------------------------------------------------------------
(* The DELETE of a row of users, with all that cascades.  It waits for the *)
(* conversation of which it must clear the owner, and for a rotation with  *)
(* an envelope for the user; of a rotation and an erasure that wait for    *)
(* each other the database ends one, which is a fault or no erasure.       *)
EraseUser(u) ==
    /\ "erase" \in client.ops /\ u \notin erased
    /\ group.owner = u => Unlocked
    /\ \A p \in Handlers : u \notin req[p].done
    /\ erased' = erased \cup {u}
    /\ group' = IF group.owner = u THEN [group EXCEPT !.owner = None] ELSE group
    /\ role' = [role EXCEPT ![u] = "none"]
    /\ muted' = muted \ {u}
    /\ published' = published \ {u}
    /\ keys' = [v \in 1 .. Len(keys) |-> keys[v] \ {u}]
    /\ mark' = [mark EXCEPT ![u] = 0]
    /\ invite' = [i \in Invites |->
         IF Exists(i) /\ u \in {invite[i].from, invite[i].to}
         THEN [invite[i] EXCEPT !.state = "erased"] ELSE invite[i]]
    /\ UNCHANGED <<locks, req, client, faults>>

(* The time of a mute is over.                                             *)
MuteLapses ==
    /\ \/ \E u \in muted : muted' = muted \ {u} /\ UNCHANGED group
       \/ group.mutedAll /\ group' = [group EXCEPT !.mutedAll = FALSE] /\ UNCHANGED muted
    /\ UNCHANGED <<role, mark, erased, invite, published, keys, locks, req, client, faults>>

(* A statement fails or the service dies: the transaction is rolled back.  *)
Fault(p) ==
    /\ req[p].pc # "idle" /\ faults < MaxFaults
    /\ Done(p)
    /\ joinLock' = IF joinLock = p THEN None ELSE joinLock
    /\ rowLock' = Unlock(p)
    /\ faults' = faults + 1
    /\ UNCHANGED <<members, invite, published, keys, client>>

Write(p) ==
    \/ RemoveMember(p) \/ SetMemberRole(p) \/ SetMemberMute(p)
    \/ UpdateGroup(p) \/ DeleteGroup(p)
    \/ CreateInvite(p) \/ Decline(p)

Serve(p) ==
    \/ CheckTarget(p) \/ Write(p)
    \/ ReadInvite(p) \/ CreatePrivate(p) \/ MarkAccepted(p)
    \/ CountMembers(p) \/ InsertMember(p)
    \/ LockConversation(p) \/ CheckCoverage(p) \/ CommitKeys(p)
    \/ \E u \in Users : InsertEnvelope(p, u)

Next ==
    \/ \E u \in Creators : CreateGroup(u)
    \/ \E p \in Handlers :
         \/ \E u \in client.users :
              \/ JoinGroup(p, u)
              \/ AskLeave(p, u) \/ AskDelete(p, u) \/ AskSettings(p, u)
              \/ AskMuteAll(p, u) \/ AskUnmuteAll(p, u) \/ PutE2EEKeys(p, u)
              \/ \E t \in client.users :
                   \/ AskRole(p, u, t) \/ AskRemove(p, u, t)
                   \/ AskMute(p, u, t) \/ AskUnmute(p, u, t)
                   \/ InviteToGroup(p, u, t) \/ StartPrivateChat(p, u, t)
         \/ \E op \in Ops, i \in Invites : Answer(p, op, i)
         \/ Serve(p)
         \/ Fault(p)
    \/ \E u \in client.users : SetE2EEKey(u) \/ EraseUser(u)
    \/ MuteLapses

Spec == Init /\ [][Next]_vars

(* PostgreSQL queues those who wait for a lock.                            *)
FairSpec == Spec /\ \A p \in Handlers : SF_vars(Serve(p))

----------------------------------------------------------------------------
(* No race of joins and acceptances takes the group past its limit         *)
(* (member_limits.go:25-27).                                               *)
LimitKept == Cardinality(Members) <= MaxMembers

JoinLockHeld ==
    \A p \in Handlers : (joinLock = p) = (req[p].pc = "insert")

(* What was counted still leaves room: others only leave meanwhile.        *)
RoomKept == \A p \in Handlers : req[p].pc = "insert" => ~Full(req[p].target)

(* Only the erasure of the owner's account takes the owner from a group,   *)
(* and nobody mutes the owner, whatever roles the requests under way have  *)
(* read ("the owner would be permanently locked out of their own group",   *)
(* RemoveMember in conversation.go).                                       *)
OwnerStands ==
    /\ Live => IF group.owner = None THEN Creators \cap erased # {}
               ELSE role[group.owner] = "owner"
    /\ \A u \in Users : role[u] = "owner" => u = group.owner /\ u \notin muted

(* An erased account is nowhere, whatever was about to be inserted for it: *)
(* nobody counts it, addresses it or waits for its answer.                 *)
Forgotten ==
    \A u \in erased :
      /\ role[u] = "none" /\ u \notin muted \cup published /\ group.owner # u
      /\ \A v \in 1 .. Len(keys) : u \notin keys[v]
      /\ \A i \in Invites : Exists(i) => u \notin {invite[i].from, invite[i].to}

(* Nothing refers to a deleted group, although requests for it go on.      *)
NothingLeft ==
    ~Live => /\ Members = {} /\ muted = {} /\ keys = <<>> /\ rowLock = None
             /\ \A i \in Invites : Exists(i) => invite[i].kind = "private"

(* An accepted request has brought about what it was for: one that fails,  *)
(* or finds the group full, can be accepted again.                         *)
AcceptedIsDone == \A i \in Invites : invite[i].state = "accepted" => invite[i].made > 0

GroupInv ==
    /\ TypeOK /\ LimitKept /\ JoinLockHeld /\ RoomKept
    /\ OwnerStands /\ Forgotten /\ NothingLeft /\ AcceptedIsDone

(* Every version of the group key reaches all who were members with a      *)
(* published key before its rotation began, and nobody who had been        *)
(* removed by then (PutE2EEKeys, chat.go:663-668): in particular a member  *)
(* cannot slip in between the check of the envelopes and the commit.       *)
KeyReaches ==
    \A v \in 1 .. Len(keys), u \in Users :
      /\ role[u] # "none" /\ u \in published /\ mark[u] < v => u \in keys[v]
      /\ role[u] = "none" /\ u \in keys[v] => v <= mark[u]

RotationAlone ==
    \A p \in Handlers : Live => (rowLock = p) = (req[p].pc \in {"cover", "seal"})

KeyInv == KeyReaches /\ RotationAlone

(* A version once written is not written again, until the group goes: only *)
(* the envelopes of erased accounts leave it.                              *)
KeysStand ==
    [][\A v \in 1 .. Len(keys) :
         Live' /\ keys[v] \ erased' # {} =>
           v <= Len(keys') /\ keys'[v] = keys[v] \ erased']_vars

(* Nobody waits for ever: those who join, rotate, delete or write settings *)
(* wait for each other's locks.                                            *)
Answered == \A p \in Handlers : req[p].pc # "idle" ~> req[p].pc = "idle"
=============================================================================
