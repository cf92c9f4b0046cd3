------------------------------- MODULE Messages -------------------------------
(***************************************************************************)
(* Messages of some conversations: sending, forwarding, editing, deleting, *)
(* reading with burn-after-read, and the sweeper of burned messages        *)
(* (services/chat/internal/handler/message.go, pkg/repository/message.go,  *)
(* MarkRead of conversation.go).                                           *)
(*                                                                         *)
(* No transaction and no lock is used: every handler is a sequence of      *)
(* statements, of which only the UPDATEs carry conditions of their own,    *)
(* and publishes its event after the last.  Who is a member or muted       *)
(* changes at any time (Groups.tla).                                       *)
(***************************************************************************)
EXTENDS Naturals, FiniteSets

CONSTANTS
    Users,      \* accounts
    Convs,      \* conversations
    PublicConvs,\* those anyone may read
    Msgs,       \* ids of messages, given out in order
    Handlers,   \* concurrent requests
    Clients,    \* bound: users, rows, operations and handlers of one behaviour
    MaxBody,    \* bound: edits of a message
    MaxFaults,  \* bound: failed statements and restarts
    None

Ops == {"send", "burn", "system", "forward", "edit", "delete", "read", "mark", "move", "mute"}

ASSUME MessagesAssumption ==
    /\ None \notin Users \cup Convs \cup Msgs
    /\ PublicConvs \subseteq Convs /\ Msgs \subseteq Nat
    /\ Clients \subseteq [users : SUBSET Users, convs : SUBSET Convs, msgs : SUBSET Msgs,
                         ops : SUBSET Ops, by : SUBSET Handlers]
    /\ IsFiniteSet(Handlers)
    /\ MaxBody \in Nat /\ MaxFaults \in Nat

VARIABLES
    member,   \* conversation_members
    quiet,    \* members who are muted
    msg,      \* rows of messages
    mark,     \* conversation_members.last_read_message_id
    req,      \* the request each handler serves
    swept,    \* what the sweeper has deleted and not yet told
    sweeper,  \* its goroutine
    armTold,  \* "updated" events about a countdown, per message
    goneTold, \* "deleted" events, per message
    lost,     \* history: events that a fault prevented
    client,   \* who does what in this behaviour
    faults

(* armedBy stands for burn_at: the reader whose stamp it is; due says that *)
(* this time has come.  body counts the edits.                             *)
Message == [state : {"none", "live", "deleted"}, kind : {"text", "system"},
            conv : Convs \cup {None}, sender : Users \cup {None}, body : Nat,
            burn : BOOLEAN, armedBy : Users \cup {None}, due : BOOLEAN,
            reply : Msgs \cup {None}, copyOf : Msgs \cup {None}]

Row(state, kind, c, u, burn, reply, copyOf) ==
    [state |-> state, kind |-> kind, conv |-> c, sender |-> u, body |-> 0, burn |-> burn,
     armedBy |-> None, due |-> FALSE, reply |-> reply, copyOf |-> copyOf]

NoRow == Row("none", "text", None, None, FALSE, None, None)

Pc == {"idle", "muted", "insert", "items", "target", "copy", "note", "owner",
       "update", "remove", "arm", "stamp", "mark", "tell"}

(* A forward has items to copy, of which left remain for the conversation  *)
(* at hand, and conversations to go; noted says that a deletion has what   *)
(* its event needs.                                                        *)
Req == [op : Ops \cup {"none"}, pc : Pc, user : Users \cup {None}, conv : Convs \cup {None},
        row : Msgs \cup {None}, noted : BOOLEAN, items : SUBSET Msgs, left : SUBSET Msgs,
        to : SUBSET Convs]

NewReq(op, pc, u, c, m, left, to) ==
    [op |-> op, pc |-> pc, user |-> u, conv |-> c, row |-> m, noted |-> FALSE,
     items |-> {}, left |-> left, to |-> to]

NoReq == NewReq("none", "idle", None, None, None, {}, {})

events == <<armTold, goneTold, lost>>
sweeping == <<swept, sweeper>>
env == <<member, quiet, client, faults>>
vars == <<member, quiet, msg, mark, req, swept, sweeper, armTold, goneTold, lost, client, faults>>

TypeOK ==
    /\ member \in [Convs -> SUBSET Users] /\ quiet \in [Convs -> SUBSET Users]
    /\ msg \in [Msgs -> Message]
    /\ \A m \in Msgs : msg[m].state # "none" => msg[m].conv \in Convs /\ msg[m].sender \in Users
    /\ mark \in [Convs -> [Users -> Msgs \cup {None}]]
    /\ req \in [Handlers -> Req]
    /\ swept \subseteq Msgs /\ sweeper \in {"on", "dead"}
    /\ armTold \in [Msgs -> Nat] /\ goneTold \in [Msgs -> Nat]
    /\ lost \subseteq {"armed", "deleted"} \X Msgs
    /\ client \in Clients
    /\ faults \in Nat

Init ==
    /\ client \in Clients
    /\ member = [c \in Convs |-> IF c \in client.convs THEN client.users ELSE {}] /\ quiet = [c \in Convs |-> {}]
    /\ msg = [m \in Msgs |-> NoRow]
    /\ mark = [c \in Convs |-> [u \in Users |-> None]]
    /\ req = [p \in Handlers |-> NoReq]
    /\ swept = {} /\ sweeper = "on"
    /\ armTold = [m \in Msgs |-> 0] /\ goneTold = [m \in Msgs |-> 0]
    /\ lost = {}
    /\ faults = 0

----------------------------------------------------------------------------
Live(m) == msg[m].state = "live"
Exists(m) == msg[m].state # "none"
Fresh(m) == ~Exists(m) /\ m \in client.msgs /\ \A n \in client.msgs : n < m => Exists(n)
Start(p, r) == req[p].pc = "idle" /\ r.op \in client.ops /\ req' = [req EXCEPT ![p] = r]
Go(p, pc) == req' = [req EXCEPT ![p].pc = pc]
Done(p) == req' = [req EXCEPT ![p] = NoReq]
Quietly == UNCHANGED <<msg, mark, sweeping, events, env>>

(* IsMember, the first statement of the handlers.                          *)
Send(p, u, c, reply) ==
    /\ u \in member[c]
    /\ \E op \in {"send", "burn"} : Start(p, NewReq(op, "muted", u, c, reply, {}, {}))
    /\ Quietly

(* CreateSystem on behalf of a member who came, left or was muted.         *)
System(p, u, c) ==
    /\ Start(p, NewReq("system", "insert", u, c, None, {}, {}))
    /\ Quietly

Forward(p, u, c, ids, to) ==
    /\ u \in member[c] \/ c \in PublicConvs
    /\ Start(p, NewReq("forward", "items", u, c, None, ids, to))
    /\ Quietly

(* messageInConversation.                                                  *)
Edit(p, u, m) ==
    /\ Exists(m) /\ u \in member[msg[m].conv]
    /\ Start(p, NewReq("edit", "owner", u, msg[m].conv, m, {}, {}))
    /\ Quietly

Delete(p, u, m) ==
    /\ Exists(m) /\ u \in member[msg[m].conv]
    /\ Start(p, NewReq("delete", "note", u, msg[m].conv, m, {}, {}))
    /\ Quietly

BurnRead(p, u, c, m) ==
    /\ u \in member[c]
    /\ Start(p, NewReq("read", "arm", u, c, m, {}, {}))
    /\ Quietly

MarkRead(p, u, c, m) ==
    /\ u \in member[c] /\ Exists(m) /\ msg[m].conv = c
    /\ Start(p, NewReq("mark", "mark", u, c, m, {}, {}))
    /\ Quietly

----------------------------------------------------------------------------
(* IsUserMuted, of Send and for every target of Forward.                   *)
CheckMuted(p) ==
    LET r == req[p]
    IN  /\ r.pc = "muted"
        /\ IF r.user \in quiet[r.conv] THEN Done(p)
           ELSE Go(p, IF r.op = "forward" THEN "copy" ELSE "insert")
        /\ Quietly

MayQuote(m, c) == Exists(m) /\ msg[m].conv = c

(* create: the reply is verified and the row inserted.                     *)
InsertMessage(p) ==
    LET r == req[p]
        accepted == IF r.row = None THEN TRUE ELSE MayQuote(r.row, r.conv)
    IN  /\ r.pc = "insert"
        /\ \/ ~accepted /\ Done(p) /\ UNCHANGED msg
           \/ \E m \in Msgs :
                /\ accepted /\ Fresh(m)
                /\ msg' = [msg EXCEPT ![m] =
                     Row("live", IF r.op = "system" THEN "system" ELSE "text",
                         r.conv, r.user, r.op = "burn", r.row, None)]
                /\ req' = [req EXCEPT ![p].pc = "tell", ![p].row = m]
        /\ UNCHANGED <<mark, sweeping, events, env>>

Forwardable(m) == Live(m) /\ msg[m].kind = "text" /\ ~msg[m].burn

CheckItem(p, m) ==
    LET r == req[p]
    IN  /\ r.pc = "items" /\ m \in r.left
        /\ IF msg[m].conv = r.conv /\ Forwardable(m)
           THEN req' = [req EXCEPT ![p].items = @ \cup {m}, ![p].left = @ \ {m},
                                   ![p].pc = IF r.left = {m} THEN "target" ELSE "items"]
           ELSE Done(p)
        /\ Quietly

(* Each target is looked at only when its turn has come.                   *)
CheckTarget(p, c) ==
    LET r == req[p]
    IN  /\ r.pc = "target" /\ c \in r.to
        /\ IF r.user \in member[c]
           THEN req' = [req EXCEPT ![p].pc = "muted", ![p].conv = c, ![p].to = @ \ {c},
                                   ![p].left = r.items]
           ELSE Done(p)
        /\ Quietly

(* CreateForward; the items are what was read then.                        *)
Copy(p, m) ==
    LET r == req[p]
    IN  /\ r.pc = "copy" /\ m \in r.left
        /\ \E n \in Msgs :
             /\ Fresh(n)
             /\ msg' = [msg EXCEPT ![n] = Row("live", "text", r.conv, r.user, FALSE, None, m)]
             /\ req' = [req EXCEPT ![p].pc = "tell", ![p].row = n, ![p].left = @ \ {m}]
        /\ UNCHANGED <<mark, sweeping, events, env>>

(* The row the event of a deletion is made of; when it cannot be read, the *)
(* deletion goes on without.                                               *)
NoteMessage(p) ==
    /\ req[p].pc = "note"
    /\ \/ req' = [req EXCEPT ![p].pc = "owner", ![p].noted = TRUE] /\ UNCHANGED faults
       \/ faults < MaxFaults /\ Go(p, "owner") /\ faults' = faults + 1
    /\ UNCHANGED <<msg, mark, sweeping, events, member, quiet, client>>

(* Update and Delete of the repository: read, compare, write.              *)
CheckOwner(p) ==
    LET r == req[p]
    IN  /\ r.pc = "owner"
        /\ IF msg[r.row].sender = r.user /\ Live(r.row)
           THEN Go(p, IF r.op = "edit" THEN "update" ELSE "remove")
           ELSE Done(p)
        /\ Quietly

MayEdit(m) == Live(m)

UpdateMessage(p) ==
    LET r == req[p]
    IN  /\ r.pc = "update"
        /\ IF MayEdit(r.row)
           THEN /\ msg' = [msg EXCEPT ![r.row].body = IF @ < MaxBody THEN @ + 1 ELSE @]
                /\ Go(p, "tell")
           ELSE Done(p) /\ UNCHANGED msg
        /\ UNCHANGED <<mark, sweeping, events, env>>

(* Mutant: the UPDATE by id and sender, without deleted_at IS NULL.        *)
MayRemoveAlways(m) == TRUE
MayRemove(m) == Live(m)

RemoveMessage(p) ==
    LET r == req[p]
    IN  /\ r.pc = "remove"
        /\ IF MayRemove(r.row)
           THEN /\ msg' = [msg EXCEPT ![r.row].state = "deleted"]
                /\ IF r.noted THEN Go(p, "tell") /\ UNCHANGED lost
                   ELSE Done(p) /\ lost' = lost \cup {<<"deleted", r.row>>}
           ELSE Done(p) /\ UNCHANGED <<msg, lost>>
        /\ UNCHANGED <<mark, sweeping, armTold, goneTold, env>>

(* MarkBurnRead: what there is to arm ...                                  *)
Armable(m, u) ==
    Live(m) /\ msg[m].burn /\ msg[m].armedBy = None /\ msg[m].sender # u

LookToArm(p) ==
    LET r == req[p]
    IN  /\ r.pc = "arm"
        /\ IF msg[r.row].conv = r.conv /\ Armable(r.row, r.user) THEN Go(p, "stamp") ELSE Done(p)
        /\ Quietly

(* Mutant: the UPDATE without burn_at IS NULL.                             *)
MayStampAgain(m, u) == Live(m) /\ msg[m].burn /\ msg[m].sender # u
MayStamp(m, u) == Armable(m, u)

(* ... and the stamp, which only one reader sets.                          *)
StampBurn(p) ==
    LET r == req[p]
    IN  /\ r.pc = "stamp"
        /\ IF MayStamp(r.row, r.user)
           THEN msg' = [msg EXCEPT ![r.row].armedBy = r.user] /\ Go(p, "tell")
           ELSE Done(p) /\ UNCHANGED msg
        /\ UNCHANGED <<mark, sweeping, events, env>>

(* The mark is set, forward or back, if the membership is still there.     *)
UpdateLastRead(p) ==
    LET r == req[p]
    IN  /\ r.pc = "mark"
        /\ mark' = [mark EXCEPT ![r.conv][r.user] = IF r.user \in member[r.conv] THEN r.row ELSE @]
        /\ Done(p)
        /\ UNCHANGED <<msg, sweeping, events, env>>

(* The message is loaded again and its event published; a forward goes on. *)
AfterPublish(r) ==
    IF r.left # {} THEN "copy" ELSE IF r.to # {} THEN "target" ELSE "idle"

PublishMessage(p) ==
    LET r == req[p]
    IN  /\ r.pc = "tell"
        /\ IF r.op = "forward" /\ AfterPublish(r) # "idle" THEN Go(p, AfterPublish(r)) ELSE Done(p)
        /\ armTold' = [armTold EXCEPT ![r.row] = IF r.op = "read" THEN @ + 1 ELSE @]
        /\ goneTold' = [goneTold EXCEPT ![r.row] = IF r.op = "delete" THEN @ + 1 ELSE @]
        /\ UNCHANGED <<msg, mark, sweeping, lost, env>>

----------------------------------------------------------------------------
(* StartBurnSweeper: one statement deletes what is due, then each deletion *)
(* is told.                                                                *)
Burned(m) == Live(m) /\ msg[m].due

SweepBurned ==
    /\ sweeper = "on" /\ swept = {}
    /\ \E m \in Msgs : Burned(m)
    /\ swept' = {m \in Msgs : Burned(m)}
    /\ msg' = [m \in Msgs |-> IF Burned(m) THEN [msg[m] EXCEPT !.state = "deleted"] ELSE msg[m]]
    /\ UNCHANGED <<mark, req, sweeper, events, env>>

TellSwept(m) ==
    /\ m \in swept
    /\ swept' = swept \ {m}
    /\ goneTold' = [goneTold EXCEPT ![m] = @ + 1]
    /\ UNCHANGED <<msg, mark, req, sweeper, armTold, lost, env>>

(* Mutant: an error ends the loop.                                         *)
ReturnOnError == "dead"
AfterError == "on"

(* The statement fails, and nothing is deleted.                            *)
SweepFails ==
    /\ sweeper = "on" /\ swept = {} /\ faults < MaxFaults
    /\ sweeper' = AfterError
    /\ faults' = faults + 1
    /\ UNCHANGED <<msg, mark, req, swept, events, member, quiet, client>>

Tick(m) ==
    /\ msg[m].armedBy # None /\ ~msg[m].due
    /\ msg' = [msg EXCEPT ![m].due = TRUE]
    /\ UNCHANGED <<mark, req, sweeping, events, env>>

----------------------------------------------------------------------------
(* What a request that ends here leaves untold.                            *)
Untold(p) ==
    IF req[p].pc # "tell" THEN {}
    ELSE IF req[p].op = "read" THEN {<<"armed", req[p].row>>}
    ELSE IF req[p].op = "delete" THEN {<<"deleted", req[p].row>>}
    ELSE {}

(* A statement of the request fails.                                       *)
Fault(p) ==
    /\ req[p].pc # "idle" /\ faults < MaxFaults
    /\ lost' = lost \cup Untold(p)
    /\ Done(p)
    /\ faults' = faults + 1
    /\ UNCHANGED <<msg, mark, sweeping, armTold, goneTold, member, quiet, client>>

(* The service stops and starts: nobody remembers what was to be told.     *)
Restart ==
    /\ faults < MaxFaults
    /\ lost' = lost \cup (UNION {Untold(p) : p \in Handlers}) \cup ({"deleted"} \X swept)
    /\ req' = [p \in Handlers |-> NoReq]
    /\ swept' = {} /\ sweeper' = "on"
    /\ faults' = faults + 1
    /\ UNCHANGED <<msg, mark, armTold, goneTold, member, quiet, client>>

(* Members come and go, and are muted; with the row goes its mark.         *)
Move(c, u) ==
    /\ "move" \in client.ops
    /\ member' = [member EXCEPT ![c] = IF u \in @ THEN @ \ {u} ELSE @ \cup {u}]
    /\ quiet' = [quiet EXCEPT ![c] = @ \ {u}]
    /\ mark' = [mark EXCEPT ![c][u] = None]
    /\ UNCHANGED <<msg, req, sweeping, events, client, faults>>

Mute(c, u) ==
    /\ "mute" \in client.ops /\ u \in member[c]
    /\ quiet' = [quiet EXCEPT ![c] = IF u \in @ THEN @ \ {u} ELSE @ \cup {u}]
    /\ UNCHANGED <<member, msg, mark, req, sweeping, events, client, faults>>

Arrive(p) ==
    LET rows == {m \in Msgs : Exists(m)}
    IN  \E u \in client.users :
          \/ \E c \in client.convs :
               \/ \E reply \in rows \cup {None} : Send(p, u, c, reply)
               \/ System(p, u, c)
               \/ \E ids \in SUBSET rows \ {{}}, to \in SUBSET client.convs \ {{}} :
                    Forward(p, u, c, ids, to)
               \/ \E m \in rows : BurnRead(p, u, c, m) \/ MarkRead(p, u, c, m)
          \/ \E m \in rows : Edit(p, u, m) \/ Delete(p, u, m)

Serve(p) ==
    \/ CheckMuted(p) \/ InsertMessage(p) \/ PublishMessage(p)
    \/ \E m \in Msgs : CheckItem(p, m) \/ Copy(p, m)
    \/ \E c \in Convs : CheckTarget(p, c)
    \/ NoteMessage(p) \/ CheckOwner(p) \/ UpdateMessage(p) \/ RemoveMessage(p)
    \/ LookToArm(p) \/ StampBurn(p) \/ UpdateLastRead(p)

Sweeper == SweepBurned \/ \E m \in Msgs : TellSwept(m)

Next ==
    \/ \E p \in client.by : Arrive(p)
    \/ \E p \in Handlers : Serve(p) \/ Fault(p)
    \/ Sweeper \/ SweepFails \/ Restart
    \/ \E m \in Msgs : Tick(m)
    \/ \E c \in client.convs, u \in client.users : Move(c, u) \/ Mute(c, u)

Spec == Init /\ [][Next]_vars

(* The ticker keeps calling the sweeper, and time passes.                  *)
FairSpec == Spec /\ WF_vars(Sweeper) /\ \A m \in Msgs : WF_vars(Tick(m))

----------------------------------------------------------------------------
Tellers(op, m) == {p \in Handlers : req[p].op = op /\ req[p].pc = "tell" /\ req[p].row = m}
One(b) == IF b THEN 1 ELSE 0

(* A message is deleted by one request or by the sweeper, never by both:   *)
(* one of them tells it, unless a fault comes first (StartBurnSweeper and  *)
(* Delete in message.go).                                                  *)
DeletionToldOnce ==
    \A m \in Msgs :
      goneTold[m] + Cardinality(Tellers("delete", m)) + One(m \in swept)
        + One(<<"deleted", m>> \in lost) = One(msg[m].state = "deleted")

(* A countdown starts once, by a member who is not the sender, and one     *)
(* event tells it (MarkBurnRead, message.go:482-484).                      *)
CountdownToldOnce ==
    \A m \in Msgs :
      /\ armTold[m] + Cardinality(Tellers("read", m)) + One(<<"armed", m>> \in lost)
           = One(msg[m].armedBy # None)
      /\ msg[m].armedBy # None => msg[m].burn /\ msg[m].armedBy # msg[m].sender
      /\ msg[m].due => msg[m].armedBy # None

(* Replies and read marks stay inside their conversation, and copies are   *)
(* of messages that do not burn.                                           *)
InPlace ==
    /\ \A m \in Msgs :
         /\ msg[m].reply # None => msg[msg[m].reply].conv = msg[m].conv
         /\ msg[m].copyOf # None => ~msg[msg[m].copyOf].burn
    /\ \A c \in Convs, u \in Users : mark[c][u] # None =>
         u \in member[c] /\ msg[mark[c][u]].conv = c

MessageInv == TypeOK /\ DeletionToldOnce /\ CountdownToldOnce /\ InPlace

(* What is deleted stays as it was, and a countdown is never set anew,     *)
(* whoever edits, deletes, reads or sweeps at the same time.               *)
RowsStand ==
    [][\A m \in Msgs :
         /\ msg[m].state = "deleted" => msg'[m].state = "deleted" /\ msg'[m].body = msg[m].body
         /\ msg[m].armedBy # None => msg'[m].armedBy = msg[m].armedBy]_vars

(* A message that was read burns, failures and restarts notwithstanding.   *)
BurnHappens == \A m \in Msgs : msg[m].armedBy # None ~> msg[m].state = "deleted"
=============================================================================
