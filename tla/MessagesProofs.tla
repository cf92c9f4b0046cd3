----------------------------- MODULE MessagesProofs -----------------------------
(***************************************************************************)
(* Proofs about Messages, for any accounts, conversations, messages,       *)
(* failures and edits, and any number of concurrent requests.              *)
(*                                                                         *)
(*   MessagesHold   Spec => []MessageInv                                   *)
(*   MessagesStand  Spec => RowsStand                                      *)
(*                                                                         *)
(* There is no lock to argue from.  What holds a row together is that each *)
(* UPDATE repeats its condition (Still below: what a row may never do),    *)
(* and that what a request relies on can only be made by an insert: a row  *)
(* that exists keeps its conversation, sender and kind.  That an event is  *)
(* published once is a count: of the events, of the requests about to      *)
(* publish, of the sweeper's list, and of what failures have lost.         *)
(***************************************************************************)
EXTENDS Messages, Integers, FiniteSetTheorems, TLAPS

USE MessagesAssumption

(* A request that is about to tell of a message.                           *)
Tells(r, op, m) == r.op = op /\ r.pc = "tell" /\ r.row = m

(* Which statements an operation consists of, and what it names.           *)
Shape(r) ==
    /\ r \in Req
    /\ r.pc # "idle" => r.user \in Users
    /\ r.op \in {"send", "burn", "system", "forward", "mark"} => r.conv \in Convs
    /\ r.pc \in {"note", "owner", "update", "remove", "arm", "stamp", "mark", "tell"} => r.row \in Msgs
    /\ r.pc = "muted" => r.op \in {"send", "burn", "forward"}
    /\ r.pc = "insert" => r.op \in {"send", "burn", "system"}
    /\ r.pc \in {"items", "target", "copy"} => r.op = "forward"
    /\ r.pc \in {"note", "remove"} => r.op = "delete"
    /\ r.pc = "owner" => r.op \in {"edit", "delete"}
    /\ r.pc = "update" => r.op = "edit"
    /\ r.pc \in {"arm", "stamp"} => r.op = "read"
    /\ r.pc = "mark" => r.op = "mark"
    /\ r.op = "forward" /\ r.pc # "items" => r.left \subseteq r.items

(* What it has seen of the rows it names, and still holds when it writes.  *)
Relies(r) ==
    /\ \A m \in r.items : Exists(m) /\ ~msg[m].burn
    /\ r.pc = "mark" => Exists(r.row) /\ msg[r.row].conv = r.conv

Requests == req \in [Handlers -> Req] /\ \A p \in Handlers : Shape(req[p]) /\ Relies(req[p])

Types ==
    /\ member \in [Convs -> SUBSET Users] /\ quiet \in [Convs -> SUBSET Users]
    /\ msg \in [Msgs -> Message]
    /\ mark \in [Convs -> [Users -> Msgs \cup {None}]]
    /\ swept \subseteq Msgs /\ sweeper \in {"on", "dead"}
    /\ armTold \in [Msgs -> Nat] /\ goneTold \in [Msgs -> Nat]
    /\ lost \subseteq {"armed", "deleted"} \X Msgs
    /\ client \in Clients
    /\ faults \in Nat

(* A row that is whole: what it refers to is there and in its place.       *)
Whole(m) ==
    /\ msg[m].state = "none" => msg[m] = NoRow
    /\ msg[m].state # "none" => msg[m].conv \in Convs /\ msg[m].sender \in Users
    /\ msg[m].reply # None => msg[msg[m].reply].conv = msg[m].conv
    /\ msg[m].copyOf # None => Exists(msg[m].copyOf) /\ ~msg[msg[m].copyOf].burn
    /\ msg[m].armedBy # None => msg[m].burn /\ msg[m].armedBy # msg[m].sender
    /\ msg[m].due => msg[m].armedBy # None

Marks ==
    \A c \in Convs, u \in Users : mark[c][u] # None =>
         u \in member[c] /\ msg[mark[c][u]].conv = c

(* One event for the deletion of a message, and one for its countdown.     *)
Gone(m) ==
    goneTold[m] + Cardinality(Tellers("delete", m)) + One(m \in swept)
        + One(<<"deleted", m>> \in lost) = One(msg[m].state = "deleted")

Armed(m) ==
    armTold[m] + Cardinality(Tellers("read", m)) + One(<<"armed", m>> \in lost)
        = One(msg[m].armedBy # None)

Told == \A m \in Msgs : Gone(m) /\ Armed(m)

Rows == \A m \in Msgs : Whole(m)

IInv == Types /\ Rows /\ Marks /\ Told /\ Requests

(* What a step may not do to a row, whoever takes it.                      *)
StillRow(m) ==
    /\ Exists(m) => /\ msg'[m].state # "none"
                    /\ msg'[m].conv = msg[m].conv /\ msg'[m].sender = msg[m].sender
                    /\ msg'[m].burn = msg[m].burn /\ msg'[m].kind = msg[m].kind
                    /\ msg'[m].reply = msg[m].reply /\ msg'[m].copyOf = msg[m].copyOf
    /\ msg[m].state = "deleted" => msg'[m].state = "deleted" /\ msg'[m].body = msg[m].body
    /\ msg[m].armedBy # None => msg'[m].armedBy = msg[m].armedBy

Still == \A m \in Msgs : StillRow(m)

----------------------------------------------------------------------------
(* The rows and requests the actions build.                                *)
LEMMA RowFields ==
  ASSUME NEW state, NEW kind, NEW c, NEW u, NEW burn, NEW reply, NEW copyOf, NEW x,
         x = Row(state, kind, c, u, burn, reply, copyOf)
  PROVE  /\ x.state = state /\ x.kind = kind /\ x.conv = c /\ x.sender = u /\ x.body = 0
         /\ x.burn = burn /\ x.armedBy = None /\ x.due = FALSE /\ x.reply = reply
         /\ x.copyOf = copyOf
         /\ (/\ state \in {"none", "live"} /\ kind \in {"text", "system"} /\ c \in Convs \cup {None}
             /\ u \in Users \cup {None} /\ burn \in BOOLEAN /\ reply \in Msgs \cup {None}
             /\ copyOf \in Msgs \cup {None}) => x \in Message
  BY DEF Row, Message

LEMMA NoRowFields ==
  /\ NoRow \in Message /\ NoRow.state = "none" /\ NoRow.conv = None /\ NoRow.sender = None
  /\ NoRow.burn = FALSE /\ NoRow.armedBy = None /\ NoRow.due = FALSE /\ NoRow.reply = None
  /\ NoRow.copyOf = None
  BY DEF NoRow, Row, Message

LEMMA NewReqFields ==
  ASSUME NEW op, NEW pc, NEW u, NEW c, NEW m, NEW left, NEW to, NEW r,
         r = NewReq(op, pc, u, c, m, left, to)
  PROVE  /\ r.op = op /\ r.pc = pc /\ r.user = u /\ r.conv = c /\ r.row = m
         /\ r.noted = FALSE /\ r.items = {} /\ r.left = left /\ r.to = to
         /\ (/\ op \in Ops \cup {"none"} /\ pc \in Pc /\ u \in Users \cup {None}
             /\ c \in Convs \cup {None} /\ m \in Msgs \cup {None}
             /\ left \in SUBSET Msgs /\ to \in SUBSET Convs) => r \in Req
  BY DEF NewReq, Req

LEMMA NoReqFits ==
  /\ NoReq.op = "none" /\ NoReq.pc = "idle" /\ Shape(NoReq) /\ Relies(NoReq) /\ Relies(NoReq)'
  /\ \A op, m : ~Tells(NoReq, op, m)
<1>1. PICK r : r = NoReq
  OBVIOUS
<1>2. r.op = "none" /\ r.pc = "idle" /\ r.items = {} /\ r \in Req
  BY <1>1 DEF NoReq, NewReq, Req, Pc
<1>3. Shape(r) /\ Relies(r) /\ \A op, m : ~Tells(r, op, m)
  BY <1>2 DEF Shape, Relies, Tells
<1>4. Relies(r)'
  BY <1>2 DEF Relies
<1> QED  BY <1>1, <1>2, <1>3, <1>4

LEMMA GoFields ==
  ASSUME NEW s \in Req, NEW pc \in Pc, NEW r, r = [s EXCEPT !.pc = pc]
  PROVE  /\ r \in Req /\ r.op = s.op /\ r.pc = pc /\ r.user = s.user /\ r.conv = s.conv
         /\ r.row = s.row /\ r.noted = s.noted /\ r.items = s.items /\ r.left = s.left
         /\ r.to = s.to
  BY DEF Req

----------------------------------------------------------------------------
(* The invariant implies the one the run checks.                           *)
LEMMA Implied == IInv => MessageInv
<1> SUFFICES ASSUME IInv PROVE MessageInv
  OBVIOUS
<1>1. TypeOK
  BY DEF IInv, Types, Rows, Whole, Requests, Shape, TypeOK
<1>2. DeletionToldOnce
  BY DEF IInv, Told, Gone, DeletionToldOnce
<1>3. CountdownToldOnce
  BY DEF IInv, Told, Armed, Rows, Whole, CountdownToldOnce
<1>4. InPlace
  BY DEF IInv, Rows, Whole, Marks, InPlace
<1> QED  BY <1>1, <1>2, <1>3, <1>4 DEF MessageInv

(* The requests about to tell, when one request goes on.                   *)
TellersOf(q, op, m) == {p \in Handlers : Tells(q[p], op, m)}

Adds(r, op, m) == IF Tells(r, op, m) THEN 1 ELSE 0

LEMMA TellersAre ==
  ASSUME NEW op, NEW m
  PROVE  Tellers(op, m) = TellersOf(req, op, m) /\ Tellers(op, m)' = TellersOf(req', op, m)
  BY DEF Tellers, TellersOf, Tells

LEMMA TellersFinite ==
  ASSUME NEW q, NEW op, NEW m
  PROVE  IsFiniteSet(TellersOf(q, op, m)) /\ Cardinality(TellersOf(q, op, m)) \in Nat
<1>1. TellersOf(q, op, m) \subseteq Handlers
  BY DEF TellersOf
<1> QED  BY <1>1, FS_Subset, FS_CardinalityType

Differ(q, z, p, r) == z[p] = r /\ \A h \in Handlers : h # p => z[h] = q[h]

LEMMA TellersStep ==
  ASSUME NEW q, NEW z, NEW p \in Handlers, NEW r, Differ(q, z, p, r), NEW op, NEW m
  PROVE  Cardinality(TellersOf(z, op, m)) =
           Cardinality(TellersOf(q, op, m)) - Adds(q[p], op, m) + Adds(r, op, m)
<1>2. PICK A : A = TellersOf(q, op, m)
  OBVIOUS
<1>3. IsFiniteSet(A) /\ Cardinality(A) \in Nat
  BY <1>2, TellersFinite
<1>4. p \in A <=> Tells(q[p], op, m)
  BY <1>2 DEF TellersOf, Differ
<1>5. TellersOf(z, op, m) = IF Tells(r, op, m) THEN A \cup {p} ELSE A \ {p}
  BY <1>2 DEF TellersOf, Differ
<1>6. Cardinality(A \cup {p}) = IF p \in A THEN Cardinality(A) ELSE Cardinality(A) + 1
  BY <1>3, FS_AddElement
<1>7. Cardinality(A \ {p}) = IF p \in A THEN Cardinality(A) - 1 ELSE Cardinality(A)
  BY <1>3, FS_RemoveElement
<1>8. PICK n \in Nat : n = Cardinality(A)
  BY <1>3
<1>9. Adds(q[p], op, m) = IF p \in A THEN 1 ELSE 0
  BY <1>4 DEF Adds
<1>10. CASE Tells(r, op, m)
  <2>1. Cardinality(TellersOf(z, op, m)) = IF p \in A THEN n ELSE n + 1
    BY <1>5, <1>6, <1>8, <1>10
  <2>2. Adds(r, op, m) = 1
    BY <1>10 DEF Adds
  <2> QED  BY <1>2, <1>8, <1>9, <2>1, <2>2
<1>11. CASE ~Tells(r, op, m)
  <2>1. Cardinality(TellersOf(z, op, m)) = IF p \in A THEN n - 1 ELSE n
    BY <1>5, <1>7, <1>8, <1>11
  <2>2. Adds(r, op, m) = 0
    BY <1>11 DEF Adds
  <2> QED  BY <1>2, <1>8, <1>9, <2>1, <2>2
<1> QED  BY <1>10, <1>11

----------------------------------------------------------------------------
(* What follows from rows standing still.                                  *)
LEMMA RowFacts ==
  ASSUME IInv, NEW m \in Msgs
  PROVE  /\ msg[m] \in Message /\ Whole(m)
         /\ ~Exists(m) => msg[m] = NoRow
         /\ Exists(m) => msg[m].conv \in Convs /\ msg[m].sender \in Users
         /\ msg[m].conv \in Convs => Exists(m)
         /\ msg[m].reply # None => Exists(m) /\ msg[m].reply \in Msgs /\ Exists(msg[m].reply)
         /\ msg[m].copyOf # None => Exists(m) /\ msg[m].copyOf \in Msgs /\ Exists(msg[m].copyOf)
<1>1. msg[m] \in Message /\ Whole(m)
  BY DEF IInv, Types, Rows
<1>2. ~Exists(m) => msg[m] = NoRow
  BY <1>1 DEF Whole, Exists
<1>3. Exists(m) => msg[m].conv \in Convs /\ msg[m].sender \in Users
  BY <1>1 DEF Whole, Exists
<1>4. ASSUME NEW n \in Msgs, msg[n].conv \in Convs PROVE Exists(n)
  <2>1. ~Exists(n) => msg[n] = NoRow
    BY DEF IInv, Rows, Whole, Exists
  <2> QED  BY <1>4, <2>1, NoRowFields
<1>5. msg[m].reply # None => Exists(m) /\ msg[m].reply \in Msgs
  BY <1>1, <1>2, NoRowFields DEF Message
<1>6. msg[m].reply # None => Exists(msg[m].reply)
  BY <1>1, <1>3, <1>4, <1>5 DEF Whole
<1>7. msg[m].copyOf # None => Exists(m) /\ msg[m].copyOf \in Msgs /\ Exists(msg[m].copyOf)
  BY <1>1, <1>2, NoRowFields DEF Message, Whole
<1> QED  BY <1>1, <1>2, <1>3, <1>4, <1>5, <1>6, <1>7

(* A row that was there stays whole if its countdown is in order.          *)
LEMMA WholeStep ==
  ASSUME IInv, Still, NEW m \in Msgs,
         Exists(m) \/ msg'[m] = msg[m],
         msg'[m].armedBy # None => msg'[m].burn /\ msg'[m].armedBy # msg'[m].sender,
         msg'[m].due => msg'[m].armedBy # None
  PROVE  Whole(m)'
<1>1. CASE ~Exists(m)
  <2>1. msg'[m] = NoRow
    BY <1>1, RowFacts
  <2> QED  BY <2>1, NoRowFields DEF Whole
<1>2. CASE Exists(m)
  <2>1. /\ msg'[m].state # "none" /\ msg'[m].conv = msg[m].conv /\ msg'[m].sender = msg[m].sender
        /\ msg'[m].reply = msg[m].reply /\ msg'[m].copyOf = msg[m].copyOf
    BY <1>2 DEF Still, StillRow
  <2>2. msg'[m].conv \in Convs /\ msg'[m].sender \in Users
    BY <1>2, <2>1, RowFacts
  <2>3. ASSUME msg[m].reply # None PROVE msg'[msg[m].reply].conv = msg[m].conv
    <3>1. PICK n \in Msgs : n = msg[m].reply
      BY <2>3, RowFacts
    <3>2. Exists(n) /\ msg[n].conv = msg[m].conv
      BY <2>3, <3>1, RowFacts DEF Whole
    <3> QED  BY <3>1, <3>2 DEF Still, StillRow
  <2>4. ASSUME msg[m].copyOf # None
        PROVE  msg'[msg[m].copyOf].state # "none" /\ ~msg'[msg[m].copyOf].burn
    BY <2>4, RowFacts DEF Still, StillRow, Whole
  <2> QED  BY <2>1, <2>2, <2>3, <2>4 DEF Whole, Exists
<1> QED  BY <1>1, <1>2

LEMMA MarksStep ==
  ASSUME IInv, Still, UNCHANGED <<mark, member>>
  PROVE  Marks'
<1> SUFFICES ASSUME NEW c \in Convs, NEW u \in Users, mark[c][u] # None
             PROVE  u \in member[c] /\ msg'[mark[c][u]].conv = c
  BY DEF Marks
<1>1. u \in member[c] /\ msg[mark[c][u]].conv = c /\ mark[c][u] \in Msgs
  BY DEF IInv, Marks, Types
<1>2. Exists(mark[c][u])
  BY <1>1, RowFacts
<1> QED  BY <1>1, <1>2 DEF Still, StillRow

LEMMA ReliesStep ==
  ASSUME IInv, Still, NEW r, Shape(r), Relies(r)
  PROVE  Relies(r)'
<1>1. r.items \subseteq Msgs /\ (r.pc = "mark" => r.row \in Msgs)
  BY DEF Shape, Req
<1> QED  BY <1>1 DEF Relies, Still, StillRow, Exists

LEMMA RequestStep ==
  ASSUME IInv, Still, NEW p \in Handlers, NEW r, req' = [req EXCEPT ![p] = r],
         Shape(r), Relies(r)'
  PROVE  Requests'
<1>1. req \in [Handlers -> Req] /\ r \in Req
  BY DEF IInv, Requests, Shape
<1>2. req'[p] = r /\ \A q \in Handlers : q # p => req'[q] = req[q]
  BY <1>1
<1>3. ASSUME NEW q \in Handlers PROVE Shape(req'[q]) /\ Relies(req[q])'
  <2>1. CASE q = p
    BY <1>2, <2>1
  <2>2. CASE q # p
    <3>1. PICK s : s = req[q]
      OBVIOUS
    <3>2. Shape(s) /\ Relies(s)'
      BY <3>1, ReliesStep DEF IInv, Requests
    <3> QED  BY <1>2, <2>2, <3>1, <3>2
  <2> QED  BY <2>1, <2>2
<1>4. \A q \in Handlers : Shape(req[q])'
  BY <1>3 DEF Shape
<1> QED  BY <1>1, <1>3, <1>4 DEF Requests

LEMMA RequestsSame ==
  ASSUME IInv, Still, UNCHANGED req
  PROVE  Requests'
<1>1. ASSUME NEW q \in Handlers PROVE Shape(req[q])' /\ Relies(req[q])'
  <2>1. PICK s : s = req[q]
    OBVIOUS
  <2>2. Shape(s) /\ Relies(s)'
    BY <2>1, ReliesStep DEF IInv, Requests
  <2> QED  BY <2>1, <2>2 DEF Shape
<1> QED  BY <1>1 DEF IInv, Requests

LEMMA MsgSame == UNCHANGED msg => Still
  BY DEF Still, StillRow, Exists

LEMMA RowsSame ==
  ASSUME IInv, UNCHANGED msg
  PROVE  Rows'
<1>1. Still
  BY MsgSame
<1>2. ASSUME NEW m \in Msgs PROVE Whole(m)'
  BY <1>1, WholeStep, RowFacts DEF Whole
<1> QED  BY <1>2 DEF Rows

----------------------------------------------------------------------------
(* What the counts of a message lack without the requests about to tell.   *)
GoneNet(m) ==
    goneTold[m] + One(m \in swept) + One(<<"deleted", m>> \in lost) - One(msg[m].state = "deleted")

ArmedNet(m) == armTold[m] + One(<<"armed", m>> \in lost) - One(msg[m].armedBy # None)

LEMMA OneType == ASSUME NEW b \in BOOLEAN PROVE One(b) \in {0, 1} /\ (b <=> One(b) = 1)
  BY DEF One

LEMMA NetType ==
  ASSUME IInv, NEW m \in Msgs
  PROVE  /\ GoneNet(m) \in Int /\ ArmedNet(m) \in Int
         /\ GoneNet(m) + Cardinality(TellersOf(req, "delete", m)) = 0
         /\ ArmedNet(m) + Cardinality(TellersOf(req, "read", m)) = 0
<1>1. goneTold[m] \in Nat /\ armTold[m] \in Nat
  BY DEF IInv, Types
<1>2. /\ Cardinality(TellersOf(req, "delete", m)) \in Nat /\ Cardinality(TellersOf(req, "read", m)) \in Nat
      /\ Tellers("delete", m) = TellersOf(req, "delete", m) /\ Tellers("read", m) = TellersOf(req, "read", m)
  BY TellersFinite, TellersAre
<1>3. Gone(m)
  BY DEF IInv, Told
<1>4. Armed(m)
  BY DEF IInv, Told
<1>5. GoneNet(m) \in Int
  BY <1>1, <1>2, <1>3 DEF Gone, GoneNet, One
<1>6. GoneNet(m) + Cardinality(TellersOf(req, "delete", m)) = 0
  BY <1>1, <1>2, <1>3 DEF Gone, GoneNet, One
<1>7. ArmedNet(m) \in Int
  BY <1>1, <1>2, <1>4 DEF Armed, ArmedNet, One
<1>8. ArmedNet(m) + Cardinality(TellersOf(req, "read", m)) = 0
  BY <1>1, <1>2, <1>4 DEF Armed, ArmedNet, One
<1> QED  BY <1>5, <1>6, <1>7, <1>8

(* One request goes on, and the books still balance.                       *)
Moves(p, r) == req' = [req EXCEPT ![p] = r]

LEMMA TellersMove ==
  ASSUME IInv, NEW p \in Handlers, NEW r, Moves(p, r), NEW op, NEW m
  PROVE  Cardinality(TellersOf(req', op, m)) =
           Cardinality(TellersOf(req, op, m)) - Adds(req[p], op, m) + Adds(r, op, m)
<1>1. PICK q, z : q = req /\ z = req'
  OBVIOUS
<1>2. Differ(q, z, p, r)
  BY <1>1 DEF IInv, Requests, Moves, Differ
<1>3. Cardinality(TellersOf(z, op, m)) =
        Cardinality(TellersOf(q, op, m)) - Adds(q[p], op, m) + Adds(r, op, m)
  BY <1>2, TellersStep
<1> QED  BY <1>1, <1>3

LEMMA GoneStep ==
  ASSUME IInv, NEW p \in Handlers, NEW r, Moves(p, r), NEW m \in Msgs,
         goneTold'[m] \in Nat,
         GoneNet(m)' + Adds(r, "delete", m) = GoneNet(m) + Adds(req[p], "delete", m)
  PROVE  Gone(m)'
<1>1. PICK t \in Nat : t = Cardinality(TellersOf(req, "delete", m))
  BY TellersFinite
<1>2. PICK u \in Nat : u = Cardinality(TellersOf(req', "delete", m))
  BY TellersFinite
<1>3. u = t - Adds(req[p], "delete", m) + Adds(r, "delete", m)
  BY <1>1, <1>2, TellersMove
<1>4. Adds(req[p], "delete", m) \in Nat /\ Adds(r, "delete", m) \in Nat
  BY DEF Adds
<1>5. GoneNet(m)' \in Int
  BY DEF GoneNet, One
<1>6. GoneNet(m)' + u = 0
  BY <1>1, <1>3, <1>4, <1>5, NetType
<1>7. Tellers("delete", m)' = TellersOf(req', "delete", m)
  BY TellersAre
<1>8. goneTold'[m] + One(m \in swept') + One(<<"deleted", m>> \in lost') + u
        = One(msg'[m].state = "deleted")
  BY <1>6 DEF GoneNet, One
<1> QED  BY <1>2, <1>7, <1>8 DEF Gone, One

LEMMA ArmedStep ==
  ASSUME IInv, NEW p \in Handlers, NEW r, Moves(p, r), NEW m \in Msgs,
         armTold'[m] \in Nat,
         ArmedNet(m)' + Adds(r, "read", m) = ArmedNet(m) + Adds(req[p], "read", m)
  PROVE  Armed(m)'
<1>1. PICK t \in Nat : t = Cardinality(TellersOf(req, "read", m))
  BY TellersFinite
<1>2. PICK u \in Nat : u = Cardinality(TellersOf(req', "read", m))
  BY TellersFinite
<1>3. u = t - Adds(req[p], "read", m) + Adds(r, "read", m)
  BY <1>1, <1>2, TellersMove
<1>4. Adds(req[p], "read", m) \in Nat /\ Adds(r, "read", m) \in Nat
  BY DEF Adds
<1>5. ArmedNet(m)' \in Int
  BY DEF ArmedNet, One
<1>6. ArmedNet(m)' + u = 0
  BY <1>1, <1>3, <1>4, <1>5, NetType
<1>7. Tellers("read", m)' = TellersOf(req', "read", m)
  BY TellersAre
<1> QED  BY <1>2, <1>6, <1>7 DEF Armed, ArmedNet, One

(* What the step p takes, after which its request is r, does to the books. *)
Balance(r, s) ==
    \A m \in Msgs :
      /\ GoneNet(m)' + Adds(r, "delete", m) = GoneNet(m) + Adds(s, "delete", m)
      /\ ArmedNet(m)' + Adds(r, "read", m) = ArmedNet(m) + Adds(s, "read", m)

LEMMA ServeStep ==
  ASSUME IInv, Still, NEW p \in Handlers, NEW r, req' = [req EXCEPT ![p] = r],
         Shape(r), Relies(r)', Types', Rows', Marks', Balance(r, req[p])
  PROVE  IInv'
<1>1. Requests'
  BY RequestStep
<1>2. ASSUME NEW m \in Msgs PROVE Gone(m)' /\ Armed(m)'
  <2>1. goneTold'[m] \in Nat /\ armTold'[m] \in Nat
    BY DEF Types
  <2>2. /\ GoneNet(m)' + Adds(r, "delete", m) = GoneNet(m) + Adds(req[p], "delete", m)
        /\ ArmedNet(m)' + Adds(r, "read", m) = ArmedNet(m) + Adds(req[p], "read", m)
    BY DEF Balance
  <2>3. Moves(p, r)
    BY DEF Moves
  <2> QED  BY <2>1, <2>2, <2>3, GoneStep, ArmedStep
<1> QED  BY <1>1, <1>2 DEF IInv, Told

LEMMA NothingToTell ==
  ASSUME NEW r, r.pc # "tell", NEW op, NEW m PROVE Adds(r, op, m) = 0
  BY DEF Adds, Tells

(* A step that touches no table.                                           *)
LEMMA QuietStep ==
  ASSUME IInv, NEW p \in Handlers, NEW r, req' = [req EXCEPT ![p] = r], Shape(r), Relies(r),
         req[p].pc # "tell", r.pc # "tell",
         UNCHANGED <<msg, mark, swept, sweeper, armTold, goneTold, lost, member, quiet, client>>,
         faults' \in Nat
  PROVE  IInv'
<1>1. Still /\ Rows' /\ Marks'
  BY MsgSame, RowsSame, MarksStep
<1>2. Types'
  BY DEF IInv, Types
<1>3. Relies(r)'
  BY <1>1, ReliesStep
<1>4. \A m \in Msgs : GoneNet(m)' = GoneNet(m) /\ ArmedNet(m)' = ArmedNet(m)
  BY DEF GoneNet, ArmedNet
<1>5. Balance(r, req[p])
  BY <1>4, NothingToTell, NetType DEF Balance
<1> QED  BY <1>1, <1>2, <1>3, <1>5, ServeStep

LEMMA Held ==
  ASSUME IInv, NEW p \in Handlers
  PROVE  req[p] \in Req /\ Shape(req[p]) /\ Relies(req[p])
  BY DEF IInv, Requests

LEMMA FaultsType == IInv => faults \in Nat
  BY DEF IInv, Types

LEMMA DoneQuiet ==
  ASSUME IInv, NEW p \in Handlers, Done(p), req[p].pc # "tell", Quietly
  PROVE  IInv'
  BY QuietStep, NoReqFits, FaultsType DEF Done, Quietly, sweeping, events, env

LEMMA GoQuiet ==
  ASSUME IInv, NEW p \in Handlers, NEW r, req' = [req EXCEPT ![p] = r], Shape(r), Relies(r),
         req[p].pc # "tell", r.pc # "tell", Quietly
  PROVE  IInv'
  BY QuietStep, FaultsType DEF Quietly, sweeping, events, env

----------------------------------------------------------------------------
(* Requests that begin.                                                    *)
LEMMA StartInv ==
  ASSUME IInv, NEW p \in Handlers, NEW op \in Ops, NEW pc \in Pc, NEW u \in Users,
         NEW c \in Convs, NEW m \in Msgs \cup {None}, NEW left \in SUBSET Msgs, NEW to \in SUBSET Convs,
         NEW r, r = NewReq(op, pc, u, c, m, left, to), Start(p, r), Quietly,
         \/ pc = "muted" /\ op \in {"send", "burn"}
         \/ pc = "insert" /\ op = "system"
         \/ pc = "items" /\ op = "forward"
         \/ pc = "owner" /\ op = "edit" /\ m \in Msgs
         \/ pc = "note" /\ op = "delete" /\ m \in Msgs
         \/ pc = "arm" /\ op = "read" /\ m \in Msgs
         \/ pc = "mark" /\ op = "mark" /\ m \in Msgs /\ Exists(m) /\ msg[m].conv = c
  PROVE  IInv'
<1>1. req[p].pc = "idle" /\ req' = [req EXCEPT ![p] = r]
  BY DEF Start
<1>2. /\ r.op = op /\ r.pc = pc /\ r.user = u /\ r.conv = c /\ r.row = m /\ r.items = {}
      /\ r.left = left /\ r.to = to /\ r \in Req
  BY DEF NewReq, Req
<1>3. Shape(r)
  BY <1>2 DEF Shape
<1>4. Relies(r)
  BY <1>2 DEF Relies
<1> QED  BY <1>1, <1>2, <1>3, <1>4, GoQuiet

LEMMA ClientTypes ==
  ASSUME IInv
  PROVE  client.users \subseteq Users /\ client.convs \subseteq Convs /\ client.by \subseteq Handlers
         /\ client.msgs \subseteq Msgs
  BY DEF IInv, Types

LEMMA ArriveInv ==
  ASSUME IInv, NEW p \in Handlers, Arrive(p)
  PROVE  IInv'
<1>1. PICK u \in client.users :
        \/ \E c \in client.convs :
             \/ \E reply \in {m \in Msgs : Exists(m)} \cup {None} : Send(p, u, c, reply)
             \/ System(p, u, c)
             \/ \E ids \in SUBSET {m \in Msgs : Exists(m)} \ {{}}, to \in SUBSET client.convs \ {{}} :
                  Forward(p, u, c, ids, to)
             \/ \E m \in {m \in Msgs : Exists(m)} : BurnRead(p, u, c, m) \/ MarkRead(p, u, c, m)
        \/ \E m \in {m \in Msgs : Exists(m)} : Edit(p, u, m) \/ Delete(p, u, m)
  BY DEF Arrive
<1>2. u \in Users
  BY ClientTypes
<1>3. ASSUME NEW c \in Convs, NEW reply \in Msgs \cup {None}, Send(p, u, c, reply) PROVE IInv'
  <2>1. PICK op \in {"send", "burn"} : Start(p, NewReq(op, "muted", u, c, reply, {}, {}))
    BY <1>3 DEF Send
  <2> QED  BY <1>2, <1>3, <2>1, StartInv DEF Send, Ops, Pc
<1>4. ASSUME NEW c \in Convs, System(p, u, c) PROVE IInv'
  BY <1>2, <1>4, StartInv DEF System, Ops, Pc
<1>5. ASSUME NEW c \in Convs, NEW ids \in SUBSET Msgs, NEW to \in SUBSET Convs, Forward(p, u, c, ids, to)
      PROVE  IInv'
  BY <1>2, <1>5, StartInv DEF Forward, Ops, Pc
<1>6. ASSUME NEW c \in Convs, NEW m \in Msgs, BurnRead(p, u, c, m) PROVE IInv'
  BY <1>2, <1>6, StartInv DEF BurnRead, Ops, Pc
<1>7. ASSUME NEW c \in Convs, NEW m \in Msgs, MarkRead(p, u, c, m) PROVE IInv'
  BY <1>2, <1>7, StartInv DEF MarkRead, Ops, Pc
<1>8. ASSUME NEW m \in Msgs, Edit(p, u, m) \/ Delete(p, u, m) PROVE IInv'
  <2>1. msg[m].conv \in Convs
    BY <1>8, RowFacts DEF Edit, Delete
  <2>2. CASE Edit(p, u, m)
    BY <1>2, <2>1, <2>2, StartInv DEF Edit, Ops, Pc
  <2>3. CASE Delete(p, u, m)
    BY <1>2, <2>1, <2>3, StartInv DEF Delete, Ops, Pc
  <2> QED  BY <1>8, <2>2, <2>3
<1> QED
  <2>1. \A c \in client.convs : c \in Convs
    BY ClientTypes
  <2>2. \A to \in SUBSET client.convs : to \in SUBSET Convs
    BY ClientTypes
  <2>3. ASSUME NEW c \in client.convs, NEW reply \in {m \in Msgs : Exists(m)} \cup {None},
               Send(p, u, c, reply)
        PROVE  IInv'
    BY <1>3, <2>1, <2>3
  <2>4. ASSUME NEW c \in client.convs, System(p, u, c) PROVE IInv'
    BY <1>4, <2>1, <2>4
  <2>5. ASSUME NEW c \in client.convs, NEW ids \in SUBSET {m \in Msgs : Exists(m)},
               NEW to \in SUBSET client.convs, Forward(p, u, c, ids, to)
        PROVE  IInv'
    <3>1. ids \in SUBSET Msgs
      OBVIOUS
    <3> QED  BY <1>5, <2>1, <2>2, <2>5, <3>1
  <2>6. ASSUME NEW c \in client.convs, NEW m \in {m \in Msgs : Exists(m)},
               BurnRead(p, u, c, m) \/ MarkRead(p, u, c, m)
        PROVE  IInv'
    BY <1>6, <1>7, <2>1, <2>6
  <2>7. ASSUME NEW m \in {m \in Msgs : Exists(m)}, Edit(p, u, m) \/ Delete(p, u, m) PROVE IInv'
    BY <1>8, <2>7
  <2> QED  BY <1>1, <2>3, <2>4, <2>5, <2>6, <2>7

----------------------------------------------------------------------------
(* Requests that look, and go on or give up.                               *)
LEMMA CheckMutedInv ==
  ASSUME IInv, NEW p \in Handlers, CheckMuted(p)
  PROVE  IInv'
<1>1. PICK s : s = req[p]
  OBVIOUS
<1>2. s \in Req /\ Shape(s) /\ Relies(s) /\ s.pc = "muted"
  BY <1>1, Held DEF CheckMuted
<1>3. PICK pc \in Pc : pc = IF s.op = "forward" THEN "copy" ELSE "insert"
  BY DEF Pc
<1>4. PICK r : r = [s EXCEPT !.pc = pc]
  OBVIOUS
<1>5. /\ r \in Req /\ r.op = s.op /\ r.pc = pc /\ r.user = s.user /\ r.conv = s.conv
      /\ r.row = s.row /\ r.items = s.items /\ r.left = s.left
  BY <1>2, <1>4, GoFields
<1>6. Shape(r) /\ Relies(r)
  BY <1>2, <1>3, <1>5 DEF Shape, Relies
<1>7. Done(p) \/ req' = [req EXCEPT ![p] = r]
  BY <1>1, <1>3, <1>4 DEF CheckMuted, Go
<1>8. Quietly
  BY DEF CheckMuted
<1>9. CASE Done(p)
  BY <1>1, <1>2, <1>8, <1>9, DoneQuiet
<1>10. CASE req' = [req EXCEPT ![p] = r]
  BY <1>1, <1>2, <1>3, <1>5, <1>6, <1>8, <1>10, GoQuiet
<1> QED  BY <1>7, <1>9, <1>10

LEMMA CheckItemInv ==
  ASSUME IInv, NEW p \in Handlers, NEW m \in Msgs, CheckItem(p, m)
  PROVE  IInv'
<1>1. PICK s : s = req[p]
  OBVIOUS
<1>2. s \in Req /\ Shape(s) /\ Relies(s) /\ s.pc = "items" /\ m \in s.left /\ Quietly
  BY <1>1, Held DEF CheckItem
<1>3. CASE ~Forwardable(m) \/ Done(p)
  BY <1>1, <1>2, <1>3, DoneQuiet DEF CheckItem
<1>4. CASE Forwardable(m) /\ ~Done(p)
  <2>1. PICK pc \in Pc : pc = IF s.left = {m} THEN "target" ELSE "items"
    BY DEF Pc
  <2>2. PICK r : r = [s EXCEPT !.items = @ \cup {m}, !.left = @ \ {m}, !.pc = pc]
    OBVIOUS
  <2>3. req' = [req EXCEPT ![p] = r]
    BY <1>1, <1>4, <2>1, <2>2 DEF CheckItem
  <2>4. /\ r.op = s.op /\ r.pc = pc /\ r.user = s.user /\ r.conv = s.conv
        /\ r.row = s.row /\ r.items = s.items \cup {m} /\ r.left = s.left \ {m}
    BY <1>2, <2>2 DEF Req
  <2>5. r \in Req
    BY <1>2, <2>2 DEF Req
  <2>6. Shape(r)
    BY <1>2, <2>1, <2>4, <2>5 DEF Shape
  <2>7. Exists(m) /\ ~msg[m].burn
    BY <1>4 DEF Forwardable, Live, Exists
  <2>8. Relies(r)
    BY <1>2, <2>1, <2>4, <2>7 DEF Relies
  <2> QED  BY <1>1, <1>2, <2>1, <2>3, <2>4, <2>6, <2>8, GoQuiet
<1> QED  BY <1>3, <1>4

LEMMA CheckTargetInv ==
  ASSUME IInv, NEW p \in Handlers, NEW c \in Convs, CheckTarget(p, c)
  PROVE  IInv'
<1>1. PICK s : s = req[p]
  OBVIOUS
<1>2. s \in Req /\ Shape(s) /\ Relies(s) /\ s.pc = "target" /\ Quietly
  BY <1>1, Held DEF CheckTarget
<1>3. PICK pc \in Pc : pc = "muted"
  BY DEF Pc
<1>4. PICK r : r = [s EXCEPT !.pc = pc, !.conv = c, !.to = @ \ {c}, !.left = s.items]
  OBVIOUS
<1>5. Done(p) \/ req' = [req EXCEPT ![p] = r]
  BY <1>1, <1>3, <1>4 DEF CheckTarget
<1>6. /\ r \in Req /\ r.op = s.op /\ r.pc = pc /\ r.user = s.user /\ r.conv = c
      /\ r.row = s.row /\ r.items = s.items /\ r.left = s.items
  BY <1>2, <1>4 DEF Req
<1>7. Shape(r) /\ Relies(r)
  BY <1>2, <1>3, <1>6 DEF Shape, Relies
<1>8. CASE Done(p)
  BY <1>1, <1>2, <1>8, DoneQuiet
<1>9. CASE req' = [req EXCEPT ![p] = r]
  BY <1>1, <1>2, <1>3, <1>6, <1>7, <1>9, GoQuiet
<1> QED  BY <1>5, <1>8, <1>9

(* A deletion looks at its row twice; the first look may fail.             *)
LEMMA NoteInv ==
  ASSUME IInv, NEW p \in Handlers, NoteMessage(p)
  PROVE  IInv'
<1>1. PICK s : s = req[p]
  OBVIOUS
<1>2. /\ s \in Req /\ Shape(s) /\ Relies(s) /\ s.pc = "note" /\ faults' \in Nat
      /\ UNCHANGED <<msg, mark, swept, sweeper, armTold, goneTold, lost, member, quiet, client>>
  BY <1>1, Held, FaultsType DEF NoteMessage, sweeping, events
<1>3. PICK pc \in Pc : pc = "owner"
  BY DEF Pc
<1>4. PICK noted \in BOOLEAN : req' = [req EXCEPT ![p] = [s EXCEPT !.pc = pc, !.noted = noted]]
  <2>1. CASE req' = [req EXCEPT ![p].pc = "owner", ![p].noted = TRUE]
    BY <1>1, <1>3, <2>1
  <2>2. CASE Go(p, "owner")
    <3>1. [s EXCEPT !.pc = pc] = [s EXCEPT !.pc = pc, !.noted = s.noted] /\ s.noted \in BOOLEAN
      BY <1>2 DEF Req
    <3>2. req' = [req EXCEPT ![p] = [s EXCEPT !.pc = pc]]
      BY <1>1, <1>3, <2>2 DEF Go
    <3> QED  BY <3>1, <3>2
  <2> QED  BY <2>1, <2>2 DEF NoteMessage
<1>5. PICK r : r = [s EXCEPT !.pc = pc, !.noted = noted]
  OBVIOUS
<1>6. /\ r \in Req /\ r.op = s.op /\ r.pc = pc /\ r.user = s.user /\ r.conv = s.conv
      /\ r.row = s.row /\ r.items = s.items /\ r.left = s.left
  BY <1>2, <1>5 DEF Req
<1>7. Shape(r) /\ Relies(r)
  BY <1>2, <1>3, <1>6 DEF Shape, Relies
<1>8. req' = [req EXCEPT ![p] = r]
  BY <1>4, <1>5
<1> QED  BY <1>1, <1>2, <1>3, <1>6, <1>7, <1>8, QuietStep

LEMMA CheckOwnerInv ==
  ASSUME IInv, NEW p \in Handlers, CheckOwner(p)
  PROVE  IInv'
<1>1. PICK s : s = req[p]
  OBVIOUS
<1>2. s \in Req /\ Shape(s) /\ Relies(s) /\ s.pc = "owner" /\ Quietly
  BY <1>1, Held DEF CheckOwner
<1>3. PICK pc \in Pc : pc = IF s.op = "edit" THEN "update" ELSE "remove"
  BY DEF Pc
<1>4. PICK r : r = [s EXCEPT !.pc = pc]
  OBVIOUS
<1>5. /\ r \in Req /\ r.op = s.op /\ r.pc = pc /\ r.user = s.user /\ r.conv = s.conv
      /\ r.row = s.row /\ r.items = s.items /\ r.left = s.left
  BY <1>2, <1>4, GoFields
<1>6. Shape(r) /\ Relies(r)
  BY <1>2, <1>3, <1>5 DEF Shape, Relies
<1>7. Done(p) \/ req' = [req EXCEPT ![p] = r]
  BY <1>1, <1>3, <1>4 DEF CheckOwner, Go
<1>8. CASE Done(p)
  BY <1>1, <1>2, <1>8, DoneQuiet
<1>9. CASE req' = [req EXCEPT ![p] = r]
  BY <1>1, <1>2, <1>3, <1>5, <1>6, <1>9, GoQuiet
<1> QED  BY <1>7, <1>8, <1>9

LEMMA LookToArmInv ==
  ASSUME IInv, NEW p \in Handlers, LookToArm(p)
  PROVE  IInv'
<1>1. PICK s : s = req[p]
  OBVIOUS
<1>2. s \in Req /\ Shape(s) /\ Relies(s) /\ s.pc = "arm" /\ Quietly
  BY <1>1, Held DEF LookToArm
<1>3. PICK pc \in Pc : pc = "stamp"
  BY DEF Pc
<1>4. PICK r : r = [s EXCEPT !.pc = pc]
  OBVIOUS
<1>5. /\ r \in Req /\ r.op = s.op /\ r.pc = pc /\ r.user = s.user /\ r.conv = s.conv
      /\ r.row = s.row /\ r.items = s.items /\ r.left = s.left
  BY <1>2, <1>4, GoFields
<1>6. Shape(r) /\ Relies(r)
  BY <1>2, <1>3, <1>5 DEF Shape, Relies
<1>7. Done(p) \/ req' = [req EXCEPT ![p] = r]
  BY <1>1, <1>3, <1>4 DEF LookToArm, Go
<1>8. CASE Done(p)
  BY <1>1, <1>2, <1>8, DoneQuiet
<1>9. CASE req' = [req EXCEPT ![p] = r]
  BY <1>1, <1>2, <1>3, <1>5, <1>6, <1>9, GoQuiet
<1> QED  BY <1>7, <1>8, <1>9

----------------------------------------------------------------------------
(* A row that is inserted, and one that is changed.                        *)
LEMMA NewRow ==
  ASSUME IInv, NEW m \in Msgs, ~Exists(m), NEW x \in Message, msg' = [msg EXCEPT ![m] = x],
         x.state = "live", x.conv \in Convs, x.sender \in Users, x.armedBy = None, ~x.due,
         x.reply # None => Exists(x.reply) /\ msg[x.reply].conv = x.conv,
         x.copyOf # None => Exists(x.copyOf) /\ ~msg[x.copyOf].burn
  PROVE  Still /\ Rows' /\ msg' \in [Msgs -> Message]
<1>1. /\ msg \in [Msgs -> Message] /\ msg'[m] = x
      /\ \A n \in Msgs : n # m => msg'[n] = msg[n]
  BY DEF IInv, Types
<1>2. msg[m].state = "none" /\ msg[m].armedBy = None
  BY RowFacts, NoRowFields DEF Exists
<1>3. ASSUME NEW n \in Msgs PROVE StillRow(n)
  <2>1. CASE n = m
    BY <1>2, <2>1 DEF StillRow, Exists
  <2>2. CASE n # m
    BY <1>1, <2>2 DEF StillRow, Exists
  <2> QED  BY <2>1, <2>2
<1>4. Still
  BY <1>3 DEF Still
<1>5. ASSUME NEW n \in Msgs PROVE Whole(n)'
  <2>1. CASE n # m
    <3>1. msg'[n] = msg[n]
      BY <1>1, <2>1
    <3> QED  BY <1>4, <3>1, RowFacts, WholeStep DEF Whole
  <2>2. CASE n = m
    <3>1. x.reply # None => x.reply \in Msgs /\ x.reply # m
      BY DEF Message
    <3>2. x.copyOf # None => x.copyOf \in Msgs /\ x.copyOf # m
      BY DEF Message
    <3>3. x.reply # None => msg'[x.reply].conv = x.conv
      BY <1>1, <3>1
    <3>4. x.copyOf # None => msg'[x.copyOf].state # "none" /\ ~msg'[x.copyOf].burn
      BY <1>1, <3>2 DEF Exists
    <3> QED  BY <1>1, <2>2, <3>3, <3>4 DEF Whole, Exists
  <2> QED  BY <2>1, <2>2
<1>6. msg' \in [Msgs -> Message]
  BY <1>1
<1> QED  BY <1>4, <1>5, <1>6 DEF Rows

LEMMA ChangedRow ==
  ASSUME IInv, NEW m \in Msgs, Exists(m), NEW x \in Message, msg' = [msg EXCEPT ![m] = x],
         x.state # "none", x.conv = msg[m].conv, x.sender = msg[m].sender, x.burn = msg[m].burn,
         x.kind = msg[m].kind, x.reply = msg[m].reply, x.copyOf = msg[m].copyOf,
         msg[m].state = "deleted" => x.state = "deleted" /\ x.body = msg[m].body,
         msg[m].armedBy # None => x.armedBy = msg[m].armedBy,
         x.armedBy # None => x.burn /\ x.armedBy # x.sender,
         x.due => x.armedBy # None
  PROVE  Still /\ Rows' /\ msg' \in [Msgs -> Message]
<1>1. /\ msg \in [Msgs -> Message] /\ msg'[m] = x
      /\ \A n \in Msgs : n # m => msg'[n] = msg[n]
  BY DEF IInv, Types
<1>2. ASSUME NEW n \in Msgs PROVE StillRow(n)
  <2>1. CASE n = m
    BY <1>1, <2>1 DEF StillRow
  <2>2. CASE n # m
    BY <1>1, <2>2 DEF StillRow, Exists
  <2> QED  BY <2>1, <2>2
<1>3. Still
  BY <1>2 DEF Still
<1>4. ASSUME NEW n \in Msgs PROVE Whole(n)'
  <2>1. CASE n # m
    <3>1. msg'[n] = msg[n]
      BY <1>1, <2>1
    <3> QED  BY <1>3, <3>1, RowFacts, WholeStep DEF Whole
  <2>2. CASE n = m
    BY <1>1, <1>3, <2>2, WholeStep
  <2> QED  BY <2>1, <2>2
<1>5. msg' \in [Msgs -> Message]
  BY <1>1
<1> QED  BY <1>3, <1>4, <1>5 DEF Rows

(* A row changed, and the request of p with it.                            *)
LEMMA WriteStep ==
  ASSUME IInv, NEW p \in Handlers, NEW r, req' = [req EXCEPT ![p] = r], Shape(r), Relies(r)',
         Still, Rows', msg' \in [Msgs -> Message], Balance(r, req[p]),
         lost' \subseteq {"armed", "deleted"} \X Msgs,
         UNCHANGED <<mark, swept, sweeper, armTold, goneTold, member, quiet, client, faults>>
  PROVE  IInv'
<1>1. Types'
  BY DEF IInv, Types
<1>2. Marks'
  BY MarksStep
<1> QED  BY <1>1, <1>2, ServeStep

LEMMA LostType == IInv => lost \subseteq {"armed", "deleted"} \X Msgs
  BY DEF IInv, Types

(* The books of a row that is neither deleted nor armed by the step.       *)
LEMMA SameBooks ==
  ASSUME IInv, NEW m \in Msgs, msg'[m].state = "deleted" <=> msg[m].state = "deleted",
         msg'[m].armedBy # None <=> msg[m].armedBy # None,
         UNCHANGED <<swept, armTold, goneTold, lost>>
  PROVE  GoneNet(m)' = GoneNet(m) /\ ArmedNet(m)' = ArmedNet(m)
  BY DEF GoneNet, ArmedNet, One

LEMMA InsertInv ==
  ASSUME IInv, NEW p \in Handlers, InsertMessage(p)
  PROVE  IInv' /\ Still
<1>1. PICK s : s = req[p]
  OBVIOUS
<1>2. s \in Req /\ Shape(s) /\ Relies(s) /\ s.pc = "insert"
  BY <1>1, Held DEF InsertMessage
<1>3. UNCHANGED <<mark, swept, sweeper, armTold, goneTold, lost, member, quiet, client, faults>>
  BY DEF InsertMessage, sweeping, events, env
<1>4. CASE Done(p) /\ UNCHANGED msg
  BY <1>1, <1>2, <1>3, <1>4, DoneQuiet, MsgSame DEF Quietly, sweeping, events, env
<1>5. CASE ~(Done(p) /\ UNCHANGED msg)
  <2>1. PICK x : x = Row("live", IF s.op = "system" THEN "system" ELSE "text",
                         s.conv, s.user, s.op = "burn", s.row, None)
    OBVIOUS
  <2>2. PICK m \in Msgs :
          /\ Fresh(m) /\ (s.row = None \/ MayQuote(s.row, s.conv))
          /\ msg' = [msg EXCEPT ![m] = x]
          /\ req' = [req EXCEPT ![p].pc = "tell", ![p].row = m]
    BY <1>1, <1>5, <2>1 DEF InsertMessage
  <2>3. s.conv \in Convs /\ s.user \in Users /\ s.row \in Msgs \cup {None}
    BY <1>2 DEF Shape, Req
  <2>4. /\ x \in Message /\ x.state = "live" /\ x.conv = s.conv /\ x.sender = s.user
        /\ x.armedBy = None /\ x.due = FALSE /\ x.reply = s.row /\ x.copyOf = None
    BY <2>1, <2>3 DEF Row, Message
  <2>5. ~Exists(m) /\ (s.row # None => Exists(s.row) /\ msg[s.row].conv = s.conv)
    BY <2>2 DEF Fresh, MayQuote
  <2>6. Still /\ Rows' /\ msg' \in [Msgs -> Message]
    BY <2>2, <2>3, <2>4, <2>5, NewRow
  <2>7. PICK pc \in Pc : pc = "tell"
    BY DEF Pc
  <2>8. PICK r : r = [s EXCEPT !.pc = pc, !.row = m]
    OBVIOUS
  <2>9. /\ r \in Req /\ r.op = s.op /\ r.pc = pc /\ r.user = s.user /\ r.conv = s.conv
        /\ r.row = m /\ r.items = s.items /\ r.left = s.left
    BY <1>2, <2>8 DEF Req
  <2>10. req' = [req EXCEPT ![p] = r]
    BY <1>1, <2>2, <2>7, <2>8
  <2>11. Shape(r)
    BY <1>2, <2>7, <2>9 DEF Shape
  <2>12. Relies(r)'
    <3>1. Relies(r)
      BY <1>2, <2>7, <2>9 DEF Relies
    <3> QED  BY <2>6, <2>11, <3>1, ReliesStep
  <2>13. Balance(r, s)
    <3>1. ASSUME NEW n \in Msgs PROVE GoneNet(n)' = GoneNet(n) /\ ArmedNet(n)' = ArmedNet(n)
      <4>1. /\ msg'[n].state = "deleted" <=> msg[n].state = "deleted"
            /\ msg'[n].armedBy # None <=> msg[n].armedBy # None
        <5>1. CASE n = m
          <6>1. msg'[n] = x
            BY <2>2, <5>1 DEF IInv, Types
          <6>2. msg[n].state = "none" /\ msg[n].armedBy = None
            BY <2>5, <5>1, RowFacts, NoRowFields
          <6> QED  BY <2>4, <6>1, <6>2
        <5>2. CASE n # m
          BY <2>2, <5>2 DEF IInv, Types
        <5> QED  BY <5>1, <5>2
      <4> QED  BY <1>3, <4>1, SameBooks
    <3>2. \A n : Adds(r, "delete", n) = 0 /\ Adds(s, "delete", n) = 0
              /\ Adds(r, "read", n) = 0 /\ Adds(s, "read", n) = 0
      BY <1>2, <2>9 DEF Shape, Adds, Tells
    <3> QED  BY <3>1, <3>2 DEF Balance
  <2> QED  BY <1>1, <1>3, <2>6, <2>10, <2>11, <2>12, <2>13, WriteStep, LostType
<1> QED  BY <1>4, <1>5

LEMMA CopyInv ==
  ASSUME IInv, NEW p \in Handlers, NEW k \in Msgs, Copy(p, k)
  PROVE  IInv' /\ Still
<1>1. PICK s : s = req[p]
  OBVIOUS
<1>2. s \in Req /\ Shape(s) /\ Relies(s) /\ s.pc = "copy" /\ k \in s.left
  BY <1>1, Held DEF Copy
<1>3. UNCHANGED <<mark, swept, sweeper, armTold, goneTold, lost, member, quiet, client, faults>>
  BY DEF Copy, sweeping, events, env
<1>4. PICK x : x = Row("live", "text", s.conv, s.user, FALSE, None, k)
  OBVIOUS
<1>5. PICK m \in Msgs :
        /\ Fresh(m) /\ msg' = [msg EXCEPT ![m] = x]
        /\ req' = [req EXCEPT ![p].pc = "tell", ![p].row = m, ![p].left = @ \ {k}]
  BY <1>1, <1>4 DEF Copy
<1>6. s.op = "forward" /\ s.conv \in Convs /\ s.user \in Users /\ s.left \subseteq s.items
  BY <1>2 DEF Shape
<1>7. /\ x \in Message /\ x.state = "live" /\ x.conv = s.conv /\ x.sender = s.user
      /\ x.armedBy = None /\ x.due = FALSE /\ x.reply = None /\ x.copyOf = k
  BY <1>4, <1>6 DEF Row, Message
<1>8. ~Exists(m) /\ Exists(k) /\ ~msg[k].burn
  BY <1>2, <1>5, <1>6 DEF Fresh, Relies
<1>9. Still /\ Rows' /\ msg' \in [Msgs -> Message]
  BY <1>5, <1>6, <1>7, <1>8, NewRow
<1>10. PICK pc \in Pc : pc = "tell"
  BY DEF Pc
<1>11. PICK r : r = [s EXCEPT !.pc = pc, !.row = m, !.left = @ \ {k}]
  OBVIOUS
<1>12. /\ r \in Req /\ r.op = s.op /\ r.pc = pc /\ r.user = s.user /\ r.conv = s.conv
       /\ r.row = m /\ r.items = s.items /\ r.left = s.left \ {k}
  BY <1>2, <1>11 DEF Req
<1>13. req' = [req EXCEPT ![p] = r]
  BY <1>1, <1>5, <1>10, <1>11
<1>14. Shape(r)
  BY <1>2, <1>6, <1>10, <1>12 DEF Shape
<1>15. Relies(r)'
  <2>1. Relies(r)
    BY <1>2, <1>10, <1>12 DEF Relies
  <2> QED  BY <1>9, <1>14, <2>1, ReliesStep
<1>16. Balance(r, s)
  <2>1. ASSUME NEW n \in Msgs PROVE GoneNet(n)' = GoneNet(n) /\ ArmedNet(n)' = ArmedNet(n)
    <3>1. /\ msg'[n].state = "deleted" <=> msg[n].state = "deleted"
          /\ msg'[n].armedBy # None <=> msg[n].armedBy # None
      <4>1. CASE n = m
        <5>1. msg'[n] = x
          BY <1>5, <4>1 DEF IInv, Types
        <5>2. msg[n].state = "none" /\ msg[n].armedBy = None
          BY <1>8, <4>1, RowFacts, NoRowFields
        <5> QED  BY <1>7, <5>1, <5>2
      <4>2. CASE n # m
        BY <1>5, <4>2 DEF IInv, Types
      <4> QED  BY <4>1, <4>2
    <3> QED  BY <1>3, <3>1, SameBooks
  <2>2. \A n : Adds(r, "delete", n) = 0 /\ Adds(s, "delete", n) = 0
            /\ Adds(r, "read", n) = 0 /\ Adds(s, "read", n) = 0
    BY <1>6, <1>12 DEF Adds, Tells
  <2> QED  BY <2>1, <2>2 DEF Balance
<1> QED  BY <1>1, <1>3, <1>9, <1>13, <1>14, <1>15, <1>16, WriteStep, LostType

(* A request that goes on to tell of the row it has changed.               *)
LEMMA ToTell ==
  ASSUME IInv, NEW s \in Req, Shape(s), Relies(s), s.pc \in {"update", "remove", "stamp"}, Still,
         NEW r, r = [s EXCEPT !.pc = "tell"]
  PROVE  /\ Shape(r) /\ Relies(r)' /\ r.op = s.op /\ r.row = s.row
         /\ \A op, n : Adds(r, op, n) = IF op = s.op /\ n = s.row THEN 1 ELSE 0
<1>1. PICK pc \in Pc : pc = "tell"
  BY DEF Pc
<1>2. /\ r \in Req /\ r.op = s.op /\ r.pc = pc /\ r.user = s.user /\ r.conv = s.conv
      /\ r.row = s.row /\ r.items = s.items /\ r.left = s.left
  BY <1>1, GoFields
<1>3. Shape(r)
  BY <1>1, <1>2 DEF Shape
<1>4. Relies(r)
  BY <1>1, <1>2 DEF Relies
<1>5. Relies(r)'
  BY <1>3, <1>4, ReliesStep
<1>6. \A op, n : Adds(r, op, n) = IF op = s.op /\ n = s.row THEN 1 ELSE 0
  BY <1>1, <1>2 DEF Adds, Tells
<1> QED  BY <1>2, <1>3, <1>5, <1>6

LEMMA UpdateInv ==
  ASSUME IInv, NEW p \in Handlers, UpdateMessage(p)
  PROVE  IInv' /\ Still
<1>1. PICK s, m : s = req[p] /\ m = s.row
  OBVIOUS
<1>2. s \in Req /\ Shape(s) /\ Relies(s) /\ s.pc = "update"
  BY <1>1, Held DEF UpdateMessage
<1>3. m \in Msgs /\ s.op = "edit"
  BY <1>1, <1>2 DEF Shape
<1>4. UNCHANGED <<mark, swept, sweeper, armTold, goneTold, lost, member, quiet, client, faults>>
  BY DEF UpdateMessage, sweeping, events, env
<1>5. CASE ~MayEdit(m)
  BY <1>1, <1>2, <1>4, <1>5, DoneQuiet, MsgSame DEF UpdateMessage, Quietly, sweeping, events, env
<1>6. CASE MayEdit(m)
  <2>1. PICK b \in Nat : b = IF msg[m].body < MaxBody THEN msg[m].body + 1 ELSE msg[m].body
    BY <1>3, RowFacts DEF Message
  <2>2. PICK x : x = [msg[m] EXCEPT !.body = b]
    OBVIOUS
  <2>3. /\ x \in Message /\ x.state = msg[m].state /\ x.kind = msg[m].kind /\ x.conv = msg[m].conv
        /\ x.sender = msg[m].sender /\ x.burn = msg[m].burn /\ x.armedBy = msg[m].armedBy
        /\ x.due = msg[m].due /\ x.reply = msg[m].reply /\ x.copyOf = msg[m].copyOf
    BY <1>3, <2>2, RowFacts DEF Message
  <2>4. msg' = [msg EXCEPT ![m] = x] /\ Go(p, "tell")
    BY <1>1, <1>6, <2>1, <2>2 DEF UpdateMessage
  <2>5. msg[m].state = "live" /\ Exists(m)
    BY <1>6 DEF MayEdit, Live, Exists
  <2>6. Still /\ Rows' /\ msg' \in [Msgs -> Message]
    <3>1. /\ msg[m].armedBy # None => msg[m].burn /\ msg[m].armedBy # msg[m].sender
          /\ msg[m].due => msg[m].armedBy # None
      BY <1>3, RowFacts DEF Whole
    <3> QED  BY <1>3, <2>3, <2>4, <2>5, <3>1, ChangedRow
  <2>7. PICK r : r = [s EXCEPT !.pc = "tell"]
    OBVIOUS
  <2>8. req' = [req EXCEPT ![p] = r]
    BY <1>1, <2>4, <2>7 DEF Go
  <2>9. /\ Shape(r) /\ Relies(r)' /\ r.op = s.op
        /\ \A op, n : Adds(r, op, n) = IF op = s.op /\ n = s.row THEN 1 ELSE 0
    BY <1>2, <2>6, <2>7, ToTell
  <2>10. Balance(r, s)
    <3>1. ASSUME NEW n \in Msgs PROVE GoneNet(n)' = GoneNet(n) /\ ArmedNet(n)' = ArmedNet(n)
      <4>1. /\ msg'[n].state = "deleted" <=> msg[n].state = "deleted"
            /\ msg'[n].armedBy # None <=> msg[n].armedBy # None
        BY <2>3, <2>4 DEF IInv, Types
      <4> QED  BY <1>4, <4>1, SameBooks
    <3>2. \A n : Adds(r, "delete", n) = 0 /\ Adds(s, "delete", n) = 0
              /\ Adds(r, "read", n) = 0 /\ Adds(s, "read", n) = 0
      BY <1>2, <1>3, <2>9, NothingToTell
    <3> QED  BY <3>1, <3>2 DEF Balance
  <2> QED  BY <1>1, <1>4, <2>6, <2>8, <2>9, <2>10, WriteStep, LostType
<1> QED  BY <1>5, <1>6

(* The reader's UPDATE is the one that finds no time set.                  *)
LEMMA StampInv ==
  ASSUME IInv, NEW p \in Handlers, StampBurn(p)
  PROVE  IInv' /\ Still
<1>1. PICK s, m, u : s = req[p] /\ m = s.row /\ u = s.user
  OBVIOUS
<1>2. s \in Req /\ Shape(s) /\ Relies(s) /\ s.pc = "stamp"
  BY <1>1, Held DEF StampBurn
<1>3. m \in Msgs /\ s.op = "read" /\ u \in Users /\ u # None
  BY <1>1, <1>2 DEF Shape
<1>4. UNCHANGED <<mark, swept, sweeper, armTold, goneTold, lost, member, quiet, client, faults>>
  BY DEF StampBurn, sweeping, events, env
<1>5. CASE ~MayStamp(m, u)
  BY <1>1, <1>2, <1>4, <1>5, DoneQuiet, MsgSame DEF StampBurn, Quietly, sweeping, events, env
<1>6. CASE MayStamp(m, u)
  <2>1. PICK x : x = [msg[m] EXCEPT !.armedBy = u]
    OBVIOUS
  <2>2. /\ x \in Message /\ x.state = msg[m].state /\ x.kind = msg[m].kind /\ x.conv = msg[m].conv
        /\ x.sender = msg[m].sender /\ x.burn = msg[m].burn /\ x.armedBy = u
        /\ x.due = msg[m].due /\ x.reply = msg[m].reply /\ x.copyOf = msg[m].copyOf
        /\ x.body = msg[m].body
    BY <1>3, <2>1, RowFacts DEF Message
  <2>3. msg' = [msg EXCEPT ![m] = x] /\ Go(p, "tell")
    BY <1>1, <1>6, <2>1 DEF StampBurn
  <2>4. msg[m].state = "live" /\ Exists(m) /\ msg[m].burn /\ msg[m].armedBy = None /\ msg[m].sender # u
    BY <1>6 DEF MayStamp, Armable, Live, Exists
  <2>5. Still /\ Rows' /\ msg' \in [Msgs -> Message]
    BY <1>3, <2>2, <2>3, <2>4, ChangedRow
  <2>6. PICK r : r = [s EXCEPT !.pc = "tell"]
    OBVIOUS
  <2>7. req' = [req EXCEPT ![p] = r]
    BY <1>1, <2>3, <2>6 DEF Go
  <2>8. /\ Shape(r) /\ Relies(r)' /\ r.op = s.op
        /\ \A op, n : Adds(r, op, n) = IF op = s.op /\ n = s.row THEN 1 ELSE 0
    BY <1>2, <2>5, <2>6, ToTell
  <2>9. Balance(r, s)
    <3>1. ASSUME NEW n \in Msgs
          PROVE  /\ GoneNet(n)' = GoneNet(n)
                 /\ ArmedNet(n)' = IF n = m THEN ArmedNet(n) - 1 ELSE ArmedNet(n)
      <4>1. CASE n # m
        <5>1. msg'[n] = msg[n]
          BY <2>3, <4>1 DEF IInv, Types
        <5> QED  BY <1>4, <4>1, <5>1, SameBooks
      <4>2. CASE n = m
        <5>1. msg'[n] = x
          BY <2>3, <4>2 DEF IInv, Types
        <5>2. armTold[n] \in Nat /\ armTold' = armTold /\ lost' = lost
          BY <1>4 DEF IInv, Types
        <5>3. GoneNet(n)' = GoneNet(n)
          BY <1>4, <2>2, <4>2, <5>1 DEF GoneNet
        <5>4. ArmedNet(n)' = ArmedNet(n) - 1
          BY <1>3, <2>2, <2>4, <4>2, <5>1, <5>2 DEF ArmedNet, One
        <5> QED  BY <4>2, <5>3, <5>4
      <4> QED  BY <4>1, <4>2
    <3>2. \A n : Adds(r, "delete", n) = 0 /\ Adds(s, "delete", n) = 0
              /\ Adds(r, "read", n) = (IF n = m THEN 1 ELSE 0) /\ Adds(s, "read", n) = 0
      BY <1>1, <1>2, <1>3, <2>8, NothingToTell
    <3> QED  BY <3>1, <3>2, NetType DEF Balance
  <2> QED  BY <1>1, <1>4, <2>5, <2>7, <2>8, <2>9, WriteStep, LostType
<1> QED  BY <1>5, <1>6

(* The deletion that finds the message live is the one that deletes it; if *)
(* it cannot tell, that is a loss.                                         *)
LEMMA RemoveInv ==
  ASSUME IInv, NEW p \in Handlers, RemoveMessage(p)
  PROVE  IInv' /\ Still
<1>1. PICK s, m : s = req[p] /\ m = s.row
  OBVIOUS
<1>2. s \in Req /\ Shape(s) /\ Relies(s) /\ s.pc = "remove"
  BY <1>1, Held DEF RemoveMessage
<1>3. m \in Msgs /\ s.op = "delete"
  BY <1>1, <1>2 DEF Shape
<1>4. UNCHANGED <<mark, swept, sweeper, armTold, goneTold, member, quiet, client, faults>>
  BY DEF RemoveMessage, sweeping, env
<1>5. CASE ~MayRemove(m)
  BY <1>1, <1>2, <1>4, <1>5, DoneQuiet, MsgSame DEF RemoveMessage, Quietly, sweeping, events, env
<1>6. CASE MayRemove(m)
  <2>1. PICK x : x = [msg[m] EXCEPT !.state = "deleted"]
    OBVIOUS
  <2>2. /\ x \in Message /\ x.state = "deleted" /\ x.kind = msg[m].kind /\ x.conv = msg[m].conv
        /\ x.sender = msg[m].sender /\ x.burn = msg[m].burn /\ x.armedBy = msg[m].armedBy
        /\ x.due = msg[m].due /\ x.reply = msg[m].reply /\ x.copyOf = msg[m].copyOf
        /\ x.body = msg[m].body
    BY <1>3, <2>1, RowFacts DEF Message
  <2>3. /\ msg' = [msg EXCEPT ![m] = x]
        /\ IF s.noted THEN Go(p, "tell") /\ UNCHANGED lost
           ELSE Done(p) /\ lost' = lost \cup {<<"deleted", m>>}
    BY <1>1, <1>6, <2>1 DEF RemoveMessage
  <2>4. msg[m].state = "live" /\ Exists(m)
    BY <1>6 DEF MayRemove, Live, Exists
  <2>5. Still /\ Rows' /\ msg' \in [Msgs -> Message]
    <3>1. /\ msg[m].armedBy # None => msg[m].burn /\ msg[m].armedBy # msg[m].sender
          /\ msg[m].due => msg[m].armedBy # None
      BY <1>3, RowFacts DEF Whole
    <3> QED  BY <1>3, <2>2, <2>3, <2>4, <3>1, ChangedRow
  <2>6. PICK r : r = IF s.noted THEN [s EXCEPT !.pc = "tell"] ELSE NoReq
    OBVIOUS
  <2>7. req' = [req EXCEPT ![p] = r]
    BY <1>1, <2>3, <2>6 DEF Go, Done
  <2>8. Shape(r) /\ Relies(r)'
    BY <1>2, <2>5, <2>6, ToTell, NoReqFits
  <2>9. \A n : Adds(r, "delete", n) = (IF s.noted /\ n = m THEN 1 ELSE 0) /\ Adds(s, "delete", n) = 0
            /\ Adds(r, "read", n) = 0 /\ Adds(s, "read", n) = 0
    <3>1. \A n : Adds(s, "delete", n) = 0 /\ Adds(s, "read", n) = 0
      BY <1>2, NothingToTell
    <3>2. CASE s.noted
      BY <1>1, <1>2, <1>3, <2>5, <2>6, <3>1, <3>2, ToTell
    <3>3. CASE ~s.noted
      BY <2>6, <3>1, <3>3, NoReqFits, NothingToTell
    <3> QED  BY <3>2, <3>3
  <2>10. goneTold[m] + One(m \in swept) + One(<<"deleted", m>> \in lost) = 0
         /\ <<"deleted", m>> \notin lost
    <3>1. PICK t \in Nat : t = Cardinality(TellersOf(req, "delete", m))
      BY TellersFinite
    <3>2. GoneNet(m) + t = 0 /\ goneTold[m] \in Nat
      BY <1>3, <3>1, NetType DEF IInv, Types
    <3> QED  BY <2>4, <3>2 DEF GoneNet, One
  <2>11. Balance(r, s)
    <3>1. ASSUME NEW n \in Msgs
          PROVE  /\ GoneNet(n)' = IF s.noted /\ n = m THEN GoneNet(n) - 1 ELSE GoneNet(n)
                 /\ ArmedNet(n)' = ArmedNet(n)
      <4>1. CASE n # m
        <5>1. msg'[n] = msg[n]
          BY <2>3, <4>1 DEF IInv, Types
        <5>2. <<"deleted", n>> \in lost' <=> <<"deleted", n>> \in lost
          BY <2>3, <4>1
        <5>3. <<"armed", n>> \in lost' <=> <<"armed", n>> \in lost
          BY <2>3
        <5>4. GoneNet(n)' = GoneNet(n)
          BY <1>4, <5>1, <5>2 DEF GoneNet, One
        <5>5. ArmedNet(n)' = ArmedNet(n)
          BY <1>4, <5>1, <5>3 DEF ArmedNet, One
        <5> QED  BY <4>1, <5>4, <5>5
      <4>2. CASE n = m
        <5>1. msg'[n] = x
          BY <2>3, <4>2 DEF IInv, Types
        <5>2. goneTold[n] \in Nat /\ goneTold' = goneTold /\ swept' = swept
          BY <1>4 DEF IInv, Types
        <5>3. <<"armed", n>> \in lost' <=> <<"armed", n>> \in lost
          BY <2>3
        <5>4. ArmedNet(n)' = ArmedNet(n)
          BY <1>4, <2>2, <4>2, <5>1, <5>3 DEF ArmedNet, One
        <5>5. <<"deleted", n>> \in lost' <=> ~s.noted
          BY <2>3, <2>10, <4>2
        <5>6. GoneNet(n) = 0
          BY <2>4, <2>10, <4>2, <5>2 DEF GoneNet, One
        <5>7. GoneNet(n)' = IF s.noted THEN 0 - 1 ELSE 0
          BY <2>2, <2>10, <4>2, <5>1, <5>2, <5>5 DEF GoneNet, One
        <5> QED  BY <4>2, <5>4, <5>6, <5>7
      <4> QED  BY <4>1, <4>2
    <3> QED  BY <2>9, <3>1, NetType DEF Balance
  <2>12. lost' \subseteq {"armed", "deleted"} \X Msgs
    <3>1. lost \subseteq {"armed", "deleted"} \X Msgs
      BY LostType
    <3> QED  BY <1>3, <2>3, <3>1
  <2> QED  BY <1>1, <1>4, <2>5, <2>7, <2>8, <2>11, <2>12, WriteStep
<1> QED  BY <1>5, <1>6

LEMMA LastReadInv ==
  ASSUME IInv, NEW p \in Handlers, UpdateLastRead(p)
  PROVE  IInv'
<1>1. PICK s, c, u : s = req[p] /\ c = s.conv /\ u = s.user
  OBVIOUS
<1>2. s \in Req /\ Shape(s) /\ Relies(s) /\ s.pc = "mark"
  BY <1>1, Held DEF UpdateLastRead
<1>3. c \in Convs /\ u \in Users /\ s.row \in Msgs /\ s.op = "mark" /\ msg[s.row].conv = c
  BY <1>1, <1>2 DEF Shape, Relies
<1>4. /\ mark' = [mark EXCEPT ![c][u] = IF u \in member[c] THEN s.row ELSE @]
      /\ Done(p)
      /\ UNCHANGED <<msg, swept, sweeper, armTold, goneTold, lost, member, quiet, client, faults>>
  BY <1>1 DEF UpdateLastRead, sweeping, events, env
<1>5. mark \in [Convs -> [Users -> Msgs \cup {None}]]
  BY DEF IInv, Types
<1>6. /\ mark' \in [Convs -> [Users -> Msgs \cup {None}]]
      /\ mark'[c][u] = IF u \in member[c] THEN s.row ELSE mark[c][u]
      /\ \A d \in Convs, v \in Users : d # c \/ v # u => mark'[d][v] = mark[d][v]
  BY <1>3, <1>4, <1>5
<1>7. Types'
  BY <1>4, <1>6 DEF IInv, Types
<1>8. Marks'
  <2> SUFFICES ASSUME NEW d \in Convs, NEW v \in Users, mark'[d][v] # None
               PROVE  v \in member[d] /\ msg[mark'[d][v]].conv = d
    BY <1>4 DEF Marks
  <2>1. CASE d = c /\ v = u
    BY <1>3, <1>6, <2>1 DEF IInv, Marks
  <2>2. CASE d # c \/ v # u
    BY <1>6, <2>2 DEF IInv, Marks
  <2> QED  BY <2>1, <2>2
<1>9. Still /\ Rows'
  BY <1>4, MsgSame, RowsSame
<1>10. Balance(NoReq, s)
  <2>1. \A n \in Msgs : GoneNet(n)' = GoneNet(n) /\ ArmedNet(n)' = ArmedNet(n)
    BY <1>4 DEF GoneNet, ArmedNet
  <2>2. \A op, n : Adds(s, op, n) = 0 /\ Adds(NoReq, op, n) = 0
    BY <1>2, NoReqFits, NothingToTell
  <2> QED  BY <2>1, <2>2 DEF Balance
<1> QED  BY <1>1, <1>4, <1>7, <1>8, <1>9, <1>10, NoReqFits, ServeStep DEF Done

(* The event is published, and no longer to be published.                  *)
LEMMA PublishInv ==
  ASSUME IInv, NEW p \in Handlers, PublishMessage(p)
  PROVE  IInv'
<1>1. PICK s, m : s = req[p] /\ m = s.row
  OBVIOUS
<1>2. s \in Req /\ Shape(s) /\ Relies(s) /\ s.pc = "tell"
  BY <1>1, Held DEF PublishMessage
<1>3. m \in Msgs
  BY <1>1, <1>2 DEF Shape
<1>4. /\ armTold' = [armTold EXCEPT ![m] = IF s.op = "read" THEN @ + 1 ELSE @]
      /\ goneTold' = [goneTold EXCEPT ![m] = IF s.op = "delete" THEN @ + 1 ELSE @]
      /\ UNCHANGED <<msg, mark, swept, sweeper, lost, member, quiet, client, faults>>
  BY <1>1 DEF PublishMessage, sweeping, env
<1>5. armTold \in [Msgs -> Nat] /\ goneTold \in [Msgs -> Nat]
  BY DEF IInv, Types
<1>6. Types'
  BY <1>3, <1>4, <1>5 DEF IInv, Types
<1>7. Still /\ Rows' /\ Marks'
  BY <1>4, MsgSame, RowsSame, MarksStep
<1>8. PICK pc \in Pc : pc = AfterPublish(s)
  BY DEF Pc, AfterPublish
<1>9. PICK r : r = IF s.op = "forward" /\ pc # "idle" THEN [s EXCEPT !.pc = pc] ELSE NoReq
  OBVIOUS
<1>10. req' = [req EXCEPT ![p] = r]
  BY <1>1, <1>8, <1>9 DEF PublishMessage, Go, Done
<1>11. Shape(r) /\ Relies(r)' /\ r.pc # "tell"
  <2>1. CASE s.op = "forward" /\ pc # "idle"
    <3>1. /\ r \in Req /\ r.op = s.op /\ r.pc = pc /\ r.user = s.user /\ r.conv = s.conv
          /\ r.row = s.row /\ r.items = s.items /\ r.left = s.left
      BY <1>2, <1>9, <2>1, GoFields
    <3>2. pc \in {"copy", "target"}
      BY <1>8, <2>1 DEF AfterPublish
    <3>3. Shape(r)
      BY <1>2, <2>1, <3>1, <3>2 DEF Shape
    <3>4. Relies(r)
      BY <1>2, <3>1, <3>2 DEF Relies
    <3> QED  BY <1>7, <3>1, <3>2, <3>3, <3>4, ReliesStep
  <2>2. CASE ~(s.op = "forward" /\ pc # "idle")
    BY <1>9, <2>2, NoReqFits
  <2> QED  BY <2>1, <2>2
<1>12. \A op, n : Adds(r, op, n) = 0 /\ Adds(s, op, n) = IF op = s.op /\ n = m THEN 1 ELSE 0
  BY <1>1, <1>2, <1>11 DEF Adds, Tells
<1>13. Balance(r, s)
  <2>1. ASSUME NEW n \in Msgs
        PROVE  /\ GoneNet(n)' = GoneNet(n) + (IF s.op = "delete" /\ n = m THEN 1 ELSE 0)
               /\ ArmedNet(n)' = ArmedNet(n) + (IF s.op = "read" /\ n = m THEN 1 ELSE 0)
    <3>1. /\ goneTold'[n] = goneTold[n] + (IF s.op = "delete" /\ n = m THEN 1 ELSE 0)
          /\ armTold'[n] = armTold[n] + (IF s.op = "read" /\ n = m THEN 1 ELSE 0)
          /\ goneTold[n] \in Nat /\ armTold[n] \in Nat
      BY <1>3, <1>4, <1>5
    <3>2. GoneNet(n)' = GoneNet(n) + (IF s.op = "delete" /\ n = m THEN 1 ELSE 0)
      BY <1>4, <3>1 DEF GoneNet, One
    <3>3. ArmedNet(n)' = ArmedNet(n) + (IF s.op = "read" /\ n = m THEN 1 ELSE 0)
      BY <1>4, <3>1 DEF ArmedNet, One
    <3> QED  BY <3>2, <3>3
  <2>2. ASSUME NEW n \in Msgs
        PROVE  /\ Adds(r, "delete", n) = 0 /\ Adds(r, "read", n) = 0
               /\ Adds(s, "delete", n) = (IF s.op = "delete" /\ n = m THEN 1 ELSE 0)
               /\ Adds(s, "read", n) = (IF s.op = "read" /\ n = m THEN 1 ELSE 0)
    BY <1>12
  <2>3. ASSUME NEW n \in Msgs
        PROVE  /\ GoneNet(n)' + Adds(r, "delete", n) = GoneNet(n) + Adds(s, "delete", n)
               /\ ArmedNet(n)' + Adds(r, "read", n) = ArmedNet(n) + Adds(s, "read", n)
    BY <2>1, <2>2, NetType
  <2> QED  BY <2>3 DEF Balance
<1> QED  BY <1>1, <1>6, <1>7, <1>10, <1>11, <1>13, ServeStep

LEMMA ServeInv ==
  ASSUME IInv, NEW p \in Handlers, Serve(p)
  PROVE  IInv'
<1>1. CASE CheckMuted(p) \/ InsertMessage(p) \/ PublishMessage(p)
  BY <1>1, CheckMutedInv, InsertInv, PublishInv
<1>2. CASE \E m \in Msgs : CheckItem(p, m) \/ Copy(p, m)
  BY <1>2, CheckItemInv, CopyInv
<1>3. CASE \E c \in Convs : CheckTarget(p, c)
  BY <1>3, CheckTargetInv
<1>4. CASE NoteMessage(p) \/ CheckOwner(p) \/ UpdateMessage(p) \/ RemoveMessage(p)
  BY <1>4, NoteInv, CheckOwnerInv, UpdateInv, RemoveInv
<1>5. CASE LookToArm(p) \/ StampBurn(p) \/ UpdateLastRead(p)
  BY <1>5, LookToArmInv, StampInv, LastReadInv
<1> QED  BY <1>1, <1>2, <1>3, <1>4, <1>5 DEF Serve

----------------------------------------------------------------------------
(* Steps of the sweeper, of time, and of the members: no request moves.    *)
SameNet(m) == GoneNet(m)' = GoneNet(m) /\ ArmedNet(m)' = ArmedNet(m)

SameNets == \A m \in Msgs : SameNet(m)

LEMMA GoneOther ==
  ASSUME IInv, UNCHANGED req, NEW m \in Msgs, goneTold'[m] \in Nat, GoneNet(m)' = GoneNet(m)
  PROVE  Gone(m)'
<1>1. PICK t \in Nat : t = Cardinality(TellersOf(req, "delete", m))
  BY TellersFinite
<1>2. GoneNet(m)' + t = 0
  BY <1>1, NetType
<1>3. Tellers("delete", m)' = TellersOf(req, "delete", m)
  BY TellersAre
<1>4. goneTold'[m] + One(m \in swept') + One(<<"deleted", m>> \in lost') + t
        = One(msg'[m].state = "deleted")
  BY <1>2 DEF GoneNet, One
<1> QED  BY <1>1, <1>3, <1>4 DEF Gone, One

LEMMA ArmedOther ==
  ASSUME IInv, UNCHANGED req, NEW m \in Msgs, armTold'[m] \in Nat, ArmedNet(m)' = ArmedNet(m)
  PROVE  Armed(m)'
<1>1. PICK t \in Nat : t = Cardinality(TellersOf(req, "read", m))
  BY TellersFinite
<1>2. ArmedNet(m)' + t = 0
  BY <1>1, NetType
<1>3. Tellers("read", m)' = TellersOf(req, "read", m)
  BY TellersAre
<1> QED  BY <1>1, <1>2, <1>3 DEF Armed, ArmedNet, One

LEMMA OtherStep ==
  ASSUME IInv, Still, UNCHANGED req, Types', Rows', Marks', SameNets
  PROVE  IInv'
<1>1. Requests'
  BY RequestsSame
<1>2. ASSUME NEW m \in Msgs PROVE Gone(m)' /\ Armed(m)'
  <2>1. goneTold'[m] \in Nat /\ armTold'[m] \in Nat
    BY DEF Types
  <2>2. GoneNet(m)' = GoneNet(m) /\ ArmedNet(m)' = ArmedNet(m)
    BY DEF SameNets, SameNet
  <2> QED  BY <2>1, <2>2, GoneOther, ArmedOther
<1> QED  BY <1>1, <1>2 DEF IInv, Told

LEMMA SweepInv ==
  ASSUME IInv, SweepBurned
  PROVE  IInv' /\ Still
<1>1. /\ swept = {} /\ swept' = {m \in Msgs : Burned(m)}
      /\ msg' = [m \in Msgs |-> IF Burned(m) THEN [msg[m] EXCEPT !.state = "deleted"] ELSE msg[m]]
      /\ UNCHANGED <<mark, req, sweeper, armTold, goneTold, lost, member, quiet, client, faults>>
  BY DEF SweepBurned, events, env
<1>2. ASSUME NEW m \in Msgs, Burned(m)
      PROVE  /\ msg[m].state = "live" /\ msg'[m].state = "deleted" /\ msg'[m] \in Message
             /\ msg'[m].kind = msg[m].kind /\ msg'[m].conv = msg[m].conv
             /\ msg'[m].sender = msg[m].sender /\ msg'[m].burn = msg[m].burn
             /\ msg'[m].armedBy = msg[m].armedBy /\ msg'[m].due = msg[m].due
             /\ msg'[m].reply = msg[m].reply /\ msg'[m].copyOf = msg[m].copyOf
             /\ msg'[m].body = msg[m].body
  <2>1. PICK x : x = msg[m] /\ x \in Message
    BY RowFacts
  <2>2. msg'[m] = [x EXCEPT !.state = "deleted"]
    BY <1>1, <1>2, <2>1
  <2>3. x.state = "live"
    BY <1>2, <2>1 DEF Burned, Live
  <2> QED  BY <2>1, <2>2, <2>3 DEF Message
<1>3. \A m \in Msgs : ~Burned(m) => msg'[m] = msg[m]
  BY <1>1
<1>4. ASSUME NEW m \in Msgs PROVE StillRow(m)
  BY <1>2, <1>3 DEF StillRow, Exists
<1>5. Still
  BY <1>4 DEF Still
<1>6. ASSUME NEW m \in Msgs PROVE Whole(m)'
  <2>1. CASE Burned(m)
    BY <1>2, <1>5, <2>1, RowFacts, WholeStep DEF Whole, Exists
  <2>2. CASE ~Burned(m)
    <3>1. msg'[m] = msg[m]
      BY <1>3, <2>2
    <3> QED  BY <1>5, <3>1, RowFacts, WholeStep DEF Whole
  <2> QED  BY <2>1, <2>2
<1>7. Types'
  <2>1. msg' \in [Msgs -> Message]
    BY <1>1, <1>2, <1>3, RowFacts
  <2>2. swept' \subseteq Msgs
    BY <1>1
  <2> QED  BY <1>1, <2>1, <2>2 DEF IInv, Types
<1>8. Marks'
  BY <1>1, <1>5, MarksStep
<1>9. ASSUME NEW m \in Msgs PROVE SameNet(m)
  <2>1. goneTold[m] \in Nat
    BY DEF IInv, Types
  <2>2. m \in swept' <=> Burned(m)
    BY <1>1
  <2>3. m \notin swept
    BY <1>1
  <2>4. msg'[m].armedBy = msg[m].armedBy
    BY <1>2, <1>3
  <2>5. msg'[m].state = "deleted" <=> (Burned(m) \/ msg[m].state = "deleted")
    BY <1>2, <1>3
  <2>6. Burned(m) => msg[m].state # "deleted"
    BY <1>2
  <2>7. GoneNet(m)' = GoneNet(m)
    BY <1>1, <2>1, <2>2, <2>3, <2>5, <2>6 DEF GoneNet, One
  <2>8. ArmedNet(m)' = ArmedNet(m)
    BY <1>1, <2>4 DEF ArmedNet
  <2> QED  BY <2>7, <2>8 DEF SameNet
<1>10. Rows' /\ SameNets
  BY <1>6, <1>9 DEF Rows, SameNets
<1> QED  BY <1>1, <1>5, <1>7, <1>8, <1>10, OtherStep

LEMMA TellSweptInv ==
  ASSUME IInv, NEW k \in Msgs, TellSwept(k)
  PROVE  IInv'
<1>1. /\ k \in swept /\ swept' = swept \ {k} /\ goneTold' = [goneTold EXCEPT ![k] = @ + 1]
      /\ UNCHANGED <<msg, mark, req, sweeper, armTold, lost, member, quiet, client, faults>>
  BY DEF TellSwept, env
<1>2. goneTold \in [Msgs -> Nat]
  BY DEF IInv, Types
<1>3. Types'
  <2>1. goneTold' \in [Msgs -> Nat]
    BY <1>1, <1>2
  <2>2. swept' \subseteq Msgs
    BY <1>1 DEF IInv, Types
  <2> QED  BY <1>1, <2>1, <2>2 DEF IInv, Types
<1>4. Still /\ Rows' /\ Marks'
  BY <1>1, MsgSame, RowsSame, MarksStep
<1>5. ASSUME NEW m \in Msgs PROVE SameNet(m)
  <2>1. goneTold'[m] = (IF m = k THEN goneTold[m] + 1 ELSE goneTold[m]) /\ goneTold[m] \in Nat
    BY <1>1, <1>2
  <2>2. m \in swept' <=> m \in swept /\ m # k
    BY <1>1
  <2>3. GoneNet(m)' = GoneNet(m)
    BY <1>1, <2>1, <2>2 DEF GoneNet, One
  <2>4. ArmedNet(m)' = ArmedNet(m)
    BY <1>1 DEF ArmedNet
  <2> QED  BY <2>3, <2>4 DEF SameNet
<1>6. SameNets
  BY <1>5 DEF SameNets
<1> QED  BY <1>1, <1>3, <1>4, <1>6, OtherStep

LEMMA TickInv ==
  ASSUME IInv, NEW k \in Msgs, Tick(k)
  PROVE  IInv' /\ Still
<1>1. /\ msg[k].armedBy # None /\ msg' = [msg EXCEPT ![k].due = TRUE]
      /\ UNCHANGED <<mark, req, swept, sweeper, armTold, goneTold, lost, member, quiet, client, faults>>
  BY DEF Tick, sweeping, events, env
<1>2. PICK y, x : y = msg[k] /\ x = [y EXCEPT !.due = TRUE]
  OBVIOUS
<1>12. y \in Message
  BY <1>2, RowFacts
<1>13. /\ x \in Message /\ x.state = y.state /\ x.kind = y.kind /\ x.conv = y.conv
       /\ x.sender = y.sender /\ x.burn = y.burn /\ x.armedBy = y.armedBy
       /\ x.due = TRUE /\ x.reply = y.reply /\ x.copyOf = y.copyOf /\ x.body = y.body
  BY <1>2, <1>12 DEF Message
<1>3. /\ x \in Message /\ x.state = msg[k].state /\ x.kind = msg[k].kind /\ x.conv = msg[k].conv
      /\ x.sender = msg[k].sender /\ x.burn = msg[k].burn /\ x.armedBy = msg[k].armedBy
      /\ x.due = TRUE /\ x.reply = msg[k].reply /\ x.copyOf = msg[k].copyOf
      /\ x.body = msg[k].body
  BY <1>2, <1>13
<1>4. msg' = [msg EXCEPT ![k] = x]
  BY <1>1, <1>2
<1>5. Exists(k)
  BY <1>1, RowFacts, NoRowFields
<1>6. msg[k].burn /\ msg[k].armedBy # msg[k].sender
  BY <1>1, RowFacts DEF Whole
<1>7. Still /\ Rows' /\ msg' \in [Msgs -> Message]
  <2>1. /\ x.state # "none"
        /\ msg[k].state = "deleted" => x.state = "deleted" /\ x.body = msg[k].body
        /\ msg[k].armedBy # None => x.armedBy = msg[k].armedBy
        /\ x.armedBy # None => x.burn /\ x.armedBy # x.sender
        /\ x.due => x.armedBy # None
    BY <1>1, <1>3, <1>5, <1>6 DEF Exists
  <2> QED  BY <1>3, <1>4, <1>5, <2>1, ChangedRow
<1>8. Types'
  BY <1>1, <1>7 DEF IInv, Types
<1>9. Marks'
  BY <1>1, <1>7, MarksStep
<1>10. ASSUME NEW m \in Msgs PROVE SameNet(m)
  <2>1. /\ msg'[m].state = "deleted" <=> msg[m].state = "deleted"
        /\ msg'[m].armedBy # None <=> msg[m].armedBy # None
    BY <1>3, <1>4 DEF IInv, Types
  <2> QED  BY <1>1, <2>1, SameBooks DEF SameNet
<1>11. SameNets
  BY <1>10 DEF SameNets
<1> QED  BY <1>1, <1>7, <1>8, <1>9, <1>11, OtherStep

(* Who leaves takes the mark along.                                        *)
LEMMA MoveInv ==
  ASSUME IInv, NEW c \in Convs, NEW u \in Users, Move(c, u) \/ Mute(c, u)
  PROVE  IInv'
<1>1. UNCHANGED <<msg, req, swept, sweeper, armTold, goneTold, lost, client, faults>>
  BY DEF Move, Mute, sweeping, events
<1>2. Still /\ Rows'
  BY <1>1, MsgSame, RowsSame
<1>3. Types'
  <2>1. /\ mark \in [Convs -> [Users -> Msgs \cup {None}]] /\ member \in [Convs -> SUBSET Users]
        /\ quiet \in [Convs -> SUBSET Users]
    BY DEF IInv, Types
  <2>2. member' \in [Convs -> SUBSET Users]
    BY <2>1 DEF Move, Mute
  <2>3. quiet' \in [Convs -> SUBSET Users]
    <3>1. PICK S \in SUBSET Users : quiet' = [quiet EXCEPT ![c] = S]
      <4>1. CASE Move(c, u)
        BY <2>1, <4>1 DEF Move
      <4>2. CASE Mute(c, u)
        BY <2>1, <4>2 DEF Mute
      <4> QED  BY <4>1, <4>2
    <3> QED  BY <2>1, <3>1
  <2>4. mark' \in [Convs -> [Users -> Msgs \cup {None}]]
    <3>1. CASE Move(c, u)
      <4>1. PICK f \in [Users -> Msgs \cup {None}] : f = [mark[c] EXCEPT ![u] = None]
        BY <2>1
      <4>2. mark' = [mark EXCEPT ![c] = f]
        BY <3>1, <4>1 DEF Move
      <4> QED  BY <2>1, <4>2
    <3>2. CASE Mute(c, u)
      BY <2>1, <3>2 DEF Mute
    <3> QED  BY <3>1, <3>2
  <2> QED  BY <1>1, <2>2, <2>3, <2>4 DEF IInv, Types
<1>4. Marks'
  <2>1. CASE Mute(c, u)
    BY <1>2, <2>1, MarksStep DEF Mute
  <2>2. CASE Move(c, u)
    <3>1. /\ member' = [member EXCEPT ![c] = IF u \in @ THEN @ \ {u} ELSE @ \cup {u}]
          /\ mark' = [mark EXCEPT ![c][u] = None]
      BY <2>2 DEF Move
    <3>2. mark \in [Convs -> [Users -> Msgs \cup {None}]] /\ member \in [Convs -> SUBSET Users]
      BY DEF IInv, Types
    <3>3. /\ mark'[c][u] = None
          /\ \A d \in Convs, v \in Users :
               d # c \/ v # u => mark'[d][v] = mark[d][v] /\ (v \in member[d] => v \in member'[d])
      BY <3>1, <3>2
    <3>4. ASSUME NEW d \in Convs, NEW v \in Users, mark'[d][v] # None
          PROVE  v \in member'[d] /\ msg[mark'[d][v]].conv = d
      BY <3>3, <3>4 DEF IInv, Marks
    <3> QED  BY <1>1, <3>4 DEF Marks
  <2> QED  BY <2>1, <2>2
<1>5. SameNets
  BY <1>1 DEF SameNets, SameNet, GoneNet, ArmedNet
<1> QED  BY <1>1, <1>2, <1>3, <1>4, <1>5, OtherStep

LEMMA SweepFailsInv ==
  ASSUME IInv, SweepFails
  PROVE  IInv'
<1>1. /\ UNCHANGED <<msg, mark, req, swept, armTold, goneTold, lost, member, quiet, client>>
      /\ sweeper' = "on" /\ faults' \in Nat
  BY FaultsType DEF SweepFails, AfterError, events
<1>2. Still /\ Rows' /\ Marks'
  BY <1>1, MsgSame, RowsSame, MarksStep
<1>3. Types'
  BY <1>1 DEF IInv, Types
<1>4. SameNets
  BY <1>1 DEF SameNets, SameNet, GoneNet, ArmedNet
<1> QED  BY <1>1, <1>2, <1>3, <1>4, OtherStep

----------------------------------------------------------------------------
(* Failures.  What a request was about to tell nobody else has told.       *)
LEMMA UntoldIs ==
  ASSUME NEW p \in Handlers, Shape(req[p])
  PROVE  /\ Untold(p) \subseteq {"armed", "deleted"} \X Msgs
         /\ \A m : /\ <<"deleted", m>> \in Untold(p) <=> Tells(req[p], "delete", m)
                   /\ <<"armed", m>> \in Untold(p) <=> Tells(req[p], "read", m)
<1>1. req[p].pc = "tell" => req[p].row \in Msgs
  BY DEF Shape
<1>2. CASE req[p].pc # "tell"
  <2>1. Untold(p) = {}
    BY <1>2 DEF Untold
  <2> QED  BY <1>2, <2>1 DEF Tells
<1>3. CASE req[p].pc = "tell" /\ req[p].op = "read"
  <2>1. Untold(p) = {<<"armed", req[p].row>>}
    BY <1>3 DEF Untold
  <2> QED  BY <1>1, <1>3, <2>1 DEF Tells
<1>4. CASE req[p].pc = "tell" /\ req[p].op = "delete"
  <2>1. Untold(p) = {<<"deleted", req[p].row>>}
    BY <1>4 DEF Untold
  <2> QED  BY <1>1, <1>4, <2>1 DEF Tells
<1>5. CASE req[p].pc = "tell" /\ req[p].op \notin {"read", "delete"}
  <2>1. Untold(p) = {}
    BY <1>5 DEF Untold
  <2> QED  BY <1>5, <2>1 DEF Tells
<1> QED  BY <1>2, <1>3, <1>4, <1>5

(* How many tell, and what the other books say then.                       *)
LEMMA TellersAny ==
  ASSUME IInv, NEW op, NEW m
  PROVE  Cardinality(TellersOf(req, op, m)) = 0 <=> ~\E q \in Handlers : Tells(req[q], op, m)
<1>1. PICK A : A = TellersOf(req, op, m)
  OBVIOUS
<1>2. IsFiniteSet(A)
  BY <1>1, TellersFinite
<1>3. Cardinality(A) = 0 <=> A = {}
  BY <1>2, FS_EmptySet
<1>4. A = {} <=> ~\E q \in Handlers : Tells(req[q], op, m)
  BY <1>1 DEF TellersOf
<1> QED  BY <1>1, <1>3, <1>4

Teller(op, m) == \E q \in Handlers : Tells(req[q], op, m)

LEMMA GoneOnce ==
  ASSUME IInv, NEW m \in Msgs
  PROVE  /\ Teller("delete", m) => <<"deleted", m>> \notin lost /\ m \notin swept
         /\ m \in swept => <<"deleted", m>> \notin lost
         /\ goneTold[m] + One(<<"deleted", m>> \in lost \/ m \in swept \/ Teller("delete", m))
              = One(msg[m].state = "deleted")
<1>1. PICK t \in Nat : t = Cardinality(TellersOf(req, "delete", m))
  BY TellersFinite
<1>2. t = 0 <=> ~Teller("delete", m)
  BY <1>1, TellersAny DEF Teller
<1>3. GoneNet(m) + t = 0 /\ goneTold[m] \in Nat
  BY <1>1, NetType DEF IInv, Types
<1>4. t \in {0, 1} /\ (t = 1 => <<"deleted", m>> \notin lost /\ m \notin swept)
  BY <1>3 DEF GoneNet, One
<1>5. m \in swept => <<"deleted", m>> \notin lost
  BY <1>3 DEF GoneNet, One
<1>6. goneTold[m] + One(<<"deleted", m>> \in lost \/ m \in swept \/ t = 1) = One(msg[m].state = "deleted")
  BY <1>3, <1>4, <1>5 DEF GoneNet, One
<1> QED  BY <1>2, <1>4, <1>5, <1>6

LEMMA ArmedOnce ==
  ASSUME IInv, NEW m \in Msgs
  PROVE  /\ Teller("read", m) => <<"armed", m>> \notin lost
         /\ armTold[m] + One(<<"armed", m>> \in lost \/ Teller("read", m)) = One(msg[m].armedBy # None)
<1>1. PICK t \in Nat : t = Cardinality(TellersOf(req, "read", m))
  BY TellersFinite
<1>2. t = 0 <=> ~Teller("read", m)
  BY <1>1, TellersAny DEF Teller
<1>3. ArmedNet(m) + t = 0 /\ armTold[m] \in Nat
  BY <1>1, NetType DEF IInv, Types
<1>4. t \in {0, 1} /\ (t = 1 => <<"armed", m>> \notin lost)
  BY <1>3 DEF ArmedNet, One
<1>5. armTold[m] + One(<<"armed", m>> \in lost \/ t = 1) = One(msg[m].armedBy # None)
  BY <1>3, <1>4 DEF ArmedNet, One
<1> QED  BY <1>2, <1>4, <1>5

LEMMA FaultInv ==
  ASSUME IInv, NEW p \in Handlers, Fault(p)
  PROVE  IInv'
<1>1. PICK s : s = req[p]
  OBVIOUS
<1>2. s \in Req /\ Shape(s)
  BY <1>1, Held
<1>3. /\ lost' = lost \cup Untold(p) /\ Done(p) /\ faults' \in Nat
      /\ UNCHANGED <<msg, mark, swept, sweeper, armTold, goneTold, member, quiet, client>>
  BY FaultsType DEF Fault, sweeping
<1>4. Types'
  BY <1>1, <1>2, <1>3, UntoldIs DEF IInv, Types
<1>5. Still /\ Rows' /\ Marks'
  BY <1>3, MsgSame, RowsSame, MarksStep
<1>6. ASSUME NEW m \in Msgs
      PROVE  /\ GoneNet(m)' + Adds(NoReq, "delete", m) = GoneNet(m) + Adds(s, "delete", m)
             /\ ArmedNet(m)' + Adds(NoReq, "read", m) = ArmedNet(m) + Adds(s, "read", m)
  <2>1. Adds(NoReq, "delete", m) = 0 /\ Adds(NoReq, "read", m) = 0
    BY NoReqFits DEF Adds
  <2>2. /\ <<"deleted", m>> \in lost' <=> <<"deleted", m>> \in lost \/ Tells(s, "delete", m)
        /\ <<"armed", m>> \in lost' <=> <<"armed", m>> \in lost \/ Tells(s, "read", m)
    BY <1>1, <1>2, <1>3, UntoldIs
  <2>3. /\ Tells(s, "delete", m) => <<"deleted", m>> \notin lost
        /\ Tells(s, "read", m) => <<"armed", m>> \notin lost
    BY <1>1, GoneOnce, ArmedOnce DEF Teller
  <2>4. goneTold[m] \in Nat /\ armTold[m] \in Nat
    BY DEF IInv, Types
  <2>5. GoneNet(m)' = GoneNet(m) + Adds(s, "delete", m)
    BY <1>3, <2>2, <2>3, <2>4 DEF GoneNet, One, Adds
  <2>6. ArmedNet(m)' = ArmedNet(m) + Adds(s, "read", m)
    BY <1>3, <2>2, <2>3, <2>4 DEF ArmedNet, One, Adds
  <2>7. GoneNet(m)' \in Int /\ ArmedNet(m)' \in Int
    BY <1>3, <2>4 DEF GoneNet, ArmedNet, One
  <2> QED  BY <2>1, <2>5, <2>6, <2>7
<1>7. Balance(NoReq, s)
  BY <1>6 DEF Balance
<1> QED  BY <1>1, <1>3, <1>4, <1>5, <1>7, NoReqFits, ServeStep DEF Done

(* The service forgets every request and the sweeper's list.               *)
LEMMA RestartInv ==
  ASSUME IInv, Restart
  PROVE  IInv'
<1>1. /\ lost' = lost \cup (UNION {Untold(p) : p \in Handlers}) \cup ({"deleted"} \X swept)
      /\ req' = [p \in Handlers |-> NoReq] /\ swept' = {} /\ sweeper' = "on" /\ faults' \in Nat
      /\ UNCHANGED <<msg, mark, armTold, goneTold, member, quiet, client>>
  BY FaultsType DEF Restart
<1>2. \A p \in Handlers : Shape(req[p])
  BY Held
<1>3. PICK U : U = UNION {Untold(p) : p \in Handlers}
  OBVIOUS
<1>4. /\ U \subseteq {"armed", "deleted"} \X Msgs
      /\ \A m : <<"deleted", m>> \in U <=> Teller("delete", m)
      /\ \A m : <<"armed", m>> \in U <=> Teller("read", m)
  <2>1. \A p \in Handlers : Untold(p) \subseteq {"armed", "deleted"} \X Msgs
    BY <1>2, UntoldIs
  <2>2. \A e : e \in U <=> \E p \in Handlers : e \in Untold(p)
    BY <1>3
  <2>3. U \subseteq {"armed", "deleted"} \X Msgs
    BY <2>1, <2>2
  <2>4. \A p \in Handlers : \A m : <<"deleted", m>> \in Untold(p) <=> Tells(req[p], "delete", m)
    BY <1>2, UntoldIs
  <2>5. \A p \in Handlers : \A m : <<"armed", m>> \in Untold(p) <=> Tells(req[p], "read", m)
    BY <1>2, UntoldIs
  <2>6. ASSUME NEW m PROVE <<"deleted", m>> \in U <=> Teller("delete", m)
    BY <2>2, <2>4 DEF Teller
  <2>7. ASSUME NEW m PROVE <<"armed", m>> \in U <=> Teller("read", m)
    BY <2>2, <2>5 DEF Teller
  <2> QED  BY <2>3, <2>6, <2>7
<1>9. lost' = (lost \cup U) \cup ({"deleted"} \X swept)
  BY <1>1, <1>3
<1>5. Types'
  <2>1. lost \subseteq {"armed", "deleted"} \X Msgs /\ swept \subseteq Msgs
    BY DEF IInv, Types
  <2>2. {"deleted"} \X swept \subseteq {"armed", "deleted"} \X Msgs
    BY <2>1
  <2>3. lost' \subseteq {"armed", "deleted"} \X Msgs
    BY <1>9, <1>4, <2>1, <2>2
  <2> QED  BY <1>1, <2>3 DEF IInv, Types
<1>6. Still /\ Rows' /\ Marks'
  BY <1>1, MsgSame, RowsSame, MarksStep
<1>7. Requests'
  <2>1. PICK r : r = NoReq
    OBVIOUS
  <2>2. r \in Req /\ Shape(r) /\ Relies(r)'
    BY <2>1, NoReqFits DEF Shape
  <2>3. req' = [p \in Handlers |-> r]
    BY <1>1, <2>1
  <2>4. ASSUME NEW p \in Handlers PROVE Shape(req[p])' /\ Relies(req[p])'
    <3>1. req'[p] = r
      BY <2>3
    <3>2. Shape(req[p])'
      BY <2>2, <3>1 DEF Shape
    <3>3. Relies(req[p])'
      BY <2>2, <3>1 DEF Relies
    <3> QED  BY <3>2, <3>3
  <2> QED  BY <2>2, <2>3, <2>4 DEF Requests
<1>8. ASSUME NEW m \in Msgs PROVE Gone(m)' /\ Armed(m)'
  <2>1. \A op : Cardinality(Tellers(op, m)') = 0
    <3>1. \A op : Tellers(op, m)' = {}
      BY <1>1, NoReqFits DEF Tellers
    <3> QED  BY <3>1, FS_EmptySet
  <2>2. <<"deleted", m>> \in lost' <=>
          <<"deleted", m>> \in lost \/ m \in swept \/ Teller("delete", m)
    BY <1>4, <1>9
  <2>3. <<"armed", m>> \in lost' <=> <<"armed", m>> \in lost \/ Teller("read", m)
    BY <1>4, <1>9
  <2>4. goneTold'[m] \in Nat /\ armTold'[m] \in Nat
    BY <1>5 DEF Types
  <2>5. goneTold'[m] + One(<<"deleted", m>> \in lost') = One(msg'[m].state = "deleted")
    <3>1. One(<<"deleted", m>> \in lost') = One(<<"deleted", m>> \in lost \/ m \in swept \/ Teller("delete", m))
      BY <2>2 DEF One
    <3> QED  BY <1>1, <3>1, GoneOnce
  <2>6. armTold'[m] + One(<<"armed", m>> \in lost') = One(msg'[m].armedBy # None)
    <3>1. One(<<"armed", m>> \in lost') = One(<<"armed", m>> \in lost \/ Teller("read", m))
      BY <2>3 DEF One
    <3> QED  BY <1>1, <3>1, ArmedOnce
  <2>7. Gone(m)'
    BY <1>1, <2>1, <2>4, <2>5 DEF Gone, One
  <2>8. Armed(m)'
    BY <1>1, <2>1, <2>4, <2>6 DEF Armed, One
  <2> QED  BY <2>7, <2>8
<1> QED  BY <1>5, <1>6, <1>7, <1>8 DEF IInv, Told

----------------------------------------------------------------------------
(* Every step of the system: the invariant is kept, and rows stand.        *)
LEMMA ServeStill ==
  ASSUME IInv, NEW p \in Handlers, Serve(p)
  PROVE  Still
<1>1. CASE CheckMuted(p) \/ PublishMessage(p) \/ NoteMessage(p) \/ CheckOwner(p) \/ LookToArm(p)
             \/ UpdateLastRead(p)
  <2>1. UNCHANGED msg
    BY <1>1 DEF CheckMuted, PublishMessage, NoteMessage, CheckOwner, LookToArm, UpdateLastRead, Quietly
  <2> QED  BY <2>1, MsgSame
<1>2. CASE InsertMessage(p) \/ UpdateMessage(p) \/ RemoveMessage(p) \/ StampBurn(p)
  BY <1>2, InsertInv, UpdateInv, RemoveInv, StampInv
<1>3. ASSUME NEW m \in Msgs, CheckItem(p, m) \/ Copy(p, m) PROVE Still
  <2>1. CASE CheckItem(p, m)
    <3>1. UNCHANGED msg
      BY <2>1 DEF CheckItem, Quietly
    <3> QED  BY <3>1, MsgSame
  <2>2. CASE Copy(p, m)
    BY <2>2, CopyInv
  <2> QED  BY <1>3, <2>1, <2>2
<1>4. ASSUME NEW c \in Convs, CheckTarget(p, c) PROVE Still
  <2>1. UNCHANGED msg
    BY <1>4 DEF CheckTarget, Quietly
  <2> QED  BY <2>1, MsgSame
<1> QED  BY <1>1, <1>2, <1>3, <1>4 DEF Serve

LEMMA ArriveStill ==
  ASSUME NEW p, Arrive(p)
  PROVE  Still
<1>1. Quietly
  BY DEF Arrive, Send, System, Forward, BurnRead, MarkRead, Edit, Delete
<1>2. UNCHANGED msg
  BY <1>1 DEF Quietly
<1> QED  BY <1>2, MsgSame

LEMMA NextInv ==
  ASSUME IInv, Next
  PROVE  IInv' /\ Still
<1>1. ASSUME NEW p \in client.by, Arrive(p) PROVE IInv' /\ Still
  <2>1. p \in Handlers
    BY ClientTypes
  <2> QED  BY <1>1, <2>1, ArriveInv, ArriveStill
<1>2. ASSUME NEW p \in Handlers, Serve(p) PROVE IInv' /\ Still
  BY <1>2, ServeInv, ServeStill
<1>3. ASSUME NEW p \in Handlers, Fault(p) PROVE IInv' /\ Still
  <2>1. UNCHANGED msg
    BY <1>3 DEF Fault
  <2> QED  BY <1>3, <2>1, FaultInv, MsgSame
<1>4. CASE SweepBurned
  BY <1>4, SweepInv
<1>5. ASSUME NEW m \in Msgs, TellSwept(m) PROVE IInv' /\ Still
  <2>1. UNCHANGED msg
    BY <1>5 DEF TellSwept
  <2> QED  BY <1>5, <2>1, TellSweptInv, MsgSame
<1>6. CASE SweepFails
  <2>1. UNCHANGED msg
    BY <1>6 DEF SweepFails
  <2> QED  BY <1>6, <2>1, SweepFailsInv, MsgSame
<1>7. CASE Restart
  <2>1. UNCHANGED msg
    BY <1>7 DEF Restart
  <2> QED  BY <1>7, <2>1, RestartInv, MsgSame
<1>8. ASSUME NEW m \in Msgs, Tick(m) PROVE IInv' /\ Still
  BY <1>8, TickInv
<1>9. ASSUME NEW c \in client.convs, NEW u \in client.users, Move(c, u) \/ Mute(c, u)
      PROVE  IInv' /\ Still
  <2>1. c \in Convs /\ u \in Users
    BY ClientTypes
  <2>2. UNCHANGED msg
    BY <1>9 DEF Move, Mute
  <2> QED  BY <1>9, <2>1, <2>2, MoveInv, MsgSame
<1> QED  BY <1>1, <1>2, <1>3, <1>4, <1>5, <1>6, <1>7, <1>8, <1>9 DEF Next, Sweeper

LEMMA IdleInv ==
  ASSUME IInv, UNCHANGED vars
  PROVE  IInv' /\ Still
<1>1. UNCHANGED <<member, quiet, msg, mark, req, swept, sweeper, armTold, goneTold, lost, client, faults>>
  BY DEF vars
<1>2. Still /\ Rows' /\ Marks'
  BY <1>1, MsgSame, RowsSame, MarksStep
<1>3. Types'
  BY <1>1 DEF IInv, Types
<1>4. SameNets
  BY <1>1 DEF SameNets, SameNet, GoneNet, ArmedNet
<1> QED  BY <1>1, <1>2, <1>3, <1>4, OtherStep

LEMMA InitInv == Init => IInv
<1> SUFFICES ASSUME Init PROVE IInv
  OBVIOUS
<1>1. /\ msg = [m \in Msgs |-> NoRow] /\ mark = [c \in Convs |-> [u \in Users |-> None]]
      /\ req = [p \in Handlers |-> NoReq] /\ swept = {} /\ sweeper = "on"
      /\ armTold = [m \in Msgs |-> 0] /\ goneTold = [m \in Msgs |-> 0] /\ lost = {} /\ faults = 0
  BY DEF Init
<1>2. Types
  <2>1. client \in Clients /\ client.users \subseteq Users
    BY DEF Init
  <2>2. member \in [Convs -> SUBSET Users] /\ quiet \in [Convs -> SUBSET Users]
    BY <2>1 DEF Init
  <2>3. msg \in [Msgs -> Message]
    BY <1>1, NoRowFields
  <2> QED  BY <1>1, <2>1, <2>2, <2>3 DEF Types
<1>3. ASSUME NEW m \in Msgs PROVE Whole(m)
  <2>1. msg[m] = NoRow
    BY <1>1
  <2> QED  BY <2>1, NoRowFields DEF Whole
<1>4. Marks
  BY <1>1 DEF Marks
<1>5. Requests
  <2>1. PICK r : r = NoReq
    OBVIOUS
  <2>2. r \in Req /\ Shape(r) /\ Relies(r)
    BY <2>1, NoReqFits DEF Shape
  <2>3. req = [p \in Handlers |-> r]
    BY <1>1, <2>1
  <2> QED  BY <2>2, <2>3 DEF Requests
<1>6. ASSUME NEW m \in Msgs PROVE Gone(m) /\ Armed(m)
  <2>1. \A op : Cardinality(Tellers(op, m)) = 0
    <3>1. \A op : Tellers(op, m) = {}
      BY <1>1, NoReqFits DEF Tellers
    <3> QED  BY <3>1, FS_EmptySet
  <2>2. msg[m].state = "none" /\ msg[m].armedBy = None
    BY <1>1, NoRowFields
  <2>3. Gone(m)
    BY <1>1, <2>1, <2>2 DEF Gone, One
  <2>4. Armed(m)
    BY <1>1, <2>1, <2>2 DEF Armed, One
  <2> QED  BY <2>3, <2>4
<1> QED  BY <1>2, <1>3, <1>4, <1>5, <1>6 DEF IInv, Rows, Told

(* Whatever requests, failures, restarts and sweeps meet: a message is     *)
(* deleted once and that is told once unless a failure comes first, a      *)
(* countdown is one reader's and told once, replies and read marks stay in *)
(* their conversation, and copies are of messages that do not burn         *)
(* (message.go of the handler and of the repository).                      *)
THEOREM MessagesHold == Spec => []MessageInv
<1>1. IInv /\ [Next]_vars => IInv'
  BY NextInv, IdleInv
<1> QED  BY <1>1, InitInv, Implied, PTL DEF Spec

(* What is deleted stays deleted and as it was, and a countdown that has   *)
(* started is never another reader's: each UPDATE repeats its condition    *)
(* (Update, Delete, MarkBurnRead and SweepBurned in message.go).           *)
THEOREM MessagesStand == Spec => RowsStand
<1>1. IInv /\ [Next]_vars => IInv'
  BY NextInv, IdleInv
<1>2. IInv /\ [Next]_vars =>
        [\A m \in Msgs :
           /\ msg[m].state = "deleted" => msg'[m].state = "deleted" /\ msg'[m].body = msg[m].body
           /\ msg[m].armedBy # None => msg'[m].armedBy = msg[m].armedBy]_vars
  BY NextInv DEF Still, StillRow
<1> QED  BY <1>1, <1>2, InitInv, PTL DEF Spec, RowsStand
=============================================================================
