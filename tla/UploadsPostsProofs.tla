------------------------- MODULE UploadsPostsProofs --------------------------
(* Proofs about Uploads, and then about Posts: two components that share no  *)
(* variable and no definition, only the sets that their constants name. No   *)
(* proof of the one cites an assumption of the other.                        *)
EXTENDS Uploads, Posts, SumLemmas

(* Proofs about Uploads: for any users, files, uploads, requests and faults. *)

(* What the actions build is of the right type and holds what it is built   *)
(* from.                                                                    *)
LEMMA ReqTypes ==
    /\ NoReq \in Req /\ NoReq.pc = "idle" /\ NoReq.op = "none" /\ NoReq.key = None
    /\ \A pc \in Pc, op \in {"upload", "image", "chunk", "complete", "delete", "link"},
          u \in Users \cup {None}, s \in Uploads \cup {None}, k \in Keys \cup {None},
          c \in Content \cup {None}, n \in Content \cup {None} :
         NewReq(pc, op, u, s, k, c, n) \in Req
    /\ \A pc, op, u, s, k, c, n :
         LET r == NewReq(pc, op, u, s, k, c, n)
         IN  /\ r.pc = pc /\ r.op = op /\ r.user = u /\ r.upload = s /\ r.key = k
             /\ r.content = c /\ r.counted = n
  BY DEF NoReq, NewReq, Req, Pc

LEMMA StartTypes ==
  ASSUME NEW u \in Users \cup {None}
  PROVE  /\ \A c \in Content : /\ NewReq("hash", "upload", u, None, None, c, c) \in Req
                             /\ NewReq("store", "image", u, None, None, c, c) \in Req
         /\ \A s \in Uploads : /\ NewReq("put", "chunk", u, s, None, None, None) \in Req
                             /\ NewReq("stat", "complete", u, s, None, None, None) \in Req
         /\ \A k \in Keys : /\ NewReq("remove", "delete", u, None, k, None, None) \in Req
                          /\ NewReq("link", "link", u, None, k, None, None) \in Req
  BY DEF NewReq, Req, Pc

LEMMA MoveTypes ==
  ASSUME NEW u \in Users, NEW k \in Keys, NEW c \in Content, NEW n \in Content
  PROVE  /\ NewReq("sum", "upload", u, None, k, c, n) \in Req
         /\ NewReq("record", "image", u, None, k, c, n) \in Req
         /\ \A s \in Uploads : NewReq("hash", "complete", u, s, k, c, n) \in Req
  BY DEF NewReq, Req, Pc

LEMMA StatTypes ==
  ASSUME NEW u \in Users, NEW n \in Content, NEW s \in Uploads
  PROVE  /\ NewReq("clear", "complete", u, s, None, None, n) \in Req
         /\ NewReq("quota", "complete", u, s, None, None, n) \in Req
  BY DEF NewReq, Req, Pc

LEMMA RowTypes ==
    /\ \A st \in {"none", "gone"} : NoRow(st) \in Row
    /\ \A st : NoRow(st).state = st /\ NoRow(st).burn = "no" /\ NoRow(st).sha256 = None
    /\ \A u \in Users, c \in Content, n \in Content : NewRow(u, c, n) \in Row
    /\ \A u, c, n : /\ NewRow(u, c, n).state = "live" /\ NewRow(u, c, n).sha256 = c
                    /\ NewRow(u, c, n).burn = "no"
  BY DEF NoRow, NewRow, Row

LEMMA SweepTypes ==
    /\ \A st \in {"boot", "running", "done"}, L \in SUBSET Keys, k \in Keys \cup {None} :
         Sweeping(st, L, k) \in Sweep
    /\ \A st, L, k : /\ Sweeping(st, L, k).state = st /\ Sweeping(st, L, k).list = L
                     /\ Sweeping(st, L, k).deleting = k
  BY DEF Sweeping, Sweep

(* What a record of each type holds.                                        *)
LEMMA ReqHolds ==
  ASSUME NEW r \in Req
  PROVE  /\ r.pc \in Pc /\ r.op \in {"none", "upload", "image", "chunk", "complete", "delete", "link"}
         /\ r.user \in Users \cup {None} /\ r.upload \in Uploads \cup {None}
         /\ r.key \in Keys \cup {None}
         /\ r.content \in Content \cup {None} /\ r.counted \in Content \cup {None}
  BY DEF Req

LEMMA SweepHolds ==
  ASSUME NEW w \in Sweep
  PROVE  w.list \in SUBSET Keys /\ w.deleting \in Keys \cup {None}
  BY DEF Sweep

LEMMA SessionHolds ==
  ASSUME NEW w \in Session
  PROVE  w.owner \in Users \cup {None}
  BY DEF Session

LEMMA RowHolds ==
  ASSUME NEW w \in Row
  PROVE  w.state \in {"none", "live", "gone"} /\ w.owner \in Users \cup {None}
  BY DEF Row

----------------------------------------------------------------------------
(* What each way to change the request of p, a row or a session does.       *)
LEMMA GoEffect ==
  ASSUME NEW p \in Handlers, NEW pc \in Pc, req \in [Handlers -> Req], Go(p, pc)
  PROVE  /\ req' \in [Handlers -> Req]
         /\ req'[p].pc = pc /\ req'[p].op = req[p].op /\ req'[p].user = req[p].user
         /\ req'[p].upload = req[p].upload /\ req'[p].key = req[p].key
         /\ req'[p].content = req[p].content /\ req'[p].counted = req[p].counted
         /\ \A q \in Handlers : q # p => req'[q] = req[q]
  BY DEF Go, Req

LEMMA DoneEffect ==
  ASSUME NEW p \in Handlers, req \in [Handlers -> Req], Done(p)
  PROVE  /\ req' \in [Handlers -> Req]
         /\ req'[p] = NoReq
         /\ \A q \in Handlers : q # p => req'[q] = req[q]
  BY ReqTypes DEF Done

LEMMA StartEffect ==
  ASSUME NEW p \in Handlers, NEW r \in Req, req \in [Handlers -> Req], Start(p, r)
  PROVE  /\ req' \in [Handlers -> Req]
         /\ req[p].pc = "idle" /\ req'[p] = r
         /\ \A q \in Handlers : q # p => req'[q] = req[q]
  BY DEF Start

LEMMA StampEffect ==
  ASSUME NEW k \in Keys, NEW b \in {"armed", "due"}, row \in [Keys -> Row], Stamp(k, b)
  PROVE  /\ row' \in [Keys -> Row]
         /\ row'[k].state = row[k].state /\ row'[k].sha256 = row[k].sha256
         /\ row'[k].burn = b
         /\ \A j \in Keys : j # k => row'[j] = row[j]
  BY DEF Stamp, Row

(* The links of a row are written, and nothing else of it.                  *)
LEMMA LinksEffect ==
  ASSUME NEW k \in Keys, NEW L \in SUBSET {"post", "burn"}, row \in [Keys -> Row],
         row' = [row EXCEPT ![k].links = L]
  PROVE  /\ row' \in [Keys -> Row]
         /\ row'[k].state = row[k].state /\ row'[k].sha256 = row[k].sha256
         /\ row'[k].burn = row[k].burn
         /\ \A j \in Keys : j # k => row'[j] = row[j]
  BY DEF Row

LEMMA DropEffect ==
  ASSUME NEW k \in Keys, row \in [Keys -> Row], DropRow(k)
  PROVE  /\ row' \in [Keys -> Row]
         /\ row'[k] = NoRow("gone")
         /\ \A j \in Keys : j # k => row'[j] = row[j]
  BY RowTypes DEF DropRow

LEMMA PutEffect ==
  ASSUME NEW k \in Keys, NEW u \in Users, NEW c \in Content, NEW n \in Content,
         row \in [Keys -> Row], row' = [row EXCEPT ![k] = NewRow(u, c, n)]
  PROVE  /\ row' \in [Keys -> Row]
         /\ row'[k] = NewRow(u, c, n)
         /\ \A j \in Keys : j # k => row'[j] = row[j]
  BY RowTypes

LEMMA DeletedChunks ==
  ASSUME NEW s \in Uploads, DeleteChunks(s),
         chunk \in [Uploads -> [Chunks -> Payloads \cup {None}]]
  PROVE  chunk' \in [Uploads -> [Chunks -> Payloads \cup {None}]]
<1>1. PICK left \in SUBSET Landed(s) :
        chunk' = [chunk EXCEPT ![s] =
                    [i \in Chunks |-> IF i \in left THEN chunk[s][i] ELSE None]]
  BY DEF DeleteChunks
<1>2. [i \in Chunks |-> IF i \in left THEN chunk[s][i] ELSE None]
        \in [Chunks -> Payloads \cup {None}]
  OBVIOUS
<1> QED  BY <1>1, <1>2

LEMMA WholeFile ==
  ASSUME NEW s \in Uploads, Landed(s) = Chunks,
         chunk \in [Uploads -> [Chunks -> Payloads \cup {None}]]
  PROVE  chunk[s] \in Content
<1>1. \A i \in Chunks : chunk[s][i] \in Payloads
  BY DEF Landed
<1> QED  BY <1>1 DEF Content

LEMMA NoneIsNoContent == None \notin Content /\ None \notin Keys /\ None \notin Handlers
  BY UploadsAssumption DEF Content

----------------------------------------------------------------------------
(* What a request remembers fits the call it is about to make.              *)
Fits(r) ==
    /\ r.pc \in {"put", "stat", "quota", "assemble", "clear", "session"} =>
         r.upload \in Uploads
    /\ r.pc \in {"stat", "quota", "assemble", "hash", "store", "sum", "insert", "record",
               "discard"} =>
         r.user \in Users
    /\ r.pc \in {"quota", "assemble", "hash", "store", "sum", "insert", "record", "discard"} =>
         r.counted \in Content
    /\ r.pc \in {"hash", "store", "sum", "insert", "record", "discard"} => r.content \in Content
    /\ r.pc \in {"hash", "sum", "insert", "discard"} =>
         /\ r.op \in {"upload", "complete"}
         /\ r.op = "complete" => r.upload \in Uploads
    /\ r.pc \in {"sum", "insert", "record", "discard", "remove", "row", "link"} => r.key \in Keys
    /\ r.pc = "hash" /\ r.op = "complete" => r.key \in Keys
    /\ r.pc = "hash" /\ r.op = "upload" => r.key = None
    /\ r.pc = "store" => r.op \in {"upload", "image"}
    /\ r.pc = "record" => r.op = "image"
    /\ r.op = "image" => /\ r.pc \in {"store", "record"} /\ r.user \in Users
                        /\ r.counted \in Content

ReqInv == \A p \in Handlers : Fits(req[p])

(* An open session has an owner.                                            *)
SessionInv == \A s \in Uploads : Held(s) => session[s].owner \in Users

ControlInv == TypeOK /\ ReqInv /\ SessionInv /\ LockHeld

(* The three parts of StoredInFull.                                         *)
Sound(k) ==
    /\ object[k] # None => object[k] \in Content
    /\ Live(k) /\ object[k] # None => object[k] = row[k].sha256
    /\ ~Live(k) => row[k].burn = "no"

Owns(p, k) ==
    Unrecorded(p) /\ req[p].key = k => row[k].state = "none" /\ object[k] = req[p].content

OwnsAlone(p, q) ==
    Unrecorded(p) /\ Unrecorded(q) /\ req[p].key = req[q].key => q = p

(* Whoever is about to delete or link a key has read it in a row.           *)
Named(p) ==
    req[p].pc \in {"remove", "row", "link"} => row[req[p].key].state # "none"

Swept(w) ==
    /\ \A k \in w.list : row[k].state # "none"
    /\ w.deleting # None => row[w.deleting].state # "none" /\ w.state # "boot"

StoreInv ==
    /\ \A k \in Keys : Sound(k)
    /\ \A p \in Handlers, k \in Keys : Owns(p, k)
    /\ \A p, q \in Handlers : OwnsAlone(p, q)
    /\ \A p \in Handlers : Named(p)
    /\ Swept(burner) /\ Swept(recycler)
    /\ RowsHaveObjects

----------------------------------------------------------------------------
LEMMA InitHolds == Init => ControlInv /\ StoreInv
<1> SUFFICES ASSUME Init PROVE ControlInv /\ StoreInv
  OBVIOUS
<1>1. NoRow("none") \in Row /\ NoRow("none").state = "none" /\ NoRow("none").burn = "no"
  BY RowTypes
<1>2. /\ Sweeping("running", {}, None) \in Sweep /\ Sweeping("boot", {}, None) \in Sweep
      /\ burner.list = {} /\ burner.deleting = None
      /\ recycler.list = {} /\ recycler.deleting = None
  BY SweepTypes DEF Init
<1>3. TypeOK
  <2>1. session \in [Uploads -> Session]
    BY DEF Init, Session
  <2>2. req \in [Handlers -> Req]
    BY ReqTypes DEF Init
  <2>3. chunk \in [Uploads -> [Chunks -> Payloads \cup {None}]]
    BY DEF Init, NoChunks
  <2>4. faults \in 0..MaxFaults
    BY UploadsAssumption DEF Init
  <2>5. slip \in Slip
    BY DEF Init, Slip
  <2> QED  BY <1>1, <1>2, <2>1, <2>2, <2>3, <2>4, <2>5 DEF Init, TypeOK
<1>4. \A p \in Handlers : req[p].pc = "idle" /\ req[p].key = None
  BY ReqTypes DEF Init
<1>5. ReqInv
  BY ReqTypes DEF ReqInv, Fits, Init
<1>6. SessionInv
  BY DEF Init, SessionInv, Held
<1>7. LockHeld
  BY <1>4, NoneIsNoContent DEF Init, LockHeld
<1>8. \A k \in Keys : object[k] = None /\ row[k].state = "none" /\ row[k].burn = "no"
  BY <1>1 DEF Init
<1>9. StoreInv
  BY <1>2, <1>4, <1>8 DEF StoreInv, Sound, Owns, OwnsAlone, Named, Swept, RowsHaveObjects,
                          Unrecorded, Live
<1> QED
  BY <1>3, <1>5, <1>6, <1>7, <1>9 DEF ControlInv

----------------------------------------------------------------------------
(* A request does something that leaves the user's lock alone.              *)
LEMMA OtherRequest ==
  ASSUME NEW p \in Handlers, ControlInv, TypeOK',
         UNCHANGED <<session, usageLock>>,
         \A q \in Handlers : q # p => req'[q] = req[q],
         req[p].pc # "insert", Fits(req[p])', req'[p].pc # "insert"
  PROVE  ControlInv'
<1>1. ReqInv'
  BY DEF ControlInv, ReqInv, Fits
<1>2. SessionInv'
  BY DEF ControlInv, SessionInv, Held
<1>3. LockHeld'
  BY DEF ControlInv, LockHeld
<1> QED
  BY <1>1, <1>2, <1>3 DEF ControlInv

(* No request moves.                                                        *)
LEMMA NoRequest ==
  ASSUME ControlInv, TypeOK', UNCHANGED requests, SessionInv'
  PROVE  ControlInv'
<1>1. ReqInv'
  BY DEF ControlInv, ReqInv, Fits, requests
<1>2. LockHeld'
  BY DEF ControlInv, LockHeld, requests
<1> QED
  BY <1>1, <1>2 DEF ControlInv

LEMMA ArriveControl == ASSUME NEW p \in Handlers, ControlInv, Arrive(p) PROVE ControlInv'
<1> USE ReqTypes DEF Pc
<1>0. TypeOK
  BY DEF ControlInv
<1>1. ASSUME NEW r \in Req, Start(p, r), Fits(r), r.pc # "insert", slip' \in Slip,
             UNCHANGED <<session, chunk, object, row, usageLock, sweepers, faults, scope>>
      PROVE  ControlInv'
  <2>1. /\ req' \in [Handlers -> Req] /\ req[p].pc = "idle" /\ req'[p] = r
        /\ \A q \in Handlers : q # p => req'[q] = req[q]
    BY <1>0, <1>1, StartEffect DEF TypeOK
  <2>2. TypeOK'
    BY <1>0, <1>1, <2>1 DEF TypeOK, sweepers
  <2>3. Fits(req[p])'
    BY <1>1, <2>1 DEF Fits
  <2> QED  BY <1>1, <2>1, <2>2, <2>3, OtherRequest
<1>2. ASSUME NEW u \in Users, NEW c \in Files, Upload(p, u, c) PROVE ControlInv'
  <2>1. c \in Content
    BY UploadsAssumption DEF Content
  <2>2. NewReq("hash", "upload", u, None, None, c, c) \in Req
    BY <2>1, StartTypes
  <2>3. Fits(NewReq("hash", "upload", u, None, None, c, c))
    BY <2>1 DEF Fits
  <2>4. slip' \in Slip
    BY <1>0, <1>2 DEF Upload, TypeOK
  <2> QED  BY <1>1, <1>2, <2>2, <2>3, <2>4 DEF Upload
<1>7. ASSUME NEW u \in Users, NEW c \in Files, UploadImage(p, u, c) PROVE ControlInv'
  <2>1. c \in Content
    BY UploadsAssumption DEF Content
  <2>2. NewReq("store", "image", u, None, None, c, c) \in Req
    BY <2>1, StartTypes
  <2>3. Fits(NewReq("store", "image", u, None, None, c, c))
    BY <2>1 DEF Fits
  <2>4. slip' \in Slip
    BY <1>0, <1>7 DEF UploadImage, TypeOK, Slip
  <2> QED  BY <1>1, <1>7, <2>2, <2>3, <2>4 DEF UploadImage
<1>3. ASSUME NEW s \in Uploads, ChunkUpload(p, s) PROVE ControlInv'
  <2>1. session[s].owner \in Users
    BY <1>3 DEF ChunkUpload, ControlInv, SessionInv
  <2>2. PICK u \in Users : u = session[s].owner
    BY <2>1
  <2>3. NewReq("put", "chunk", u, s, None, None, None) \in Req
    BY StartTypes
  <2>4. Fits(NewReq("put", "chunk", u, s, None, None, None))
    BY DEF Fits
  <2>5. slip' \in Slip
    BY <1>0, <1>3 DEF ChunkUpload, TypeOK
  <2> QED  BY <1>1, <1>3, <2>2, <2>3, <2>4, <2>5 DEF ChunkUpload
<1>4. ASSUME NEW s \in Uploads, ChunkComplete(p, s) PROVE ControlInv'
  <2>1. session[s].owner \in Users
    BY <1>4 DEF ChunkComplete, ControlInv, SessionInv
  <2>2. PICK u \in Users : u = session[s].owner
    BY <2>1
  <2>3. NewReq("stat", "complete", u, s, None, None, None) \in Req
    BY StartTypes
  <2>4. Fits(NewReq("stat", "complete", u, s, None, None, None))
    BY DEF Fits
  <2>5. slip' \in Slip
    BY <1>0, <1>4 DEF ChunkComplete, TypeOK
  <2> QED  BY <1>1, <1>4, <2>2, <2>3, <2>4, <2>5 DEF ChunkComplete
<1>5. ASSUME NEW k \in Keys, Delete(p, k) PROVE ControlInv'
  <2>1. PICK u \in Users \cup {None} : u = row[k].owner
    BY <1>0, RowHolds DEF TypeOK
  <2>2. NewReq("remove", "delete", u, None, k, None, None) \in Req
    BY StartTypes
  <2>3. Fits(NewReq("remove", "delete", u, None, k, None, None))
    BY DEF Fits
  <2>4. slip' \in Slip
    BY <1>0, <1>5 DEF Delete, TypeOK
  <2> QED  BY <1>1, <1>5, <2>1, <2>2, <2>3, <2>4 DEF Delete
<1>6. ASSUME NEW k \in Keys, Attach(p, k) PROVE ControlInv'
  <2>1. PICK u \in Users \cup {None} : u = row[k].owner
    BY <1>0, RowHolds DEF TypeOK
  <2>2. NewReq("link", "link", u, None, k, None, None) \in Req
    BY StartTypes
  <2>3. Fits(NewReq("link", "link", u, None, k, None, None))
    BY DEF Fits
  <2>4. slip' \in Slip
    BY <1>0, <1>6 DEF Attach, TypeOK
  <2> QED  BY <1>1, <1>6, <2>1, <2>2, <2>3, <2>4 DEF Attach
<1> QED
  BY <1>2, <1>3, <1>4, <1>5, <1>6, <1>7 DEF Arrive

(* A fault, or the restart of the service: some requests are over, and what *)
(* locks they held are free.                                                *)
LEMMA EndsControl ==
  ASSUME NEW E \in SUBSET Handlers, ControlInv,
         TypeOK', UNCHANGED session,
         \A q \in Handlers : req'[q] = IF q \in E THEN NoReq ELSE req[q],
         \A q \in Handlers \ E, u \in Users : usageLock[u] = q <=> usageLock'[u] = q,
         \A q \in E, u \in Users : usageLock'[u] # q
  PROVE  ControlInv'
<1>1. ReqInv'
  <2>1. Fits(NoReq)
    BY ReqTypes DEF Fits
  <2> QED  BY <2>1 DEF ControlInv, ReqInv, Fits
<1>2. LockHeld'
  <2>1. ASSUME NEW q \in Handlers
        PROVE  /\ req'[q].pc = "insert" => usageLock'[req'[q].user] = q
               /\ \A u \in Users : usageLock'[u] = q =>
                    req'[q].pc = "insert" /\ req'[q].user = u
    <3>1. CASE q \in E
      BY <3>1, ReqTypes
    <3>2. CASE q \notin E
      <4>1. req'[q] = req[q] /\ (req[q].pc = "insert" => req[q].user \in Users)
        BY <3>2 DEF ControlInv, ReqInv, Fits
      <4> QED  BY <3>2, <4>1 DEF ControlInv, LockHeld
    <3> QED  BY <3>1, <3>2
  <2> QED  BY <2>1 DEF LockHeld
<1>3. SessionInv'
  BY DEF ControlInv, SessionInv, Held
<1> QED  BY <1>1, <1>2, <1>3 DEF ControlInv

LEMMA FaultControl == ASSUME NEW p \in Handlers, ControlInv, Fault(p) PROVE ControlInv'
<1>1. TypeOK
  BY DEF ControlInv
<1>2. /\ req' \in [Handlers -> Req]
      /\ \A q \in Handlers : req'[q] = IF q \in {p} THEN NoReq ELSE req[q]
  BY <1>1, DoneEffect DEF Fault, TypeOK
<1>a. UNCHANGED session /\ {p} \in SUBSET Handlers
  BY DEF Fault
<1>3. /\ usageLock' \in [Users -> Handlers \cup {None}]
      /\ \A q \in Handlers \ {p}, u \in Users : usageLock[u] = q <=> usageLock'[u] = q
      /\ \A u \in Users : usageLock'[u] # p
  BY <1>1, NoneIsNoContent DEF Fault, TypeOK
<1>4. TypeOK'
  <2>1. faults' \in 0..MaxFaults
    BY <1>1, UploadsAssumption DEF Fault, TypeOK
  <2> QED  BY <1>1, <1>2, <1>3, <2>1 DEF Fault, TypeOK, sweepers
<1>5. \A q \in {p}, u \in Users : usageLock'[u] # q
  BY <1>3
<1> QED  BY <1>2, <1>3, <1>4, <1>5, <1>a, EndsControl

LEMMA RestartControl == ASSUME ControlInv, Restart PROVE ControlInv'
<1> DEFINE E == {q \in Handlers : req[q].op \notin {"link", "image"}}
<1>1. TypeOK
  BY DEF ControlInv
<1>2. /\ req' \in [Handlers -> Req]
      /\ \A q \in Handlers : req'[q] = IF q \in E THEN NoReq ELSE req[q]
  BY <1>1, ReqTypes DEF Restart, TypeOK
<1>3. usageLock' = [u \in Users |-> None]
  BY DEF Restart
<1>4. \A q \in Handlers \ E, u \in Users : usageLock[u] # q
  BY DEF ControlInv, LockHeld, ReqInv, Fits
<1>5. TypeOK'
  <2>1. faults' \in 0..MaxFaults
    BY <1>1, UploadsAssumption DEF Restart, TypeOK
  <2>2. burner' \in Sweep /\ recycler' \in Sweep
    BY SweepTypes DEF Restart
  <2> QED  BY <1>1, <1>2, <1>3, <2>1, <2>2 DEF Restart, TypeOK
<1> HIDE DEF E
<1>6. E \in SUBSET Handlers
  BY DEF E
<1> QED  BY <1>2, <1>3, <1>4, <1>5, <1>6, NoneIsNoContent, EndsControl DEF Restart

LEMMA ServeControl == ASSUME NEW p \in Handlers, ControlInv, Serve(p) PROVE ControlInv'
<1> DEFINE r == req[p]
<1>0. TypeOK /\ r \in Req /\ Fits(r)
  BY DEF ControlInv, TypeOK, ReqInv
(* Most of what a request does ends it, or sends it on to its next call.    *)
<1>d. ASSUME Done(p), TypeOK', UNCHANGED <<session, usageLock>>, r.pc # "insert"
      PROVE  ControlInv'
  <2>1. /\ req'[p] = NoReq /\ \A q \in Handlers : q # p => req'[q] = req[q]
    BY <1>0, <1>d, DoneEffect DEF TypeOK
  <2>2. Fits(req[p])' /\ req'[p].pc # "insert"
    BY <2>1, ReqTypes DEF Fits
  <2> QED  BY <1>d, <2>1, <2>2, OtherRequest
<1>g. ASSUME NEW pc \in Pc, Go(p, pc), TypeOK', UNCHANGED <<session, usageLock>>,
             r.pc # "insert", pc # "insert",
             Fits(r) /\ req'[p].pc = pc /\ req'[p].op = r.op /\ req'[p].user = r.user
               /\ req'[p].upload = r.upload /\ req'[p].key = r.key
               /\ req'[p].content = r.content /\ req'[p].counted = r.counted
             => Fits(req[p])'
      PROVE  ControlInv'
  <2>1. /\ req'[p].pc = pc /\ req'[p].op = r.op /\ req'[p].user = r.user
        /\ req'[p].upload = r.upload /\ req'[p].key = r.key
        /\ req'[p].content = r.content /\ req'[p].counted = r.counted
        /\ \A q \in Handlers : q # p => req'[q] = req[q]
    BY <1>0, <1>g, GoEffect DEF TypeOK
  <2> QED  BY <1>0, <1>g, <2>1, OtherRequest
<1>n. ASSUME NEW n \in Req, req' = [req EXCEPT ![p] = n], TypeOK',
             UNCHANGED <<session, usageLock>>, r.pc # "insert", n.pc # "insert", Fits(n)
      PROVE  ControlInv'
  <2>1. /\ req'[p] = n /\ \A q \in Handlers : q # p => req'[q] = req[q]
    BY <1>0, <1>n DEF TypeOK
  <2>2. Fits(req[p])'
    BY <1>n, <2>1 DEF Fits
  <2> QED  BY <1>n, <2>1, <2>2, OtherRequest
<1>1. CASE UploadChunk(p)
  <2>1. req' \in [Handlers -> Req]
    BY <1>0, <1>1, DoneEffect DEF UploadChunk, TypeOK
  <2>2. chunk' \in [Uploads -> [Chunks -> Payloads \cup {None}]]
    <3>1. PICK i \in Chunks, d \in Payloads : chunk' = [chunk EXCEPT ![r.upload][i] = d]
      BY <1>1, UploadsAssumption DEF UploadChunk
    <3> QED  BY <1>0, <3>1 DEF TypeOK
  <2>3. TypeOK'
    BY <1>0, <1>1, <2>1, <2>2 DEF UploadChunk, TypeOK, sweepers
  <2> QED  BY <1>1, <1>d, <2>3 DEF UploadChunk
<1>2. CASE StatChunks(p)
  <2>1. CASE Done(p)
    <3>1. req' \in [Handlers -> Req]
      BY <1>0, <2>1, DoneEffect DEF TypeOK
    <3>2. TypeOK'
      BY <1>0, <1>2, <3>1 DEF StatChunks, TypeOK, sweepers
    <3> QED  BY <1>2, <1>d, <2>1, <3>2 DEF StatChunks
  <2>2. CASE ~Done(p)
    <3>1. r.upload \in Uploads /\ r.user \in Users /\ Landed(r.upload) = Chunks
      BY <1>0, <1>2, <2>2 DEF StatChunks, Fits
    <3>2. chunk[r.upload] \in Content
      BY <1>0, <3>1, WholeFile DEF TypeOK
    <3>3. PICK pc \in {"clear", "quota"} :
            req' = [req EXCEPT ![p] = NewReq(pc, "complete", r.user, r.upload, None, None,
                                             chunk[r.upload])]
      BY <1>2, <2>2 DEF StatChunks
    <3>4. PICK n : n = NewReq(pc, "complete", r.user, r.upload, None, None, chunk[r.upload])
      OBVIOUS
    <3>5. n \in Req
      BY <3>1, <3>2, <3>4, StatTypes
    <3>6. Fits(n) /\ n.pc # "insert"
      BY <3>1, <3>2, <3>4, ReqTypes DEF Fits
    <3>7. TypeOK'
      BY <1>0, <1>2, <3>3, <3>4, <3>5 DEF StatChunks, TypeOK, sweepers
    <3> QED  BY <1>2, <1>n, <3>3, <3>4, <3>5, <3>6, <3>7 DEF StatChunks
  <2> QED  BY <2>1, <2>2
<1>3. CASE CheckQuotaForActualBytes(p)
  <2>1. PICK pc \in {"assemble", "clear"} : Go(p, pc)
    BY <1>3 DEF CheckQuotaForActualBytes
  <2>2. req' \in [Handlers -> Req]
    BY <1>0, <2>1, GoEffect DEF TypeOK, Pc
  <2>3. TypeOK'
    BY <1>0, <1>3, <2>2 DEF CheckQuotaForActualBytes, TypeOK, sweepers
  <2> QED  BY <1>3, <1>g, <2>1, <2>3 DEF CheckQuotaForActualBytes, Fits, Pc
<1>4. CASE AssembleChunks(p)
  <2>1. CASE Done(p) /\ UNCHANGED object
    <3>1. req' \in [Handlers -> Req]
      BY <1>0, <2>1, DoneEffect DEF TypeOK
    <3>2. TypeOK'
      BY <1>0, <1>4, <2>1, <3>1 DEF AssembleChunks, TypeOK, sweepers
    <3> QED  BY <1>4, <1>d, <2>1, <3>2 DEF AssembleChunks
  <2>2. CASE ~(Done(p) /\ UNCHANGED object)
    <3>1. r.upload \in Uploads /\ r.user \in Users /\ r.counted \in Content
      BY <1>0, <1>4 DEF AssembleChunks, Fits
    <3>2. chunk[r.upload] \in Content
      BY <1>0, <1>4, <2>2, <3>1, WholeFile DEF AssembleChunks, MayAssemble, TypeOK
    <3>3. PICK k \in Keys :
            /\ object' = [object EXCEPT ![k] = chunk[r.upload]]
            /\ req' = [req EXCEPT ![p] = NewReq("hash", "complete", r.user, r.upload, k,
                                                chunk[r.upload], r.counted)]
      BY <1>4, <2>2 DEF AssembleChunks
    <3>4. PICK n : n = NewReq("hash", "complete", r.user, r.upload, k, chunk[r.upload],
                              r.counted)
      OBVIOUS
    <3>5. n \in Req
      BY <3>1, <3>2, <3>4, MoveTypes
    <3>6. Fits(n) /\ n.pc # "insert"
      BY <3>1, <3>2, <3>4, ReqTypes DEF Fits
    <3>7. object' \in [Keys -> [Chunks -> Payloads \cup {None}] \cup {None}]
      BY <1>0, <3>1, <3>3 DEF TypeOK
    <3>8. TypeOK'
      BY <1>0, <1>4, <3>3, <3>4, <3>5, <3>7 DEF AssembleChunks, TypeOK, sweepers
    <3> QED  BY <1>4, <1>n, <3>3, <3>4, <3>5, <3>6, <3>8 DEF AssembleChunks
  <2> QED  BY <2>1, <2>2
<1>5. CASE GetByHash(p)
  <2>1. CASE Done(p)
    <3>1. req' \in [Handlers -> Req]
      BY <1>0, <2>1, DoneEffect DEF TypeOK
    <3>2. TypeOK'
      BY <1>0, <1>5, <3>1 DEF GetByHash, TypeOK, sweepers
    <3> QED  BY <1>5, <1>d, <2>1, <3>2 DEF GetByHash
  <2>2. CASE ~Done(p)
    <3>1. PICK pc \in {"store", "sum"} :
            Go(p, pc) /\ (pc = "store" <=> r.op = "upload")
      BY <1>5, <2>2 DEF GetByHash
    <3>2. req' \in [Handlers -> Req]
      BY <1>0, <3>1, GoEffect DEF TypeOK, Pc
    <3>3. TypeOK'
      BY <1>0, <1>5, <3>2 DEF GetByHash, TypeOK, sweepers
    <3> QED  BY <1>5, <1>g, <3>1, <3>3 DEF GetByHash, Fits, Pc
  <2> QED  BY <2>1, <2>2
<1>6. CASE StoreUpload(p)
  <2>1. r.user \in Users /\ r.counted \in Content /\ r.content \in Content
        /\ r.op \in {"upload", "image"}
    BY <1>0, <1>6 DEF StoreUpload, Fits
  <2>2. PICK k \in Keys :
          /\ object' = [object EXCEPT ![k] = r.content]
          /\ req' = [req EXCEPT ![p] = NewReq(IF r.op = "image" THEN "record" ELSE "sum", r.op,
                                              r.user, None, k, r.content, r.counted)]
    BY <1>6 DEF StoreUpload
  <2>3. PICK n, pc : /\ n = NewReq(pc, r.op, r.user, None, k, r.content, r.counted)
                     /\ pc = (IF r.op = "image" THEN "record" ELSE "sum")
    OBVIOUS
  <2>4. n \in Req
    BY <2>1, <2>3, MoveTypes
  <2>5. Fits(n) /\ n.pc # "insert"
    BY <2>1, <2>3, ReqTypes DEF Fits
  <2>6. object' \in [Keys -> [Chunks -> Payloads \cup {None}] \cup {None}]
    BY <1>0, <2>1, <2>2 DEF TypeOK, Content
  <2>7. TypeOK'
    BY <1>0, <1>6, <2>2, <2>3, <2>4, <2>6 DEF StoreUpload, TypeOK, sweepers
  <2> QED  BY <1>6, <1>n, <2>2, <2>3, <2>4, <2>5, <2>7 DEF StoreUpload
<1>7. CASE LockUserUsage(p)
  <2>1. r.user \in Users
    BY <1>0, <1>7 DEF LockUserUsage, Fits
  <2>2. CASE Go(p, "insert") /\ usageLock' = [usageLock EXCEPT ![r.user] = p]
    <3>1. /\ req' \in [Handlers -> Req]
          /\ req'[p].pc = "insert" /\ req'[p].op = r.op /\ req'[p].user = r.user
          /\ req'[p].upload = r.upload /\ req'[p].key = r.key
          /\ req'[p].content = r.content /\ req'[p].counted = r.counted
          /\ \A q \in Handlers : q # p => req'[q] = req[q]
      BY <1>0, <2>2, GoEffect DEF TypeOK, Pc
    <3>2. usageLock' \in [Users -> Handlers \cup {None}]
      BY <1>0, <2>2 DEF TypeOK
    <3>3. TypeOK'
      BY <1>0, <1>7, <3>1, <3>2 DEF LockUserUsage, TypeOK, sweepers
    <3>4. ReqInv'
      <4>1. Fits(req[p])'
        BY <1>0, <1>7, <3>1 DEF Fits, LockUserUsage
      <4> QED  BY <3>1, <4>1 DEF ControlInv, ReqInv, Fits
    <3>5. LockHeld'
      <4>1. usageLock[r.user] = None
        BY <1>7 DEF LockUserUsage, MaySum
      <4>2. ASSUME NEW q \in Handlers, q # p
            PROVE  /\ req'[q].pc = "insert" => usageLock'[req'[q].user] = q
                   /\ \A u \in Users : usageLock'[u] = q =>
                        req'[q].pc = "insert" /\ req'[q].user = u
        <5>1. req'[q] = req[q] /\ (req[q].pc = "insert" => req[q].user \in Users)
          BY <3>1, <4>2 DEF ControlInv, ReqInv, Fits
        <5> QED  BY <1>0, <2>1, <2>2, <4>1, <4>2, <5>1, NoneIsNoContent
                 DEF ControlInv, LockHeld, TypeOK
      <4>3. /\ req'[p].pc = "insert" => usageLock'[req'[p].user] = p
            /\ \A u \in Users : usageLock'[u] = p =>
                 req'[p].pc = "insert" /\ req'[p].user = u
        <5>1. \A u \in Users : usageLock[u] # p
          BY <1>7 DEF ControlInv, LockHeld, LockUserUsage
        <5> QED  BY <1>0, <2>1, <2>2, <3>1, <5>1 DEF TypeOK
      <4> QED  BY <4>2, <4>3 DEF LockHeld
    <3>6. SessionInv'
      BY <1>7 DEF ControlInv, SessionInv, Held, LockUserUsage
    <3> QED  BY <3>3, <3>4, <3>5, <3>6 DEF ControlInv
  <2>3. CASE Go(p, "discard") /\ UNCHANGED usageLock
    <3>1. req' \in [Handlers -> Req]
      BY <1>0, <2>3, GoEffect DEF TypeOK, Pc
    <3>2. TypeOK'
      BY <1>0, <1>7, <2>3, <3>1 DEF LockUserUsage, TypeOK, sweepers
    <3> QED  BY <1>7, <1>g, <2>3, <3>2 DEF LockUserUsage, Fits, Pc
  <2> QED  BY <1>7, <2>2, <2>3 DEF LockUserUsage
<1>8. CASE CreateWithinQuota(p)
  <2>1. r.user \in Users /\ r.content \in Content /\ r.counted \in Content /\ r.key \in Keys
        /\ r.op \in {"upload", "complete"} /\ (r.op = "complete" => r.upload \in Uploads)
        /\ r.pc = "insert"
    BY <1>0, <1>8 DEF CreateWithinQuota, Fits
  <2>2. row' \in [Keys -> Row]
    BY <1>0, <1>8, <2>1, PutEffect DEF CreateWithinQuota, TypeOK
  <2>3. /\ req' \in [Handlers -> Req] /\ Fits(req[p])' /\ req'[p].pc # "insert"
        /\ \A q \in Handlers : q # p => req'[q] = req[q]
    <3>1. CASE Done(p)
      <4>1. /\ req' \in [Handlers -> Req] /\ req'[p] = NoReq
            /\ \A q \in Handlers : q # p => req'[q] = req[q]
        BY <1>0, <3>1, DoneEffect DEF TypeOK
      <4> QED  BY <4>1, ReqTypes DEF Fits
    <3>2. CASE Go(p, "clear") /\ r.op = "complete"
      <4>1. /\ req' \in [Handlers -> Req]
            /\ req'[p].pc = "clear" /\ req'[p].op = r.op /\ req'[p].upload = r.upload
            /\ \A q \in Handlers : q # p => req'[q] = req[q]
        BY <1>0, <3>2, GoEffect DEF TypeOK, Pc
      <4> QED  BY <2>1, <3>2, <4>1 DEF Fits
    <3> QED  BY <1>8, <2>1, <3>1, <3>2 DEF CreateWithinQuota
  <2>4. usageLock' = [usageLock EXCEPT ![r.user] = None]
    BY <1>8 DEF CreateWithinQuota
  <2>5. TypeOK'
    <3>1. usageLock' \in [Users -> Handlers \cup {None}]
      BY <1>0, <2>4 DEF TypeOK
    <3>2. slip' \in Slip
      BY <1>0, <1>8 DEF CreateWithinQuota, TypeOK, Slip, Overtaken
    <3> QED  BY <1>0, <1>8, <2>2, <2>3, <3>1, <3>2 DEF CreateWithinQuota, TypeOK, sweepers
  <2>6. ReqInv'
    BY <2>3 DEF ControlInv, ReqInv, Fits
  <2>7. LockHeld'
    <3>1. usageLock[r.user] = p /\ \A u \in Users : usageLock[u] = p => u = r.user
      BY <2>1 DEF ControlInv, LockHeld
    <3>2. ASSUME NEW q \in Handlers, q # p
          PROVE  /\ req'[q].pc = "insert" => usageLock'[req'[q].user] = q
                 /\ \A u \in Users : usageLock'[u] = q =>
                      req'[q].pc = "insert" /\ req'[q].user = u
      <4>1. req'[q] = req[q] /\ (req[q].pc = "insert" => req[q].user \in Users)
        BY <2>3, <3>2 DEF ControlInv, ReqInv, Fits
      <4> QED  BY <1>0, <2>1, <2>4, <3>1, <3>2, <4>1, NoneIsNoContent
               DEF ControlInv, LockHeld, TypeOK
    <3>3. \A u \in Users : usageLock'[u] # p
      BY <1>0, <2>1, <2>4, <3>1, NoneIsNoContent DEF TypeOK
    <3> QED  BY <2>3, <3>2, <3>3 DEF LockHeld
  <2>8. SessionInv'
    BY <1>8 DEF ControlInv, SessionInv, Held, CreateWithinQuota
  <2> QED  BY <2>5, <2>6, <2>7, <2>8 DEF ControlInv
<1>15. CASE CreateImage(p)
  <2>1. r.user \in Users /\ r.content \in Content /\ r.counted \in Content /\ r.key \in Keys
        /\ r.pc = "record"
    BY <1>0, <1>15 DEF CreateImage, Fits
  <2>2. row' \in [Keys -> Row]
    BY <1>0, <1>15, <2>1, PutEffect DEF CreateImage, TypeOK
  <2>3. req' \in [Handlers -> Req]
    BY <1>0, <1>15, DoneEffect DEF CreateImage, TypeOK
  <2>4. slip' \in Slip
    BY <1>0, <1>15, <2>1 DEF CreateImage, TypeOK, Slip, Overtaken
  <2>5. TypeOK'
    BY <1>0, <1>15, <2>2, <2>3, <2>4 DEF CreateImage, TypeOK, sweepers
  <2> QED  BY <1>15, <1>d, <2>1, <2>5 DEF CreateImage
<1>9. CASE Discard(p)
  <2>1. req' \in [Handlers -> Req]
    BY <1>0, <1>9, DoneEffect DEF Discard, TypeOK
  <2>2. TypeOK'
    BY <1>0, <1>9, <2>1 DEF Discard, TypeOK, sweepers
  <2> QED  BY <1>9, <1>d, <2>2 DEF Discard
<1>10. CASE ClearChunks(p)
  <2>1. r.upload \in Uploads
    BY <1>0, <1>10 DEF ClearChunks, Fits
  <2>2. chunk' \in [Uploads -> [Chunks -> Payloads \cup {None}]]
    BY <1>0, <1>10, <2>1, DeletedChunks DEF ClearChunks, TypeOK
  <2>3. req' \in [Handlers -> Req]
    BY <1>0, <1>10, GoEffect DEF ClearChunks, TypeOK, Pc
  <2>4. TypeOK'
    BY <1>0, <1>10, <2>2, <2>3 DEF ClearChunks, TypeOK, sweepers
  <2> QED  BY <1>10, <1>g, <2>4 DEF ClearChunks, Fits, Pc
<1>11. CASE DeleteUploadSession(p)
  <2>1. r.upload \in Uploads
    BY <1>0, <1>11 DEF DeleteUploadSession, Fits
  <2>2. /\ session' \in [Uploads -> Session] /\ session'[r.upload].state = "gone"
        /\ \A s \in Uploads : s # r.upload => session'[s] = session[s]
    BY <1>0, <1>11, <2>1 DEF DeleteUploadSession, TypeOK, Session
  <2>3. req' \in [Handlers -> Req]
    BY <1>0, <1>11, DoneEffect DEF DeleteUploadSession, TypeOK
  <2>4. TypeOK'
    BY <1>0, <1>11, <2>2, <2>3 DEF DeleteUploadSession, TypeOK, sweepers
  <2>5. ReqInv' /\ LockHeld'
    <3>1. /\ req'[p] = NoReq /\ \A q \in Handlers : q # p => req'[q] = req[q]
      BY <1>0, <1>11, DoneEffect DEF DeleteUploadSession, TypeOK
    <3>2. ReqInv'
      BY <3>1, ReqTypes DEF ControlInv, ReqInv, Fits
    <3>3. LockHeld'
      BY <1>11, <3>1, ReqTypes DEF ControlInv, LockHeld, DeleteUploadSession
    <3> QED  BY <3>2, <3>3
  <2>6. SessionInv'
    BY <2>2 DEF ControlInv, SessionInv, Held
  <2> QED  BY <2>4, <2>5, <2>6 DEF ControlInv
<1>12. CASE RemoveObject(p)
  <2>1. req' \in [Handlers -> Req]
    BY <1>0, <1>12, GoEffect DEF RemoveObject, TypeOK, Pc
  <2>2. faults' \in 0..MaxFaults
    BY <1>0, <1>12, UploadsAssumption DEF RemoveObject, TypeOK
  <2>3. object' \in [Keys -> [Chunks -> Payloads \cup {None}] \cup {None}]
    BY <1>0, <1>12 DEF RemoveObject, TypeOK
  <2>4. TypeOK'
    BY <1>0, <1>12, <2>1, <2>2, <2>3 DEF RemoveObject, TypeOK, sweepers
  <2> QED  BY <1>12, <1>g, <2>4 DEF RemoveObject, Fits, Pc
<1>13. CASE RemoveRow(p)
  <2>1. req' \in [Handlers -> Req]
    BY <1>0, <1>13, DoneEffect DEF RemoveRow, TypeOK
  <2>2. row' \in [Keys -> Row]
    BY <1>0, <1>13, DropEffect DEF RemoveRow, TypeOK, Fits
  <2>3. TypeOK'
    BY <1>0, <1>13, <2>1, <2>2 DEF RemoveRow, TypeOK, sweepers
  <2> QED  BY <1>13, <1>d, <2>3 DEF RemoveRow
<1>14. CASE Link(p)
  <2>1. req' \in [Handlers -> Req]
    BY <1>0, <1>14, DoneEffect DEF Link, TypeOK
  <2>2. row' \in [Keys -> Row]
    <3>1. r.key \in Keys
      BY <1>0, <1>14 DEF Link, Fits
    <3>2. CASE UNCHANGED row
      BY <1>0, <3>2 DEF TypeOK
    <3>3. ASSUME NEW kind \in {"post", "burn"},
                 row' = [row EXCEPT ![r.key].links = row[r.key].links \cup {kind}]
          PROVE  row' \in [Keys -> Row]
      <4>1. PICK L \in SUBSET {"post", "burn"} : L = row[r.key].links \cup {kind}
        BY <1>0, <3>1 DEF TypeOK, Row
      <4> QED  BY <1>0, <3>1, <3>3, <4>1, LinksEffect DEF TypeOK
    <3> QED  BY <1>14, <3>2, <3>3 DEF Link
  <2>3. TypeOK'
    BY <1>0, <1>14, <2>1, <2>2 DEF Link, TypeOK, sweepers
  <2> QED  BY <1>14, <1>d, <2>3 DEF Link
<1> QED
  BY <1>1, <1>2, <1>3, <1>4, <1>5, <1>6, <1>7, <1>8, <1>9, <1>10, <1>11, <1>12, <1>13, <1>14,
     <1>15
  DEF Serve

(* A sweep, a view or a new session.                                        *)
LEMMA SweepControl ==
  ASSUME ControlInv,
         \/ \E s \in Uploads, u \in Users, size \in Declared : ChunkInit(s, u, size)
         \/ \E k \in Keys : Unlink(k) \/ ArmBurn(k) \/ BurnDeadline(k)
         \/ Burner \/ Recycler \/ Purger \/ SweepFails
  PROVE  ControlInv'
<1>0. TypeOK
  BY DEF ControlInv
<1>a. burner \in Sweep /\ recycler \in Sweep
  BY <1>0 DEF TypeOK
<1>b. burner.list \in SUBSET Keys /\ recycler.list \in SUBSET Keys
  BY <1>a, SweepHolds
<1>u. ASSUME UNCHANGED <<session, requests>>, TypeOK' PROVE ControlInv'
  <2>1. SessionInv'
    BY <1>u DEF ControlInv, SessionInv, Held
  <2> QED  BY <1>u, <2>1, NoRequest
<1>1. ASSUME NEW s \in Uploads, NEW u \in Users, NEW size \in Declared, ChunkInit(s, u, size)
      PROVE  ControlInv'
  <2>1. size \in Nat
    BY UploadsAssumption
  <2>2. session' \in [Uploads -> Session]
    BY <1>0, <1>1, <2>1 DEF ChunkInit, TypeOK, Session
  <2>3. TypeOK'
    BY <1>0, <1>1, <2>2 DEF ChunkInit, TypeOK, requests, sweepers
  <2>4. SessionInv'
    BY <1>0, <1>1 DEF ChunkInit, TypeOK, ControlInv, SessionInv, Held
  <2> QED  BY <1>1, <2>3, <2>4, NoRequest DEF ChunkInit
<1>2. ASSUME NEW k \in Keys, Unlink(k) PROVE ControlInv'
  <2>1. PICK L \in SUBSET {"post", "burn"} : L = row[k].links \ {"post"}
    BY <1>0 DEF TypeOK, Row
  <2>2. row' \in [Keys -> Row]
    BY <1>0, <1>2, <2>1, LinksEffect DEF Unlink, TypeOK
  <2>3. TypeOK'
    BY <1>0, <1>2, <2>2 DEF Unlink, TypeOK, requests, sweepers
  <2> QED  BY <1>2, <1>u, <2>3 DEF Unlink
<1>3. ASSUME NEW k \in Keys, NEW b \in {"armed", "due"}, Stamp(k, b) PROVE ControlInv'
  <2>1. row' \in [Keys -> Row]
    BY <1>0, <1>3, StampEffect DEF TypeOK
  <2>2. TypeOK'
    BY <1>0, <1>3, <2>1 DEF Stamp, TypeOK, requests, sweepers
  <2> QED  BY <1>3, <1>u, <2>2 DEF Stamp
(* The three sweeps keep what they list and delete in the store.            *)
<1>4. ASSUME UNCHANGED <<session, chunk, requests, purged, faults, slip, scope>>,
             burner' \in Sweep, recycler' \in Sweep,
             \/ UNCHANGED object
             \/ \E k \in Keys : object' = [object EXCEPT ![k] = None],
             UNCHANGED row \/ \E k \in Keys : DropRow(k)
      PROVE  ControlInv'
  <2>1. object' \in [Keys -> [Chunks -> Payloads \cup {None}] \cup {None}]
    BY <1>0, <1>4 DEF TypeOK
  <2>2. row' \in [Keys -> Row]
    BY <1>0, <1>4, DropEffect DEF TypeOK
  <2>3. TypeOK'
    BY <1>0, <1>4, <2>1, <2>2 DEF TypeOK, requests
  <2> QED  BY <1>4, <1>u, <2>3
<1>5. CASE Burner
  <2>1. ASSUME SweepDueBurnedAttachments PROVE ControlInv'
    <3>1. burner' \in Sweep
      BY <2>1, SweepTypes DEF SweepDueBurnedAttachments
    <3> QED  BY <1>4, <1>a, <2>1, <3>1 DEF SweepDueBurnedAttachments
  <2>2. ASSUME NEW k \in Keys, BurnObject(k) PROVE ControlInv'
    <3>1. burner' \in Sweep
      BY <1>b, <2>2, SweepTypes DEF BurnObject
    <3> QED  BY <1>4, <1>a, <2>2, <3>1 DEF BurnObject
  <2>3. ASSUME NEW k \in Keys, BurnRow(k) PROVE ControlInv'
    <3>1. burner' \in Sweep
      BY <1>b, <2>3, SweepTypes DEF BurnRow
    <3> QED  BY <1>4, <1>a, <2>3, <3>1 DEF BurnRow
  <2> QED  BY <1>5, <2>1, <2>2, <2>3 DEF Burner
<1>6. CASE Recycler
  <2>1. ASSUME ListRecyclableAttachments PROVE ControlInv'
    <3>1. PICK aged \in SUBSET (Keys \cap scope) :
            recycler' = Sweeping("running", {k \in aged : Live(k) /\ row[k].links = {}}, None)
      BY <2>1 DEF ListRecyclableAttachments
    <3>2. recycler' \in Sweep
      BY <3>1, SweepTypes, UploadsAssumption
    <3> QED  BY <1>4, <1>a, <2>1, <3>2 DEF ListRecyclableAttachments
  <2>2. ASSUME NEW k \in Keys, RecycleObject(k) PROVE ControlInv'
    <3>1. recycler' \in Sweep
      BY <1>b, <2>2, SweepTypes DEF RecycleObject
    <3> QED  BY <1>4, <1>a, <2>2, <3>1 DEF RecycleObject
  <2>3. ASSUME NEW k \in Keys, RecycleRow(k) PROVE ControlInv'
    <3>1. recycler' \in Sweep
      BY <1>b, <2>3, SweepTypes DEF RecycleRow
    <3> QED  BY <1>4, <1>a, <2>3, <3>1 DEF RecycleRow
  <2>4. ASSUME RecycleEnds PROVE ControlInv'
    <3>1. recycler' \in Sweep
      BY <2>4, SweepTypes DEF RecycleEnds
    <3> QED  BY <1>4, <1>a, <2>4, <3>1 DEF RecycleEnds
  <2> QED  BY <1>6, <2>1, <2>2, <2>3, <2>4 DEF Recycler
<1>7. ASSUME PurgeStaleUploadSessions PROVE ControlInv'
  <2>1. PICK stale \in SUBSET Uploads :
          /\ session' = [s \in Uploads |->
               IF s \in stale THEN [session[s] EXCEPT !.state = "gone"] ELSE session[s]]
          /\ purged' = stale
    BY <1>7 DEF PurgeStaleUploadSessions
  <2>2. session' \in [Uploads -> Session]
    BY <1>0, <2>1 DEF TypeOK, Session
  <2>3. TypeOK'
    BY <1>0, <1>7, <2>1, <2>2 DEF PurgeStaleUploadSessions, TypeOK, requests
  <2>4. SessionInv'
    <3>1. \A s \in Uploads : [session[s] EXCEPT !.state = "gone"].state = "gone"
      BY <1>0 DEF TypeOK, Session
    <3> QED  BY <2>1, <3>1 DEF ControlInv, SessionInv, Held
  <2> QED  BY <1>7, <2>3, <2>4, NoRequest DEF PurgeStaleUploadSessions
<1>8. ASSUME NEW s \in Uploads, DeleteStaleChunks(s) PROVE ControlInv'
  <2>1. chunk' \in [Uploads -> [Chunks -> Payloads \cup {None}]]
    BY <1>0, <1>8, DeletedChunks DEF DeleteStaleChunks, TypeOK
  <2>2. TypeOK'
    BY <1>0, <1>8, <2>1 DEF DeleteStaleChunks, TypeOK, requests
  <2> QED  BY <1>8, <1>u, <2>2 DEF DeleteStaleChunks
<1>9. ASSUME SweepFails PROVE ControlInv'
  <2>1. burner' \in Sweep /\ recycler' \in Sweep
    <3>1. \A k : /\ Sweeping("running", burner.list, None) \in Sweep
                /\ Sweeping("running", burner.list \ {k}, None) \in Sweep
                /\ Sweeping("running", recycler.list, None) \in Sweep
                /\ Sweeping("running", recycler.list \ {k}, None) \in Sweep
      BY <1>b, SweepTypes
    <3> QED  BY <1>a, <1>9, <3>1 DEF SweepFails
  <2>2. faults' \in 0..MaxFaults
    BY <1>0, <1>9, UploadsAssumption DEF SweepFails, TypeOK
  <2>3. TypeOK'
    BY <1>0, <1>9, <2>1, <2>2 DEF SweepFails, TypeOK, requests
  <2> QED  BY <1>9, <1>u, <2>3 DEF SweepFails
<1>10. ASSUME NEW k \in Keys, ArmBurn(k) \/ BurnDeadline(k) PROVE ControlInv'
  BY <1>3, <1>10 DEF ArmBurn, BurnDeadline
<1> QED
  BY <1>1, <1>2, <1>5, <1>6, <1>7, <1>8, <1>9, <1>10 DEF Purger

LEMMA ControlStep == ASSUME ControlInv, [Next]_vars PROVE ControlInv'
<1>1. CASE UNCHANGED vars
  <2>1. UNCHANGED <<session, chunk, object, row, req, usageLock, purged, burner, recycler, faults, slip, scope>>
    BY <1>1 DEF vars, requests, sweepers
  <2>2. TypeOK'
    BY <2>1 DEF ControlInv, TypeOK
  <2>3. SessionInv'
    BY <2>1 DEF ControlInv, SessionInv, Held
  <2> QED  BY <2>1, <2>2, <2>3, NoRequest DEF requests
<1>2. CASE Next
  BY <1>2, ArriveControl, ServeControl, FaultControl, RestartControl, SweepControl DEF Next
<1> QED
  BY <1>1, <1>2

----------------------------------------------------------------------------
(* A row that once was there is never "none" again.                         *)
Lasting == \A k \in Keys : row[k].state # "none" => row'[k].state # "none"

LEMMA SweptStays ==
  ASSUME ControlInv, StoreInv, Lasting, UNCHANGED <<burner, recycler>>
  PROVE  Swept(burner)' /\ Swept(recycler)'
<1>1. /\ burner.list \in SUBSET Keys /\ burner.deleting \in Keys \cup {None}
      /\ recycler.list \in SUBSET Keys /\ recycler.deleting \in Keys \cup {None}
  BY SweepHolds DEF ControlInv, TypeOK
<1> QED  BY <1>1 DEF StoreInv, Swept, Lasting

(* p moves, and stores, deletes and links nothing.                          *)
LEMMA MoveStore ==
  ASSUME NEW p \in Handlers, ControlInv, StoreInv,
         \A q \in Handlers : q # p => req'[q] = req[q],
         UNCHANGED <<object, row, burner, recycler>>, faults > 0 => faults' > 0,
         Unrecorded(p)' => /\ Unrecorded(p)
                           /\ req'[p].key = req[p].key /\ req'[p].content = req[p].content,
         Named(p)',
         req[p].pc = "row" => faults' > 0
  PROVE  StoreInv'
<1>1. Lasting
  BY DEF Lasting
<1>2. \A k \in Keys : Sound(k)'
  BY DEF StoreInv, Sound, Live
<1>3. \A q \in Handlers, k \in Keys : Owns(q, k)'
  BY DEF StoreInv, Owns, Unrecorded
<1>4. \A q, t \in Handlers : OwnsAlone(q, t)'
  BY DEF StoreInv, OwnsAlone, Unrecorded
<1>5. \A q \in Handlers : Named(q)'
  BY DEF StoreInv, Named
<1>6. RowsHaveObjects'
  BY DEF StoreInv, RowsHaveObjects, Live
<1> QED
  BY <1>1, <1>2, <1>3, <1>4, <1>5, <1>6, SweptStays DEF StoreInv

LEMMA ArriveStore ==
  ASSUME NEW p \in Handlers, ControlInv, StoreInv, Arrive(p) PROVE StoreInv'
<1>0. TypeOK
  BY DEF ControlInv
<1>1. ASSUME NEW r, req[p].pc = "idle", req' = [req EXCEPT ![p] = r],
             ~(r.key # None /\ r.pc \in {"hash", "sum", "insert", "record", "discard"}),
             r.pc \in {"remove", "row", "link"} => row[r.key].state # "none",
             UNCHANGED <<object, row, sweepers, faults>>
      PROVE  StoreInv'
  <2>1. req'[p] = r /\ \A q \in Handlers : q # p => req'[q] = req[q]
    BY <1>0, <1>1 DEF TypeOK
  <2>2. Named(p)' /\ ~Unrecorded(p)'
    BY <1>1, <2>1 DEF Named, Unrecorded
  <2>3. UNCHANGED <<burner, recycler>>
    BY <1>1 DEF sweepers
  <2> QED  BY <1>1, <2>1, <2>2, <2>3, MoveStore
<1>2. ASSUME NEW u \in Users, NEW c \in Files, Upload(p, u, c) PROVE StoreInv'
  <2>1. PICK r : r = NewReq("hash", "upload", u, None, None, c, c)
    OBVIOUS
  <2>2. r.pc = "hash" /\ r.key = None
    BY <2>1, ReqTypes
  <2> QED  BY <1>1, <1>2, <2>1, <2>2 DEF Upload, Start
<1>7. ASSUME NEW u \in Users, NEW c \in Files, UploadImage(p, u, c) PROVE StoreInv'
  <2>1. PICK r : r = NewReq("store", "image", u, None, None, c, c)
    OBVIOUS
  <2>2. r.pc = "store"
    BY <2>1, ReqTypes
  <2> QED  BY <1>1, <1>7, <2>1, <2>2 DEF UploadImage, Start
<1>3. ASSUME NEW s \in Uploads, ChunkUpload(p, s) PROVE StoreInv'
  <2>1. PICK r : r = NewReq("put", "chunk", session[s].owner, s, None, None, None)
    OBVIOUS
  <2>2. r.pc = "put"
    BY <2>1, ReqTypes
  <2> QED  BY <1>1, <1>3, <2>1, <2>2 DEF ChunkUpload, Start
<1>4. ASSUME NEW s \in Uploads, ChunkComplete(p, s) PROVE StoreInv'
  <2>1. PICK r : r = NewReq("stat", "complete", session[s].owner, s, None, None, None)
    OBVIOUS
  <2>2. r.pc = "stat"
    BY <2>1, ReqTypes
  <2> QED  BY <1>1, <1>4, <2>1, <2>2 DEF ChunkComplete, Start
<1>5. ASSUME NEW k \in Keys, Delete(p, k) PROVE StoreInv'
  <2>1. PICK r : r = NewReq("remove", "delete", row[k].owner, None, k, None, None)
    OBVIOUS
  <2>2. r.pc = "remove" /\ r.key = k
    BY <2>1, ReqTypes
  <2> QED  BY <1>1, <1>5, <2>1, <2>2 DEF Delete, Start, Live
<1>6. ASSUME NEW k \in Keys, Attach(p, k) PROVE StoreInv'
  <2>1. PICK r : r = NewReq("link", "link", row[k].owner, None, k, None, None)
    OBVIOUS
  <2>2. r.pc = "link" /\ r.key = k
    BY <2>1, ReqTypes
  <2> QED  BY <1>1, <1>6, <2>1, <2>2 DEF Attach, Start, Live
<1> QED
  BY <1>2, <1>3, <1>4, <1>5, <1>6, <1>7 DEF Arrive

(* p stores c under a fresh key, of which nobody knows.                     *)
LEMMA FreshStore ==
  ASSUME NEW p \in Handlers, NEW k \in Keys, NEW c \in Content, ControlInv, StoreInv,
         Fresh(k), ~Unrecorded(p), req[p].pc # "row",
         \A q \in Handlers : q # p => req'[q] = req[q],
         req'[p].key = k, req'[p].content = c, req'[p].pc \in {"hash", "sum", "record"},
         object' = [object EXCEPT ![k] = c],
         UNCHANGED <<row, burner, recycler, faults, slip, scope>>
  PROVE  StoreInv'
<1>0. /\ object'[k] = c /\ \A j \in Keys : j # k => object'[j] = object[j]
      /\ row[k].state = "none" /\ \A q \in Handlers : req[q].key # k
  BY DEF ControlInv, TypeOK, Fresh
<1>1. Lasting
  BY DEF Lasting
<1>2. \A j \in Keys : Sound(j)'
  BY <1>0 DEF StoreInv, Sound, Live
<1>3. \A q \in Handlers, j \in Keys : Owns(q, j)'
  BY <1>0 DEF StoreInv, Owns, Unrecorded
<1>4. \A q, t \in Handlers : OwnsAlone(q, t)'
  BY <1>0 DEF StoreInv, OwnsAlone, Unrecorded
<1>5. \A q \in Handlers : Named(q)'
  BY DEF StoreInv, Named
<1>6. RowsHaveObjects'
  BY <1>0, NoneIsNoContent DEF StoreInv, RowsHaveObjects, Live
<1> QED
  BY <1>1, <1>2, <1>3, <1>4, <1>5, <1>6, SweptStays DEF StoreInv

(* The row of what p has stored is inserted.                                *)
LEMMA RecordStore ==
  ASSUME NEW p \in Handlers, ControlInv, StoreInv, req[p].pc \in {"insert", "record"},
         row' = [row EXCEPT ![req[p].key] =
                   NewRow(req[p].user, req[p].content, req[p].counted)],
         ~Unrecorded(p)', Named(p)', \A q \in Handlers : q # p => req'[q] = req[q],
         UNCHANGED <<object, burner, recycler, faults>>
  PROVE  StoreInv'
<1> DEFINE r == req[p]
<1>0. TypeOK
  BY DEF ControlInv
<1>1. r.key \in Keys /\ r.user \in Users /\ r.content \in Content /\ r.counted \in Content
  BY DEF ControlInv, ReqInv, Fits
<1>2. Unrecorded(p) /\ row[r.key].state = "none" /\ object[r.key] = r.content
  BY <1>1, NoneIsNoContent DEF StoreInv, Owns, Unrecorded
<1>3. /\ row'[r.key] = NewRow(r.user, r.content, r.counted)
      /\ row'[r.key].state = "live" /\ row'[r.key].sha256 = r.content
      /\ \A k \in Keys : k # r.key => row'[k] = row[k]
  BY <1>0, <1>1, PutEffect, RowTypes DEF TypeOK
<1>4. Lasting
  BY <1>3 DEF Lasting
<1>5. \A k \in Keys : Sound(k)'
  BY <1>1, <1>2, <1>3 DEF StoreInv, Sound, Live
<1>6. \A q \in Handlers, k \in Keys : Owns(q, k)'
  <2>1. \A q \in Handlers : Unrecorded(q) /\ req[q].key = r.key => q = p
    BY <1>2 DEF StoreInv, OwnsAlone
  <2> QED  BY <1>3, <2>1 DEF StoreInv, Owns, Unrecorded
<1>7. \A q, t \in Handlers : OwnsAlone(q, t)'
  BY DEF StoreInv, OwnsAlone, Unrecorded
<1>8. \A q \in Handlers : Named(q)'
  BY <1>3, <1>4 DEF StoreInv, Named, Lasting, ControlInv, ReqInv, Fits
<1>9. RowsHaveObjects'
  <2>1. r.content # None
    BY <1>1, NoneIsNoContent
  <2> QED  BY <1>1, <1>2, <1>3, <2>1 DEF StoreInv, RowsHaveObjects, Live
<1> QED  BY <1>4, <1>5, <1>6, <1>7, <1>8, <1>9, SweptStays DEF StoreInv

LEMMA ServeStore ==
  ASSUME NEW p \in Handlers, ControlInv, StoreInv, Serve(p) PROVE StoreInv'
<1> DEFINE r == req[p]
<1>0. TypeOK /\ r \in Req /\ Fits(r) /\ Named(p)
  BY DEF ControlInv, TypeOK, ReqInv, StoreInv
<1>d. ASSUME Done(p), UNCHANGED <<object, row, burner, recycler, faults>>, r.pc # "row"
      PROVE  StoreInv'
  <2>1. req'[p] = NoReq /\ \A q \in Handlers : q # p => req'[q] = req[q]
    BY <1>0, <1>d, DoneEffect DEF TypeOK
  <2>2. Named(p)' /\ ~Unrecorded(p)'
    BY <2>1, ReqTypes DEF Named, Unrecorded
  <2> QED  BY <1>d, <2>1, <2>2, MoveStore
<1>g. ASSUME NEW pc \in Pc, Go(p, pc), UNCHANGED <<object, row, burner, recycler, faults>>,
             r.pc # "row", pc \notin {"remove", "row", "link"},
             pc \in {"sum", "insert", "discard"} =>
               r.pc \in {"hash", "sum", "insert", "discard"},
             pc \notin {"hash", "record"}
      PROVE  StoreInv'
  <2>1. /\ req'[p].pc = pc /\ req'[p].key = r.key /\ req'[p].content = r.content
        /\ \A q \in Handlers : q # p => req'[q] = req[q]
    BY <1>0, <1>g, GoEffect DEF TypeOK
  <2>2. Named(p)'
    BY <1>g, <2>1 DEF Named
  <2>3. Unrecorded(p)' => Unrecorded(p)
    BY <1>g, <2>1 DEF Unrecorded
  <2> QED  BY <1>g, <2>1, <2>2, <2>3, MoveStore
<1>1. CASE UploadChunk(p)
  BY <1>1, <1>d DEF UploadChunk, sweepers
<1>2. CASE StatChunks(p)
  <2>1. CASE Done(p)
    BY <1>2, <1>d, <2>1 DEF StatChunks, sweepers
  <2>2. CASE ~Done(p)
    <3>1. \E pc \in {"clear", "quota"} :
            req' = [req EXCEPT ![p] = NewReq(pc, "complete", r.user, r.upload, None, None,
                                             chunk[r.upload])]
      BY <1>2, <2>2 DEF StatChunks
    <3>2. /\ req'[p].pc \in {"clear", "quota"} /\ \A q \in Handlers : q # p => req'[q] = req[q]
      BY <1>0, <3>1, ReqTypes DEF TypeOK
    <3>3. Named(p)' /\ ~Unrecorded(p)'
      BY <3>2 DEF Named, Unrecorded
    <3> QED  BY <1>2, <3>2, <3>3, MoveStore DEF StatChunks, sweepers
  <2> QED  BY <2>1, <2>2
<1>3. CASE CheckQuotaForActualBytes(p)
  <2>1. PICK pc \in {"assemble", "clear"} : Go(p, pc)
    BY <1>3 DEF CheckQuotaForActualBytes
  <2> QED  BY <1>3, <1>g, <2>1 DEF CheckQuotaForActualBytes, sweepers, Pc
<1>4. CASE AssembleChunks(p)
  <2>1. CASE Done(p) /\ UNCHANGED object
    BY <1>4, <1>d, <2>1 DEF AssembleChunks, sweepers
  <2>2. CASE ~(Done(p) /\ UNCHANGED object)
    <3>1. r.upload \in Uploads
      BY <1>0, <1>4 DEF AssembleChunks, Fits
    <3>2. chunk[r.upload] \in Content
      BY <1>0, <1>4, <2>2, <3>1, WholeFile DEF AssembleChunks, MayAssemble, TypeOK
    <3>3. PICK k \in Keys :
            /\ Fresh(k) /\ object' = [object EXCEPT ![k] = chunk[r.upload]]
            /\ req' = [req EXCEPT ![p] = NewReq("hash", "complete", r.user, r.upload, k,
                                                chunk[r.upload], r.counted)]
      BY <1>4, <2>2 DEF AssembleChunks
    <3>4. /\ req'[p].pc = "hash" /\ req'[p].key = k /\ req'[p].content = chunk[r.upload]
          /\ \A q \in Handlers : q # p => req'[q] = req[q]
      BY <1>0, <3>3, ReqTypes DEF TypeOK
    <3> QED  BY <1>4, <3>2, <3>3, <3>4, FreshStore DEF AssembleChunks, sweepers, Unrecorded
  <2> QED  BY <2>1, <2>2
<1>5. CASE GetByHash(p)
  <2>1. CASE Done(p)
    BY <1>5, <1>d, <2>1 DEF GetByHash, sweepers
  <2>2. CASE ~Done(p)
    <3>1. PICK pc \in {"store", "sum"} : Go(p, pc)
      BY <1>5, <2>2 DEF GetByHash
    <3> QED  BY <1>5, <1>g, <3>1 DEF GetByHash, sweepers, Pc
  <2> QED  BY <2>1, <2>2
<1>6. CASE StoreUpload(p)
  <2>1. r.content \in Content
    BY <1>0, <1>6 DEF StoreUpload, Fits
  <2>2. PICK k \in Keys, pc \in {"sum", "record"} :
          /\ Fresh(k) /\ object' = [object EXCEPT ![k] = r.content]
          /\ req' = [req EXCEPT ![p] = NewReq(pc, r.op, r.user, None, k, r.content, r.counted)]
    BY <1>6 DEF StoreUpload
  <2>3. /\ req'[p].pc \in {"sum", "record"} /\ req'[p].key = k /\ req'[p].content = r.content
        /\ \A q \in Handlers : q # p => req'[q] = req[q]
    BY <1>0, <2>2, ReqTypes DEF TypeOK
  <2> QED  BY <1>6, <2>1, <2>2, <2>3, FreshStore DEF StoreUpload, sweepers, Unrecorded
<1>7. CASE LockUserUsage(p)
  <2>1. PICK pc \in {"insert", "discard"} : Go(p, pc)
    BY <1>7 DEF LockUserUsage
  <2> QED  BY <1>7, <1>g, <2>1 DEF LockUserUsage, sweepers, Pc
<1>10. CASE ClearChunks(p)
  BY <1>10, <1>g DEF ClearChunks, sweepers, Pc
<1>11. CASE DeleteUploadSession(p)
  BY <1>11, <1>d DEF DeleteUploadSession, sweepers
<1>8. CASE CreateWithinQuota(p)
  <2>1. r.pc = "insert"
    BY <1>8 DEF CreateWithinQuota
  <2>2. ~Unrecorded(p)' /\ Named(p)' /\ \A q \in Handlers : q # p => req'[q] = req[q]
    <3>1. CASE Done(p)
      <4>1. req'[p] = NoReq /\ \A q \in Handlers : q # p => req'[q] = req[q]
        BY <1>0, <3>1, DoneEffect DEF TypeOK
      <4> QED  BY <4>1, ReqTypes DEF Unrecorded, Named
    <3>2. CASE Go(p, "clear")
      <4>1. req'[p].pc = "clear" /\ \A q \in Handlers : q # p => req'[q] = req[q]
        BY <1>0, <3>2, GoEffect DEF TypeOK, Pc
      <4> QED  BY <4>1 DEF Unrecorded, Named
    <3> QED  BY <1>8, <3>1, <3>2 DEF CreateWithinQuota
  <2>3. UNCHANGED <<object, burner, recycler, faults>>
    BY <1>8 DEF CreateWithinQuota, sweepers
  <2> QED  BY <1>8, <2>1, <2>2, <2>3, RecordStore DEF CreateWithinQuota
<1>15. CASE CreateImage(p)
  <2>1. r.pc = "record"
    BY <1>15 DEF CreateImage
  <2>2. req'[p] = NoReq /\ \A q \in Handlers : q # p => req'[q] = req[q]
    BY <1>0, <1>15, DoneEffect DEF TypeOK, CreateImage
  <2>3. ~Unrecorded(p)' /\ Named(p)'
    BY <2>2, ReqTypes DEF Unrecorded, Named
  <2>4. UNCHANGED <<object, burner, recycler, faults>>
    BY <1>15 DEF CreateImage, sweepers
  <2> QED  BY <1>15, <2>1, <2>2, <2>3, <2>4, RecordStore DEF CreateImage
<1>9. CASE Discard(p)
  <2>1. r.pc = "discard" /\ r.key \in Keys
    BY <1>0, <1>9 DEF Discard, Fits
  <2>2. Unrecorded(p) /\ row[r.key].state = "none"
    BY <2>1, NoneIsNoContent DEF StoreInv, Owns, Unrecorded
  <2>3. ~Unrecorded(p)' /\ Named(p)' /\ \A q \in Handlers : q # p => req'[q] = req[q]
    <3>1. req'[p] = NoReq /\ \A q \in Handlers : q # p => req'[q] = req[q]
      BY <1>0, <1>9, DoneEffect DEF TypeOK, Discard
    <3> QED  BY <3>1, ReqTypes DEF Unrecorded, Named
  <2>4. /\ UNCHANGED <<row, burner, recycler, faults>> /\ object'[r.key] = None
        /\ \A k \in Keys : k # r.key => object'[k] = object[k]
    BY <1>0, <1>9, <2>1 DEF Discard, sweepers, TypeOK
  <2>5. Lasting
    BY <2>4 DEF Lasting
  <2>6. \A k \in Keys : Sound(k)'
    BY <2>4 DEF StoreInv, Sound, Live
  <2>7. \A q \in Handlers, k \in Keys : Owns(q, k)'
    <3>1. \A q \in Handlers : Unrecorded(q) /\ req[q].key = r.key => q = p
      BY <2>2 DEF StoreInv, OwnsAlone
    <3> QED  BY <2>3, <2>4, <3>1 DEF StoreInv, Owns, Unrecorded
  <2>8. \A q, t \in Handlers : OwnsAlone(q, t)'
    BY <2>3 DEF StoreInv, OwnsAlone, Unrecorded
  <2>9. \A q \in Handlers : Named(q)'
    BY <2>3, <2>4 DEF StoreInv, Named
  <2>10. RowsHaveObjects'
    BY <2>1, <2>2, <2>3, <2>4 DEF StoreInv, RowsHaveObjects, Live
  <2> QED  BY <2>4, <2>5, <2>6, <2>7, <2>8, <2>9, <2>10, SweptStays DEF StoreInv
<1>12. CASE RemoveObject(p)
  <2>1. r.pc = "remove" /\ r.key \in Keys /\ row[r.key].state # "none"
    BY <1>0, <1>12 DEF RemoveObject, Fits, Named
  <2>2. /\ req'[p].pc = "row" /\ req'[p].key = r.key
        /\ \A q \in Handlers : q # p => req'[q] = req[q]
    BY <1>0, <1>12, GoEffect DEF TypeOK, Pc, RemoveObject
  <2>3. /\ UNCHANGED <<row, burner, recycler>>
        /\ \/ object' = [object EXCEPT ![r.key] = None] /\ UNCHANGED faults
           \/ UNCHANGED object /\ faults' = faults + 1
    BY <1>12 DEF RemoveObject, sweepers
  <2>4. /\ object'[r.key] \in {object[r.key], None} /\ (faults > 0 => faults' > 0)
        /\ \A k \in Keys : k # r.key => object'[k] = object[k]
    BY <1>0, <2>1, <2>3, UploadsAssumption DEF TypeOK
  <2>5. Lasting
    BY <2>3 DEF Lasting
  <2>6. \A k \in Keys : Sound(k)'
    BY <2>3, <2>4 DEF StoreInv, Sound, Live
  <2>7. \A q \in Handlers, k \in Keys : Owns(q, k)'
    BY <2>1, <2>2, <2>3, <2>4 DEF StoreInv, Owns, Unrecorded
  <2>8. \A q, t \in Handlers : OwnsAlone(q, t)'
    BY <2>2 DEF StoreInv, OwnsAlone, Unrecorded
  <2>9. \A q \in Handlers : Named(q)'
    BY <2>1, <2>2, <2>3 DEF StoreInv, Named
  <2>10. RowsHaveObjects'
    BY <2>1, <2>2, <2>3, <2>4 DEF StoreInv, RowsHaveObjects, Live
  <2> QED  BY <2>3, <2>5, <2>6, <2>7, <2>8, <2>9, <2>10, SweptStays DEF StoreInv
<1>13. CASE RemoveRow(p)
  <2>1. r.pc = "row" /\ r.key \in Keys /\ row[r.key].state # "none"
    BY <1>0, <1>13 DEF RemoveRow, Fits, Named
  <2>2. ~Unrecorded(p)' /\ Named(p)' /\ \A q \in Handlers : q # p => req'[q] = req[q]
    <3>1. req'[p] = NoReq /\ \A q \in Handlers : q # p => req'[q] = req[q]
      BY <1>0, <1>13, DoneEffect DEF TypeOK, RemoveRow
    <3> QED  BY <3>1, ReqTypes DEF Unrecorded, Named
  <2>3. /\ row'[r.key].state = "gone" /\ row'[r.key].burn = "no"
        /\ \A k \in Keys : k # r.key => row'[k] = row[k]
    BY <1>0, <1>13, <2>1, DropEffect, RowTypes DEF RemoveRow, TypeOK
  <2>4. UNCHANGED <<object, burner, recycler, faults, slip, scope>>
    BY <1>13 DEF RemoveRow, sweepers
  <2>5. Lasting
    BY <2>3 DEF Lasting
  <2>6. \A k \in Keys : Sound(k)'
    BY <2>3, <2>4 DEF StoreInv, Sound, Live
  <2>7. \A q \in Handlers, k \in Keys : Owns(q, k)'
    BY <2>1, <2>2, <2>3, <2>4 DEF StoreInv, Owns, Unrecorded
  <2>8. \A q, t \in Handlers : OwnsAlone(q, t)'
    BY <2>2 DEF StoreInv, OwnsAlone, Unrecorded
  <2>9. \A q \in Handlers : Named(q)'
    BY <2>2, <2>3, <2>5 DEF StoreInv, Named, Lasting, ControlInv, ReqInv, Fits
  <2>10. RowsHaveObjects'
    BY <2>1, <2>2, <2>3, <2>4 DEF StoreInv, RowsHaveObjects, Live
  <2> QED  BY <2>4, <2>5, <2>6, <2>7, <2>8, <2>9, <2>10, SweptStays DEF StoreInv
<1>14. CASE Link(p)
  <2>1. r.pc = "link" /\ r.key \in Keys
    BY <1>0, <1>14 DEF Link, Fits
  <2>2. ~Unrecorded(p)' /\ Named(p)' /\ \A q \in Handlers : q # p => req'[q] = req[q]
    <3>1. req'[p] = NoReq /\ \A q \in Handlers : q # p => req'[q] = req[q]
      BY <1>0, <1>14, DoneEffect DEF TypeOK, Link
    <3> QED  BY <3>1, ReqTypes DEF Unrecorded, Named
  <2>3. \A k \in Keys : /\ row'[k].state = row[k].state /\ row'[k].sha256 = row[k].sha256
                       /\ row'[k].burn = row[k].burn
    <3>1. ASSUME NEW kind \in {"post", "burn"},
                 row' = [row EXCEPT ![r.key].links = row[r.key].links \cup {kind}]
          PROVE  \A k \in Keys :
                   /\ row'[k].state = row[k].state /\ row'[k].sha256 = row[k].sha256
                   /\ row'[k].burn = row[k].burn
      <4>1. PICK L \in SUBSET {"post", "burn"} : L = row[r.key].links \cup {kind}
        BY <1>0, <2>1 DEF TypeOK, Row
      <4> QED  BY <1>0, <2>1, <3>1, <4>1, LinksEffect DEF TypeOK
    <3> QED  BY <1>14, <3>1 DEF Link
  <2>4. UNCHANGED <<object, burner, recycler, faults, slip, scope>>
    BY <1>14 DEF Link, sweepers
  <2>5. Lasting
    BY <2>3 DEF Lasting
  <2>6. \A k \in Keys : Sound(k)'
    BY <2>3, <2>4 DEF StoreInv, Sound, Live
  <2>7. \A q \in Handlers, k \in Keys : Owns(q, k)'
    BY <2>2, <2>3, <2>4 DEF StoreInv, Owns, Unrecorded
  <2>8. \A q, t \in Handlers : OwnsAlone(q, t)'
    BY <2>2 DEF StoreInv, OwnsAlone, Unrecorded
  <2>9. \A q \in Handlers : Named(q)'
    BY <2>2, <2>3, <2>5 DEF StoreInv, Named, Lasting, ControlInv, ReqInv, Fits
  <2>10. RowsHaveObjects'
    BY <2>1, <2>2, <2>3, <2>4 DEF StoreInv, RowsHaveObjects, Live
  <2> QED  BY <2>4, <2>5, <2>6, <2>7, <2>8, <2>9, <2>10, SweptStays DEF StoreInv
<1> QED
  BY <1>1, <1>2, <1>3, <1>4, <1>5, <1>6, <1>7, <1>8, <1>9, <1>10, <1>11, <1>12, <1>13, <1>14,
     <1>15
  DEF Serve

LEMMA FaultStore ==
  ASSUME NEW p \in Handlers, ControlInv, StoreInv, Fault(p) PROVE StoreInv'
<1>0. TypeOK
  BY DEF ControlInv
<1>1. req'[p] = NoReq /\ \A q \in Handlers : q # p => req'[q] = req[q]
  BY <1>0, DoneEffect DEF Fault, TypeOK
<1>2. Named(p)' /\ ~Unrecorded(p)'
  BY <1>1, ReqTypes DEF Named, Unrecorded
<1>3. (faults > 0 => faults' > 0) /\ (req[p].pc = "row" => faults' > 0)
  BY <1>0, UploadsAssumption DEF Fault, TypeOK
<1> QED  BY <1>1, <1>2, <1>3, MoveStore DEF Fault, sweepers

(* A call of a sweep has failed, or the service: nothing is promised of     *)
(* what the rows' objects are any more, except that nothing is mixed up.    *)
LEMMA FailedStore ==
  ASSUME ControlInv, StoreInv, SweepFails \/ Restart PROVE StoreInv'
<1>0. TypeOK
  BY DEF ControlInv
<1>1. faults' > 0 /\ UNCHANGED <<object, row>>
  BY <1>0, UploadsAssumption DEF SweepFails, Restart, TypeOK
<1>2. \A q \in Handlers : req'[q] = req[q] \/ req'[q] = NoReq
  BY <1>0 DEF SweepFails, Restart, requests, TypeOK
<1>3. \A k \in Keys : Sound(k)'
  BY <1>1 DEF StoreInv, Sound, Live
<1>4. \A q \in Handlers, k \in Keys : Owns(q, k)'
  BY <1>1, <1>2, ReqTypes DEF StoreInv, Owns, Unrecorded
<1>5. \A q, t \in Handlers : OwnsAlone(q, t)'
  BY <1>2, ReqTypes DEF StoreInv, OwnsAlone, Unrecorded
<1>6. \A q \in Handlers : Named(q)'
  BY <1>1, <1>2, ReqTypes DEF StoreInv, Named
<1>7. RowsHaveObjects'
  BY <1>1 DEF RowsHaveObjects
<1>8. /\ burner'.list \subseteq burner.list /\ recycler'.list \subseteq recycler.list
      /\ burner'.deleting = None \/ UNCHANGED burner
      /\ recycler'.deleting = None \/ UNCHANGED recycler
  <2>1. CASE Restart
    BY <2>1, SweepTypes DEF Restart
  <2>2. CASE SweepFails
    <3>1. \A L : /\ Sweeping("running", L, None).list = L
                /\ Sweeping("running", L, None).deleting = None
      BY SweepTypes
    <3>2. \/ \E L \in SUBSET burner.list : burner' = Sweeping("running", L, None)
          \/ UNCHANGED burner
      BY <2>2 DEF SweepFails
    <3>3. \/ \E L \in SUBSET recycler.list : recycler' = Sweeping("running", L, None)
          \/ UNCHANGED recycler
      BY <2>2 DEF SweepFails
    <3> QED  BY <3>1, <3>2, <3>3
  <2> QED  BY <2>1, <2>2
<1>9. Swept(burner)' /\ Swept(recycler)'
  BY <1>1, <1>8 DEF StoreInv, Swept
<1> QED
  BY <1>3, <1>4, <1>5, <1>6, <1>7, <1>9 DEF StoreInv

(* Only what a row says of its links and its burning changes.               *)
LEMMA MarkStore ==
  ASSUME ControlInv, StoreInv, UNCHANGED <<object, requests, burner, recycler, faults>>,
         \A k \in Keys : /\ row'[k].state = row[k].state /\ row'[k].sha256 = row[k].sha256
                         /\ row'[k].burn # row[k].burn => Live(k)
  PROVE  StoreInv'
<1>0. UNCHANGED req
  BY DEF requests
<1>1. Lasting
  BY DEF Lasting
<1>2. \A k \in Keys : Sound(k)'
  BY DEF StoreInv, Sound, Live
<1>3. \A q \in Handlers, k \in Keys : Owns(q, k)'
  BY <1>0 DEF StoreInv, Owns, Unrecorded
<1>4. \A q, t \in Handlers : OwnsAlone(q, t)'
  BY <1>0 DEF StoreInv, OwnsAlone, Unrecorded
<1>5. \A q \in Handlers : Named(q)'
  BY <1>0, <1>1 DEF StoreInv, Named, Lasting, ControlInv, ReqInv, Fits
<1>6. RowsHaveObjects'
  BY <1>0 DEF StoreInv, RowsHaveObjects, Live
<1> QED
  BY <1>1, <1>2, <1>3, <1>4, <1>5, <1>6, SweptStays DEF StoreInv

(* A sweep deletes the object of k, and has yet to delete its row.          *)
LEMMA SweepObject ==
  ASSUME NEW k \in Keys, ControlInv, StoreInv, row[k].state # "none",
         object' = [object EXCEPT ![k] = None],
         UNCHANGED <<row, requests, faults>>, Swept(burner)', Swept(recycler)',
         \A j \in Keys : j \in {burner.deleting, recycler.deleting} =>
           j \in {burner'.deleting, recycler'.deleting},
         k \in {burner'.deleting, recycler'.deleting}
  PROVE  StoreInv'
<1>0. /\ UNCHANGED req /\ object'[k] = None
      /\ \A j \in Keys : j # k => object'[j] = object[j]
  BY DEF requests, ControlInv, TypeOK
<1>1. \A j \in Keys : Sound(j)'
  BY <1>0 DEF StoreInv, Sound, Live
<1>2. \A q \in Handlers, j \in Keys : Owns(q, j)'
  BY <1>0 DEF StoreInv, Owns, Unrecorded
<1>3. \A q, t \in Handlers : OwnsAlone(q, t)'
  BY <1>0 DEF StoreInv, OwnsAlone, Unrecorded
<1>4. \A q \in Handlers : Named(q)'
  BY <1>0 DEF StoreInv, Named
<1>5. RowsHaveObjects'
  BY <1>0 DEF StoreInv, RowsHaveObjects, Live
<1> QED
  BY <1>1, <1>2, <1>3, <1>4, <1>5 DEF StoreInv

(* A sweep deletes the row of k.                                            *)
LEMMA SweepRow ==
  ASSUME NEW k \in Keys, ControlInv, StoreInv, row[k].state # "none", DropRow(k),
         UNCHANGED <<object, requests, faults>>, Swept(burner)', Swept(recycler)',
         \A j \in Keys : j \in {burner.deleting, recycler.deleting} =>
           j = k \/ j \in {burner'.deleting, recycler'.deleting}
  PROVE  StoreInv'
<1>0. /\ UNCHANGED req /\ row'[k].state = "gone" /\ row'[k].burn = "no"
      /\ \A j \in Keys : j # k => row'[j] = row[j]
  BY DropEffect, RowTypes DEF requests, ControlInv, TypeOK
<1>1. \A j \in Keys : Sound(j)'
  BY <1>0 DEF StoreInv, Sound, Live
<1>2. \A q \in Handlers, j \in Keys : Owns(q, j)'
  BY <1>0 DEF StoreInv, Owns, Unrecorded
<1>3. \A q, t \in Handlers : OwnsAlone(q, t)'
  BY <1>0 DEF StoreInv, OwnsAlone, Unrecorded
<1>4. \A q \in Handlers : Named(q)'
  BY <1>0 DEF StoreInv, Named, ControlInv, ReqInv, Fits
<1>5. RowsHaveObjects'
  BY <1>0 DEF StoreInv, RowsHaveObjects, Live
<1> QED
  BY <1>1, <1>2, <1>3, <1>4, <1>5 DEF StoreInv

(* A sweep makes its list, or ends.                                         *)
LEMMA ListStore ==
  ASSUME ControlInv, StoreInv, UNCHANGED <<object, row, requests, faults>>,
         Swept(burner)', Swept(recycler)',
         UNCHANGED <<burner.deleting, recycler.deleting>>
  PROVE  StoreInv'
<1>0. UNCHANGED req
  BY DEF requests
<1>1. \A k \in Keys : Sound(k)'
  BY DEF StoreInv, Sound, Live
<1>2. \A q \in Handlers, k \in Keys : Owns(q, k)'
  BY <1>0 DEF StoreInv, Owns, Unrecorded
<1>3. \A q, t \in Handlers : OwnsAlone(q, t)'
  BY <1>0 DEF StoreInv, OwnsAlone, Unrecorded
<1>4. \A q \in Handlers : Named(q)'
  BY <1>0 DEF StoreInv, Named
<1>5. RowsHaveObjects'
  BY <1>0 DEF StoreInv, RowsHaveObjects, Live
<1> QED
  BY <1>1, <1>2, <1>3, <1>4, <1>5 DEF StoreInv

LEMMA SweepStore ==
  ASSUME ControlInv, StoreInv, Burner \/ Recycler PROVE StoreInv'
<1>0. TypeOK /\ Swept(burner) /\ Swept(recycler)
  BY DEF ControlInv, StoreInv
<1>a. \A st, L, k : /\ Sweeping(st, L, k).list = L /\ Sweeping(st, L, k).deleting = k
                   /\ Sweeping(st, L, k).state = st
  BY SweepTypes
<1>b. None \notin Keys
  BY NoneIsNoContent
<1>1. ASSUME SweepDueBurnedAttachments PROVE StoreInv'
  <2>1. /\ burner'.deleting = burner.deleting /\ burner'.deleting = None
        /\ \A k \in burner'.list : row'[k].state = "live"
    BY <1>1, <1>a DEF SweepDueBurnedAttachments, DueForBurn, Burnable, Live
  <2>2. Swept(burner)' /\ Swept(recycler)'
    BY <1>0, <1>1, <2>1 DEF SweepDueBurnedAttachments, Swept
  <2> QED  BY <1>1, <2>1, <2>2, ListStore DEF SweepDueBurnedAttachments
<1>2. ASSUME NEW k \in Keys, BurnObject(k) PROVE StoreInv'
  <2>1. /\ burner'.deleting = k /\ burner'.state = "running"
        /\ burner'.list \subseteq burner.list
        /\ row[k].state # "none" /\ burner.deleting = None
    BY <1>0, <1>2, <1>a DEF BurnObject, Swept
  <2>2. Swept(burner)' /\ Swept(recycler)'
    BY <1>0, <1>2, <2>1 DEF BurnObject, Swept
  <2> QED  BY <1>2, <1>b, <2>1, <2>2, SweepObject DEF BurnObject
<1>3. ASSUME NEW k \in Keys, BurnRow(k) PROVE StoreInv'
  <2>1. /\ burner'.deleting = None /\ burner'.list = burner.list /\ burner.deleting = k
        /\ row[k].state # "none"
    BY <1>0, <1>3, <1>a, <1>b DEF BurnRow, Swept
  <2>2. Swept(burner)' /\ Swept(recycler)'
    <3>1. \A j : row[j].state # "none" /\ j \in Keys => row'[j].state # "none"
      BY <1>0, <1>3, DropEffect, RowTypes DEF BurnRow, TypeOK
    <3>2. /\ burner.list \in SUBSET Keys /\ recycler.list \in SUBSET Keys
          /\ recycler.deleting \in Keys \cup {None}
      BY <1>0, SweepHolds DEF TypeOK
    <3> QED  BY <1>0, <1>3, <2>1, <3>1, <3>2 DEF BurnRow, Swept
  <2> QED  BY <1>3, <2>1, <2>2, SweepRow DEF BurnRow
<1>4. ASSUME ListRecyclableAttachments PROVE StoreInv'
  <2>1. PICK aged \in SUBSET (Keys \cap scope) :
          recycler' = Sweeping("running", {k \in aged : Live(k) /\ row[k].links = {}}, None)
    BY <1>4 DEF ListRecyclableAttachments
  <2>2. /\ recycler'.deleting = None
        /\ \A k \in recycler'.list : row'[k].state = "live"
    BY <1>4, <2>1, <1>a DEF ListRecyclableAttachments, Live
  <2>3. Swept(burner)' /\ Swept(recycler)'
    BY <1>0, <1>4, <2>2 DEF ListRecyclableAttachments, Swept
  <2>4. recycler.deleting = None
    BY <1>0, <1>4 DEF ListRecyclableAttachments, Swept
  <2> QED  BY <1>4, <2>2, <2>3, <2>4, ListStore DEF ListRecyclableAttachments
<1>5. ASSUME NEW k \in Keys, RecycleObject(k) PROVE StoreInv'
  <2>1. /\ recycler'.deleting = k /\ recycler'.state = "running"
        /\ recycler'.list \subseteq recycler.list
        /\ row[k].state # "none" /\ recycler.deleting = None
    BY <1>0, <1>5, <1>a DEF RecycleObject, Swept
  <2>2. Swept(burner)' /\ Swept(recycler)'
    BY <1>0, <1>5, <2>1 DEF RecycleObject, Swept
  <2> QED  BY <1>5, <1>b, <2>1, <2>2, SweepObject DEF RecycleObject
<1>6. ASSUME NEW k \in Keys, RecycleRow(k) PROVE StoreInv'
  <2>1. /\ recycler'.deleting = None /\ recycler'.list = recycler.list
        /\ recycler.deleting = k /\ row[k].state # "none"
    BY <1>0, <1>6, <1>a, <1>b DEF RecycleRow, Swept
  <2>2. Swept(burner)' /\ Swept(recycler)'
    <3>1. \A j : row[j].state # "none" /\ j \in Keys => row'[j].state # "none"
      BY <1>0, <1>6, DropEffect, RowTypes DEF RecycleRow, TypeOK
    <3>2. /\ burner.list \in SUBSET Keys /\ recycler.list \in SUBSET Keys
          /\ burner.deleting \in Keys \cup {None}
      BY <1>0, SweepHolds DEF TypeOK
    <3> QED  BY <1>0, <1>6, <2>1, <3>1, <3>2 DEF RecycleRow, Swept
  <2> QED  BY <1>6, <2>1, <2>2, SweepRow DEF RecycleRow
<1>7. ASSUME RecycleEnds PROVE StoreInv'
  <2>1. /\ recycler'.deleting = None /\ recycler'.list = {} /\ recycler.deleting = None
    BY <1>7, <1>a DEF RecycleEnds
  <2>2. Swept(burner)' /\ Swept(recycler)'
    BY <1>0, <1>7, <2>1 DEF RecycleEnds, Swept
  <2> QED  BY <1>7, <2>1, <2>2, ListStore DEF RecycleEnds
<1> QED
  BY <1>1, <1>2, <1>3, <1>4, <1>5, <1>6, <1>7 DEF Burner, Recycler

LEMMA StoreStep == ASSUME ControlInv, StoreInv, [Next]_vars PROVE StoreInv'
<1>1. CASE UNCHANGED <<object, row, requests, burner, recycler, faults, slip, scope>>
  BY <1>1, MarkStore
<1>2. ASSUME NEW k \in Keys, Unlink(k) PROVE StoreInv'
  <2>1. PICK L \in SUBSET {"post", "burn"} : L = row[k].links \ {"post"}
    BY DEF ControlInv, TypeOK, Row
  <2>2. \A j \in Keys : /\ row'[j].state = row[j].state /\ row'[j].sha256 = row[j].sha256
                       /\ row'[j].burn = row[j].burn
    BY <1>2, <2>1, LinksEffect DEF Unlink, ControlInv, TypeOK
  <2> QED  BY <1>2, <2>2, MarkStore DEF Unlink, sweepers
<1>3. ASSUME NEW k \in Keys, NEW b \in {"armed", "due"}, Stamp(k, b), Live(k) PROVE StoreInv'
  <2>1. \A j \in Keys : /\ row'[j].state = row[j].state /\ row'[j].sha256 = row[j].sha256
                       /\ row'[j].burn # row[j].burn => Live(j)
    BY <1>3, StampEffect DEF ControlInv, TypeOK
  <2> QED  BY <1>3, <2>1, MarkStore DEF Stamp, sweepers
<1>4. ASSUME NEW k \in Keys, ArmBurn(k) \/ BurnDeadline(k) PROVE StoreInv'
  <2>1. Live(k)
    BY <1>4 DEF ArmBurn, MayArm, BurnDeadline, StoreInv, Sound
  <2> QED  BY <1>3, <1>4, <2>1 DEF ArmBurn, BurnDeadline
<1>5. CASE UNCHANGED vars
  BY <1>1, <1>5 DEF vars, sweepers
<1>6. ASSUME NEW s \in Uploads, NEW u \in Users, NEW size \in Declared, ChunkInit(s, u, size)
      PROVE  StoreInv'
  BY <1>1, <1>6 DEF ChunkInit, sweepers
<1>7. CASE Purger
  BY <1>1, <1>7 DEF Purger, PurgeStaleUploadSessions, DeleteStaleChunks
<1>8. CASE Next
  BY <1>2, <1>4, <1>6, <1>7, <1>8, ArriveStore, ServeStore, FaultStore, FailedStore, SweepStore
  DEF Next
<1> QED
  BY <1>5, <1>8

----------------------------------------------------------------------------
LEMMA InvariantHolds == Spec => [](ControlInv /\ StoreInv)
<1>1. Init => ControlInv /\ StoreInv
  BY InitHolds
<1>2. (ControlInv /\ StoreInv) /\ [Next]_vars => (ControlInv /\ StoreInv)'
  BY ControlStep, StoreStep
<1> QED
  BY <1>1, <1>2, PTL DEF Spec

(* Every variable keeps its type: among others, a file is assembled only    *)
(* from chunks (AssembleChunks), and a row is of a file (CreateWithinQuota).*)
THEOREM TypeCorrect == Spec => []TypeOK
<1>1. ControlInv => TypeOK
  BY DEF ControlInv
<1> QED
  BY <1>1, InvariantHolds, PTL

(* Between the sum and the insert a request alone holds the lock of its     *)
(* user, whatever fails or restarts (LockUserUsage).                        *)
THEOREM LockKept == Spec => []LockHeld
<1>1. ControlInv => LockHeld
  BY DEF ControlInv
<1> QED
  BY <1>1, InvariantHolds, PTL

(* No file is stored with a gap or under a row of other bytes, nobody takes *)
(* back an object that has a row, and a row is without its object only      *)
(* while a deletion is under way or after a failure (ChunkComplete, Delete, *)
(* the sweeps).                                                             *)
THEOREM ObjectsHold == Spec => []ObjectInv
<1>1. ControlInv /\ StoreInv => ObjectInv
  <2> SUFFICES ASSUME ControlInv, StoreInv PROVE StoredInFull
    BY DEF ObjectInv, StoreInv
  <2> QED  BY DEF StoreInv, StoredInFull, Sound, Owns, OwnsAlone
<1> QED
  BY <1>1, InvariantHolds, PTL

----------------------------------------------------------------------------
(* What a step may do to the deadline of k.                                 *)
Stands(k) ==
    row[k].burn # "no" /\ row'[k].state = "live" =>
      /\ row'[k].burn # "no"
      /\ row[k].burn = "due" => row'[k].burn = "due"

LEMMA DeadlineKept ==
  ASSUME ControlInv, StoreInv, [Next]_vars, NEW k \in Keys PROVE Stands(k)
<1>0. TypeOK
  BY DEF ControlInv
<1>u. ASSUME UNCHANGED row PROVE Stands(k)
  BY <1>u DEF Stands
<1>d. ASSUME NEW j \in Keys, DropRow(j) PROVE Stands(k)
  BY <1>0, <1>d, DropEffect, RowTypes DEF TypeOK, Stands
<1>l. ASSUME NEW j \in Keys, NEW L \in SUBSET {"post", "burn"},
             row' = [row EXCEPT ![j].links = L]
      PROVE  Stands(k)
  BY <1>0, <1>l, LinksEffect DEF TypeOK, Stands
<1>1. ASSUME NEW p \in Handlers, Serve(p) PROVE Stands(k)
  <2>0. req[p] \in Req /\ Fits(req[p])
    BY DEF ControlInv, TypeOK, ReqInv
  <2>1. CASE CreateWithinQuota(p) \/ CreateImage(p)
    <3>1. /\ req[p].pc \in {"insert", "record"} /\ req[p].key \in Keys /\ req[p].user \in Users
          /\ req[p].content \in Content /\ req[p].counted \in Content
      BY <2>0, <2>1 DEF CreateWithinQuota, CreateImage, Fits
    <3>2. row[req[p].key].burn = "no"
      BY <3>1, NoneIsNoContent DEF StoreInv, Owns, Unrecorded, Sound, Live
    <3>3. \A j \in Keys : j # req[p].key => row'[j] = row[j]
      BY <1>0, <2>1, <3>1, PutEffect DEF CreateWithinQuota, CreateImage, TypeOK
    <3> QED  BY <3>2, <3>3 DEF Stands
  <2>2. CASE RemoveRow(p)
    BY <1>d, <2>0, <2>2 DEF RemoveRow, Fits
  <2>3. CASE Link(p)
    <3>1. req[p].key \in Keys
      BY <2>0, <2>3 DEF Link, Fits
    <3>2. ASSUME NEW kind \in {"post", "burn"},
                 row' = [row EXCEPT ![req[p].key].links = row[req[p].key].links \cup {kind}]
          PROVE  Stands(k)
      <4>1. PICK L \in SUBSET {"post", "burn"} : L = row[req[p].key].links \cup {kind}
        BY <1>0, <3>1 DEF TypeOK, Row
      <4> QED  BY <1>l, <3>1, <3>2, <4>1
    <3> QED  BY <1>u, <2>3, <3>2 DEF Link
  <2> QED
    BY <1>1, <1>u, <2>1, <2>2, <2>3
    DEF Serve, UploadChunk, StatChunks, CheckQuotaForActualBytes, AssembleChunks, GetByHash,
        StoreUpload, LockUserUsage, Discard, ClearChunks, DeleteUploadSession, RemoveObject
<1>2. ASSUME NEW j \in Keys, Unlink(j) PROVE Stands(k)
  <2>1. PICK L \in SUBSET {"post", "burn"} : L = row[j].links \ {"post"}
    BY <1>0 DEF TypeOK, Row
  <2> QED  BY <1>2, <1>l, <2>1 DEF Unlink
<1>3. ASSUME NEW j \in Keys, ArmBurn(j) PROVE Stands(k)
  BY <1>0, <1>3, StampEffect DEF ArmBurn, MayArm, TypeOK, Stands
<1>4. ASSUME NEW j \in Keys, BurnDeadline(j) PROVE Stands(k)
  BY <1>0, <1>4, StampEffect DEF BurnDeadline, TypeOK, Stands
<1>5. CASE Burner \/ Recycler \/ Purger \/ SweepFails \/ Restart
  BY <1>5, <1>u, <1>d
  DEF Burner, Recycler, Purger, SweepFails, Restart, SweepDueBurnedAttachments, BurnObject,
      BurnRow, ListRecyclableAttachments, RecycleObject, RecycleRow, RecycleEnds,
      PurgeStaleUploadSessions, DeleteStaleChunks
<1>6. ASSUME NEW p \in Handlers, Arrive(p) \/ Fault(p) PROVE Stands(k)
  BY <1>6, <1>u DEF Arrive, Upload, UploadImage, ChunkUpload, ChunkComplete, Delete, Attach, Fault
<1>7. ASSUME NEW s \in Uploads, NEW u \in Users, NEW size \in Declared, ChunkInit(s, u, size)
      PROVE  Stands(k)
  BY <1>7, <1>u DEF ChunkInit
<1>8. CASE UNCHANGED vars
  BY <1>8, <1>u DEF vars
<1> QED
  BY <1>1, <1>2, <1>3, <1>4, <1>5, <1>6, <1>7, <1>8 DEF Next

(* However often an attachment is viewed, linked, or viewed again after the *)
(* sweep has begun, its deadline is set once and stays (ArmBurn).           *)
THEOREM DeadlinesStand == Spec => DeadlineStands
<1>1. ControlInv /\ StoreInv /\ [Next]_vars
      => [\A k \in Keys : row[k].burn # "no" /\ row'[k].state = "live" =>
            /\ row'[k].burn # "no"
            /\ row[k].burn = "due" => row'[k].burn = "due"]_vars
  BY DeadlineKept DEF Stands
<1> QED
  BY <1>1, InvariantHolds, PTL DEF Spec, DeadlineStands

----------------------------------------------------------------------------
(* What u owns, and what each row weighs, when the rows are r.             *)
Owned(r, u) == {k \in Keys : r[k].owner = u}
Sizes(r) == [k \in Keys |-> Bytes(r[k].counted)]

(* A row that has an owner has been measured.                              *)
Measured(r) == \A k \in Keys : r[k].owner \in Users => r[k].counted \in Content

LEMMA BytesNat == ASSUME NEW c \in Content PROVE Bytes(c) \in Nat
<1> DEFINE f == [i \in Chunks |-> Weight[c[i]]]
<1>1. IsFiniteSet(Chunks) /\ DOMAIN f = Chunks
  BY UploadsAssumption
<1>2. \A i \in Chunks : f[i] \in Nat
  BY UploadsAssumption DEF Content
<1> HIDE DEF f
<1>3. SumFunctionOnSet(f, Chunks) \in Nat
  BY <1>1, <1>2, SumNat
<1> QED BY <1>1, <1>3 DEF Bytes, SumFunction, f

LEMMA OwnedFacts ==
    ASSUME NEW r, Measured(r), NEW u \in Users
    PROVE  /\ Owned(r, u) \subseteq Keys /\ IsFiniteSet(Owned(r, u))
           /\ \A k \in Owned(r, u) : Sizes(r)[k] \in Nat
           /\ SumFunctionOnSet(Sizes(r), Owned(r, u)) \in Nat
<1>1. Owned(r, u) \subseteq Keys /\ IsFiniteSet(Owned(r, u))
  BY UploadsAssumption, FS_Subset DEF Owned
<1>2. \A k \in Owned(r, u) : Sizes(r)[k] \in Nat
  BY BytesNat DEF Measured, Owned, Sizes
<1>3. SumFunctionOnSet(Sizes(r), Owned(r, u)) \in Nat
  BY <1>1, <1>2, SumNat
<1> QED BY <1>1, <1>2, <1>3

(* What u stores outside X, when the rows are r.                           *)
Weigh(r, u, X) == SumFunctionOnSet(Sizes(r), Owned(r, u) \ X)

LEMMA UsedIs ==
    ASSUME NEW u
    PROVE  /\ Used(u) = Weigh(row, u, {}) /\ Used(u)' = Weigh(row', u, {})
           /\ Kept(u) = Weigh(row, u, slip.file) /\ Kept(u)' = Weigh(row', u, slip'.file)
<1>1. /\ Owned(row, u) \ {} = OwnedBy(u) /\ Owned(row', u) \ {} = OwnedBy(u)'
      /\ Sizes(row) = [k \in Keys |-> Bytes(row[k].counted)]
      /\ Sizes(row') = [k \in Keys |-> Bytes(row[k].counted)]'
  BY DEF Sizes, Owned, OwnedBy
<1> QED BY <1>1 DEF Weigh, Used, Kept, Sizes, Owned, OwnedBy

LEMMA WeighNat ==
    ASSUME NEW r, Measured(r), NEW u \in Users, NEW X
    PROVE  /\ IsFiniteSet(Owned(r, u) \ X) /\ \A k \in Owned(r, u) \ X : Sizes(r)[k] \in Nat
           /\ Weigh(r, u, X) \in Nat
<1>1. IsFiniteSet(Owned(r, u) \ X) /\ \A k \in Owned(r, u) \ X : Sizes(r)[k] \in Nat
  BY OwnedFacts, FS_Subset
<1> QED BY <1>1, SumNat DEF Weigh

(* Fewer files weigh less.                                                 *)
LEMMA SumBelow ==
    ASSUME NEW S, IsFiniteSet(S), NEW f, \A x \in S : f[x] \in Nat, NEW T \in SUBSET S
    PROVE  SumFunctionOnSet(f, T) <= SumFunctionOnSet(f, S)
<1> DEFINE g == [x \in S |-> IF x \in T THEN f[x] ELSE 0]
           h == [x \in S |-> IF x \in T THEN 0 ELSE f[x]]
<1>1. \A x \in S : /\ g[x] = (IF x \in T THEN f[x] ELSE 0)
                   /\ g[x] \in Nat /\ h[x] \in Nat /\ f[x] = g[x] + h[x]
  OBVIOUS
<1> HIDE DEF g, h
<1>2. \A x \in S : f[x] \in Int /\ g[x] \in Int /\ h[x] \in Int
  BY <1>1
<1>3. SumFunctionOnSet(g, S) = SumFunctionOnSet(f, T)
  BY <1>1, <1>2, SumWithin
<1>4. SumFunctionOnSet(f, S) = SumFunctionOnSet(g, S) + SumFunctionOnSet(h, S)
  BY <1>1, <1>2, SumPlus
<1>5. SumFunctionOnSet(g, S) \in Nat /\ SumFunctionOnSet(h, S) \in Nat
  BY <1>1, SumNat
<1> QED BY <1>3, <1>4, <1>5

LEMMA KeptBelow ==
    ASSUME Measured(row), NEW u \in Users
    PROVE  Kept(u) <= Used(u) /\ Kept(u) \in Nat /\ Used(u) \in Nat
<1> DEFINE O == Owned(row, u)
<1>1. IsFiniteSet(O \ {}) /\ \A k \in O \ {} : Sizes(row)[k] \in Nat
  BY WeighNat
<1>2. O \ slip.file \in SUBSET (O \ {})
  OBVIOUS
<1>3. Weigh(row, u, slip.file) <= Weigh(row, u, {})
  BY <1>1, <1>2, SumBelow DEF Weigh
<1> QED BY <1>3, WeighNat, UsedIs

(* A row that changes weighs at most what it weighs now.                   *)
LEMMA WeighChange ==
    ASSUME Measured(row), Measured(row'), NEW k \in Keys, \A j \in Keys : j # k => row'[j] = row[j],
           NEW u \in Users, NEW X, NEW Y, X \ {k} = Y \ {k}
    PROVE  /\ row'[k].owner # u \/ k \in Y => Weigh(row', u, Y) <= Weigh(row, u, X)
           /\ row'[k].owner = u =>
                Weigh(row', u, Y) <= Weigh(row, u, X) + Bytes(row'[k].counted)
<1> DEFINE O == Owned(row, u) \ X
           P == Owned(row', u) \ Y
           R == O \ {k}
           f == Sizes(row)
           g == Sizes(row')
<1>1. /\ O \subseteq Keys /\ IsFiniteSet(O) /\ (\A j \in O : f[j] \in Nat)
      /\ Weigh(row, u, X) = SumFunctionOnSet(f, O) /\ Weigh(row, u, X) \in Nat
  BY WeighNat DEF Weigh, Owned
<1>2. /\ P \subseteq Keys /\ IsFiniteSet(P) /\ (\A j \in P : g[j] \in Nat)
      /\ Weigh(row', u, Y) = SumFunctionOnSet(g, P) /\ Weigh(row', u, Y) \in Nat
  <2>1. PICK r : r = row'
    OBVIOUS
  <2>2. /\ IsFiniteSet(Owned(r, u) \ Y) /\ Weigh(r, u, Y) \in Nat
        /\ \A j \in Owned(r, u) \ Y : Sizes(r)[j] \in Nat
    BY <2>1, WeighNat
  <2> QED BY <2>1, <2>2 DEF Weigh, Owned
<1>3. P \ {k} = R /\ (k \in P <=> row'[k].owner = u /\ k \notin Y)
  BY DEF Owned
<1>4. \A j \in R : f[j] = g[j]
  BY <1>1 DEF Sizes
<1>5. g[k] = Bytes(row'[k].counted)
  BY DEF Sizes
<1>6. R \in SUBSET O
  OBVIOUS
<1> HIDE DEF O, P, R, f, g
<1>7. IsFiniteSet(R)
  BY <1>1, <1>6, FS_Subset
<1>8. SumFunctionOnSet(f, R) = SumFunctionOnSet(g, R) /\ SumFunctionOnSet(f, R) \in Nat
  BY <1>1, <1>4, <1>6, <1>7, SumSame, SumNat
<1>9. SumFunctionOnSet(f, R) <= SumFunctionOnSet(f, O)
  BY <1>1, <1>6, SumBelow
<1>10. CASE k \in P
  <2>1. \A j \in P : g[j] \in Int
    BY <1>2
  <2>2. SumFunctionOnSet(g, P) = g[k] + SumFunctionOnSet(g, P \ {k})
    BY <1>2, <1>10, <2>1, SumRemove
  <2>3. g[k] \in Nat /\ SumFunctionOnSet(f, O) \in Nat
    BY <1>1, <1>2, <1>10, SumNat
  <2>7. SumFunctionOnSet(g, P) = g[k] + SumFunctionOnSet(g, R)
    <3>1. P \ {k} = R
      BY <1>3
    <3> QED BY <2>2, <3>1
  <2>4. SumFunctionOnSet(g, P) <= SumFunctionOnSet(f, O) + g[k]
    BY <1>8, <1>9, <2>3, <2>7
  <2>5. row'[k].owner = u /\ k \notin Y
    BY <1>3, <1>10
  <2>6. Weigh(row', u, Y) <= Weigh(row, u, X) + Bytes(row'[k].counted)
    BY <1>1, <1>2, <1>5, <2>4
  <2> QED BY <2>5, <2>6
<1>11. CASE k \notin P
  <2>1. P = R
    BY <1>3, <1>11
  <2>2. SumFunctionOnSet(g, P) <= SumFunctionOnSet(f, O)
    BY <1>8, <1>9, <2>1
  <2>3. row'[k].owner = u => Bytes(row'[k].counted) \in Nat
    BY BytesNat DEF Measured
  <2> QED BY <1>1, <1>2, <2>2, <2>3
<1> QED BY <1>10, <1>11

(* Rows whose owner and size stay weigh what they did.                     *)
LEMMA UsedSame ==
    ASSUME \A k \in Keys : row'[k].owner = row[k].owner /\ row'[k].counted = row[k].counted,
           slip'.file = slip.file, NEW u
    PROVE  Used(u)' = Used(u) /\ Kept(u)' = Kept(u)
<1>1. Owned(row', u) = Owned(row, u) /\ Sizes(row') = Sizes(row)
  BY DEF Owned, Sizes
<1> QED BY <1>1, UsedIs DEF Weigh

(* What an image was found to fit in still stands when nothing overtook it.*)
ImagesFit ==
    \A p \in Handlers : req[p].op = "image" /\ p \notin slip.request =>
      Used(req[p].user) + Bytes(req[p].counted) <= Quota[req[p].user]

QInv == Measured(row) /\ QuotaKept /\ SumCurrent /\ ImagesFit

SameImage(q) ==
    req[q].op = "image" /\ req'[q].user = req[q].user /\ req'[q].counted = req[q].counted

(* No request comes to the insert, and no image to its check.              *)
NoInsert ==
    /\ \A q \in Handlers : req'[q].pc = "insert" => req'[q] = req[q]
    /\ \A q \in Handlers : req'[q].op = "image" /\ q \notin slip'.request =>
         q \notin slip.request /\ SameImage(q)

LEMMA QuotaSame ==
    ASSUME ControlInv, QInv, slip'.file = slip.file,
           \A k \in Keys : row'[k].owner = row[k].owner /\ row'[k].counted = row[k].counted,
           \A q \in Handlers : req'[q].pc = "insert" =>
             \/ req'[q] = req[q]
             \/ /\ Quota[req'[q].user] > 0
                /\ Kept(req'[q].user) + Bytes(req'[q].counted) <= Quota[req'[q].user],
           \A q \in Handlers : req'[q].op = "image" /\ q \notin slip'.request =>
             \/ q \notin slip.request /\ SameImage(q)
             \/ Used(req'[q].user) + Bytes(req'[q].counted) <= Quota[req'[q].user]
    PROVE  QInv'
<1>1. \A u : Used(u)' = Used(u) /\ Kept(u)' = Kept(u)
  BY UsedSame
<1>2. Measured(row')
  BY DEF QInv, Measured
<1>3. QuotaKept'
  BY <1>1 DEF QInv, QuotaKept
<1>4. ASSUME NEW q \in Handlers, req'[q].pc = "insert"
      PROVE  (Quota[req[q].user] > 0
                /\ Kept(req[q].user) + Bytes(req[q].counted) <= Quota[req[q].user])'
  <2>1. /\ Quota[req'[q].user] > 0
        /\ Kept(req'[q].user) + Bytes(req'[q].counted) <= Quota[req'[q].user]
    BY <1>4 DEF QInv, SumCurrent
  <2>2. PICK u, c : u = req'[q].user /\ c = req'[q].counted
    OBVIOUS
  <2>3. Kept(u)' + Bytes(c) <= Quota[u]
    BY <1>1, <2>1, <2>2
  <2> QED BY <2>1, <2>2, <2>3 DEF Kept, OwnedBy, Bytes
<1>5. ASSUME NEW q \in Handlers, req'[q].op = "image", q \notin slip'.request
      PROVE  (Used(req[q].user) + Bytes(req[q].counted) <= Quota[req[q].user])'
  <2>1. Used(req'[q].user) + Bytes(req'[q].counted) <= Quota[req'[q].user]
    BY <1>5 DEF QInv, ImagesFit, SameImage
  <2>2. PICK u, c : u = req'[q].user /\ c = req'[q].counted
    OBVIOUS
  <2>3. Used(u)' + Bytes(c) <= Quota[u]
    BY <1>1, <2>1, <2>2
  <2> QED BY <2>1, <2>2, <2>3 DEF Used, OwnedBy, Bytes
<1> QED BY <1>2, <1>3, <1>4, <1>5 DEF QInv, SumCurrent, ImagesFit

LEMMA QuotaStill ==
    ASSUME ControlInv, QInv, UNCHANGED slip, NoInsert,
           \A k \in Keys : row'[k].owner = row[k].owner /\ row'[k].counted = row[k].counted
    PROVE  QInv'
BY QuotaSame DEF NoInsert

(* A row is inserted for v, or deleted when v is None.                     *)
LEMMA QuotaRow ==
    ASSUME ControlInv, QInv, NEW k \in Keys, Measured(row'), NEW p \in Handlers \cup {None},
           \A j \in Keys : j # k => row'[j] = row[j],
           slip'.file \ {k} = slip.file \ {k},
           \A q \in Handlers : req'[q].pc = "insert" => q # p /\ req'[q] = req[q],
           \A q \in Handlers : req'[q].op = "image" /\ q \notin slip'.request =>
             q # p /\ q \notin slip.request /\ req'[q] = req[q] /\ req[q].user # row'[k].owner,
           row'[k].owner \in Users /\ k \notin slip'.file =>
             /\ Kept(row'[k].owner) + Bytes(row'[k].counted) <= Quota[row'[k].owner]
             /\ \A q \in Handlers \ {p} : req[q].pc = "insert" => req[q].user # row'[k].owner
    PROVE  QInv'
<1> DEFINE v == row'[k].owner
<1>1. ASSUME NEW u \in Users
      PROVE  /\ u # v => Used(u)' <= Used(u)
             /\ u # v \/ k \in slip'.file => Kept(u)' <= Kept(u)
             /\ u = v => Kept(u)' <= Kept(u) + Bytes(row'[k].counted)
             /\ Used(u) \in Nat /\ Used(u)' \in Nat /\ Kept(u) \in Nat /\ Kept(u)' \in Nat
  <2>1. u # v => Weigh(row', u, {}) <= Weigh(row, u, {})
    BY WeighChange DEF QInv
  <2>2. /\ u # v \/ k \in slip'.file => Weigh(row', u, slip'.file) <= Weigh(row, u, slip.file)
        /\ u = v => Weigh(row', u, slip'.file) <= Weigh(row, u, slip.file) + Bytes(row'[k].counted)
    BY WeighChange DEF QInv
  <2>3. Weigh(row, u, {}) \in Nat /\ Weigh(row, u, slip.file) \in Nat
    BY WeighNat DEF QInv
  <2>4. PICK r : r = row'
    OBVIOUS
  <2>5. Weigh(r, u, {}) \in Nat /\ Weigh(r, u, slip'.file) \in Nat
    BY <2>4, WeighNat
  <2> QED BY <2>1, <2>2, <2>3, <2>4, <2>5, UsedIs
<1>2. QuotaKept'
  <2>1. ASSUME NEW u \in Users PROVE Kept(u)' <= Quota[u]
    <3>1. Kept(u) <= Quota[u] /\ Quota[u] \in Nat
      BY UploadsAssumption DEF QInv, QuotaKept
    <3>2. CASE u # v \/ k \in slip'.file
      BY <1>1, <3>1, <3>2
    <3>3. CASE u = v /\ k \notin slip'.file
      <4>1. PICK n : n = Bytes(row'[k].counted)
        OBVIOUS
      <4>2. Kept(u) + n <= Quota[u] /\ n \in Nat
        BY <3>3, <4>1, BytesNat DEF Measured
      <4> QED BY <1>1, <3>1, <3>3, <4>1, <4>2
    <3> QED BY <3>2, <3>3
  <2> QED BY <2>1 DEF QuotaKept
<1>3. ASSUME NEW q \in Handlers, req'[q].pc = "insert"
      PROVE  (Quota[req[q].user] > 0
                /\ Kept(req[q].user) + Bytes(req[q].counted) <= Quota[req[q].user])'
  <2>1. /\ q # p /\ req'[q] = req[q] /\ req[q].user \in Users /\ req[q].counted \in Content
        /\ Quota[req[q].user] > 0
        /\ Kept(req[q].user) + Bytes(req[q].counted) <= Quota[req[q].user]
    BY <1>3 DEF QInv, SumCurrent, ControlInv, ReqInv, Fits
  <2>2. PICK u \in Users, c \in Content : u = req[q].user /\ c = req[q].counted
    BY <2>1
  <2>3. u # v \/ k \in slip'.file
    BY <1>3, <2>1, <2>2
  <2>4. Bytes(c) \in Nat /\ Quota[u] \in Nat
    BY BytesNat, UploadsAssumption
  <2>5. Kept(u)' + Bytes(c) <= Quota[u]
    BY <1>1, <2>1, <2>2, <2>3, <2>4
  <2> QED BY <2>1, <2>2, <2>5 DEF Kept, OwnedBy, Bytes
<1>4. ASSUME NEW q \in Handlers, req'[q].op = "image", q \notin slip'.request
      PROVE  (Used(req[q].user) + Bytes(req[q].counted) <= Quota[req[q].user])'
  <2>1. /\ req'[q] = req[q] /\ req[q].user \in Users /\ req[q].counted \in Content
        /\ req[q].user # v
        /\ Used(req[q].user) + Bytes(req[q].counted) <= Quota[req[q].user]
    BY <1>4 DEF QInv, ImagesFit, ControlInv, ReqInv, Fits
  <2>2. PICK u \in Users, c \in Content : u = req[q].user /\ c = req[q].counted
    BY <2>1
  <2>3. Bytes(c) \in Nat /\ Quota[u] \in Nat
    BY BytesNat, UploadsAssumption
  <2>4. Used(u)' + Bytes(c) <= Quota[u]
    BY <1>1, <2>1, <2>2, <2>3
  <2> QED BY <2>1, <2>2, <2>4 DEF Used, OwnedBy, Bytes
<1> QED BY <1>2, <1>3, <1>4 DEF QInv, SumCurrent, ImagesFit

LEMMA QuotaDrop ==
    ASSUME ControlInv, QInv, NEW k \in Keys, DropRow(k), UNCHANGED slip,
           \A q \in Handlers : req'[q] = req[q] \/ req'[q] = NoReq
    PROVE  QInv'
<1>1. row'[k].owner = None /\ \A j \in Keys : j # k => row'[j] = row[j]
  BY DropEffect DEF ControlInv, TypeOK, NoRow
<1>2. None \notin Users /\ None \notin Handlers
  BY UploadsAssumption
<1>3. Measured(row')
  BY <1>1, <1>2 DEF QInv, Measured
<1>4. \A q \in Handlers : req'[q].pc = "insert" => q # None /\ req'[q] = req[q]
  BY <1>2, ReqTypes
<1>5. \A q \in Handlers : req'[q].op = "image" /\ q \notin slip'.request =>
        q # None /\ q \notin slip.request /\ req'[q] = req[q] /\ req[q].user # row'[k].owner
  BY <1>1, <1>2, ReqTypes DEF ControlInv, ReqInv, Fits
<1> QED BY <1>1, <1>2, <1>3, <1>4, <1>5, QuotaRow

LEMMA QuotaPut ==
    ASSUME ControlInv, QInv, NEW p \in Handlers, CreateWithinQuota(p)
    PROVE  QInv'
<1> DEFINE r == req[p]
<1>1. /\ r.pc = "insert" /\ r.user \in Users /\ r.counted \in Content /\ r.key \in Keys
      /\ r.op \in {"upload", "complete"} /\ slip \in Slip /\ req \in [Handlers -> Req]
  BY DEF CreateWithinQuota, ControlInv, TypeOK, ReqInv, Fits
<1>2. PICK k \in Keys, v \in Users, c \in Content : k = r.key /\ v = r.user /\ c = r.counted
  BY <1>1
<1>3. row'[k].owner = v /\ row'[k].counted = c /\ \A j \in Keys : j # k => row'[j] = row[j]
  <2>1. row' = [row EXCEPT ![k] = NewRow(v, r.content, c)] /\ row \in [Keys -> Row]
    BY <1>2 DEF CreateWithinQuota, ControlInv, TypeOK
  <2> QED BY <2>1 DEF NewRow
<1>4. Measured(row')
  BY <1>3 DEF QInv, Measured
<1>5. slip'.file = slip.file /\ slip'.request = slip.request \cup Overtaken(v)
  BY <1>1, <1>2 DEF CreateWithinQuota, Slip
<1>6. /\ req'[p].pc # "insert" /\ req'[p].op # "image"
      /\ \A q \in Handlers : q # p => req'[q] = req[q]
  <2>1. Done(p) \/ Go(p, "clear")
    BY DEF CreateWithinQuota
  <2> QED BY <1>1, <2>1, GoEffect, DoneEffect, ReqTypes DEF Pc
<1>7. \A q \in Handlers : req'[q].pc = "insert" => q # p /\ req'[q] = req[q]
  BY <1>6
<1>8. \A q \in Handlers : req'[q].op = "image" /\ q \notin slip'.request =>
        q # p /\ q \notin slip.request /\ req'[q] = req[q] /\ req[q].user # v
  BY <1>5, <1>6 DEF Overtaken
<1>9. Kept(v) + Bytes(c) <= Quota[v]
  BY <1>1, <1>2 DEF QInv, SumCurrent
<1>10. \A q \in Handlers \ {p} : req[q].pc = "insert" => req[q].user # v
  BY <1>1, <1>2 DEF ControlInv, LockHeld
<1> QED BY <1>3, <1>4, <1>5, <1>7, <1>8, <1>9, <1>10, QuotaRow

LEMMA QuotaImage ==
    ASSUME ControlInv, QInv, NEW p \in Handlers, CreateImage(p)
    PROVE  QInv'
<1> DEFINE r == req[p]
<1>1. /\ r.pc = "record" /\ r.user \in Users /\ r.counted \in Content /\ r.key \in Keys
      /\ r.op = "image" /\ slip \in Slip /\ req \in [Handlers -> Req]
  BY DEF CreateImage, ControlInv, TypeOK, ReqInv, Fits
<1>2. PICK k \in Keys, v \in Users, c \in Content : k = r.key /\ v = r.user /\ c = r.counted
  BY <1>1
<1>3. row'[k].owner = v /\ row'[k].counted = c /\ \A j \in Keys : j # k => row'[j] = row[j]
  <2>1. row' = [row EXCEPT ![k] = NewRow(v, r.content, c)] /\ row \in [Keys -> Row]
    BY <1>2 DEF CreateImage, ControlInv, TypeOK
  <2> QED BY <2>1 DEF NewRow
<1>4. Measured(row')
  BY <1>3 DEF QInv, Measured
<1>5. /\ slip'.request = (slip.request \cup Overtaken(v)) \ {p}
      /\ slip'.file \ {k} = slip.file \ {k}
      /\ k \notin slip'.file => p \notin slip.request /\ usageLock[v] = None
  BY <1>2 DEF CreateImage
<1>6. /\ req'[p] = NoReq /\ \A q \in Handlers : q # p => req'[q] = req[q]
  BY <1>1, DoneEffect DEF CreateImage
<1>7. \A q \in Handlers : req'[q].pc = "insert" => q # p /\ req'[q] = req[q]
  BY <1>6, ReqTypes
<1>8. \A q \in Handlers : req'[q].op = "image" /\ q \notin slip'.request =>
        q # p /\ q \notin slip.request /\ req'[q] = req[q] /\ req[q].user # v
  BY <1>5, <1>6, ReqTypes DEF Overtaken
<1>9. k \notin slip'.file => Kept(v) + Bytes(c) <= Quota[v]
  <2>1. SUFFICES ASSUME k \notin slip'.file PROVE Kept(v) + Bytes(c) <= Quota[v]
    OBVIOUS
  <2>2. Used(v) + Bytes(c) <= Quota[v]
    BY <1>1, <1>2, <1>5, <2>1 DEF QInv, ImagesFit
  <2>3. Kept(v) <= Used(v) /\ Kept(v) \in Nat /\ Used(v) \in Nat
    BY KeptBelow DEF QInv
  <2>4. Bytes(c) \in Nat /\ Quota[v] \in Nat
    BY BytesNat, UploadsAssumption
  <2> QED BY <2>2, <2>3, <2>4
<1>10. k \notin slip'.file => \A q \in Handlers \ {p} : req[q].pc = "insert" => req[q].user # v
  BY <1>5, NoneIsNoContent DEF ControlInv, LockHeld
<1> QED BY <1>3, <1>4, <1>5, <1>7, <1>8, <1>9, <1>10, QuotaRow

LEMMA QuotaArrive ==
    ASSUME ControlInv, QInv, NEW p \in Handlers, Arrive(p) \/ Fault(p) \/ Restart
    PROVE  QInv'
<1>0. req \in [Handlers -> Req] /\ slip \in Slip
  BY DEF ControlInv, TypeOK
<1>1. ASSUME NEW r, r.pc # "insert", r.op # "image", req' = [req EXCEPT ![p] = r], UNCHANGED slip
      PROVE  NoInsert
  BY <1>0, <1>1 DEF NoInsert, SameImage
<1>2. CASE Arrive(p)
  <2>1. \A pc, op, u, s, k, c, n : /\ NewReq(pc, op, u, s, k, c, n).pc = pc
                                   /\ NewReq(pc, op, u, s, k, c, n).op = op
                                   /\ NewReq(pc, op, u, s, k, c, n).user = u
                                   /\ NewReq(pc, op, u, s, k, c, n).counted = n
    BY DEF NewReq
  <2>2. ASSUME NEW u \in Users, NEW c \in Files, UploadImage(p, u, c) PROVE QInv'
    <3>1. PICK r : r = NewReq("store", "image", u, None, None, c, c)
      OBVIOUS
    <3>2. r.pc = "store" /\ r.user = u /\ r.counted = c
      BY <2>1, <3>1
    <3>3. req'[p] = r /\ \A q \in Handlers : q # p => req'[q] = req[q]
      BY <1>0, <2>2, <3>1 DEF UploadImage, Start
    <3>4. /\ slip'.file = slip.file
          /\ \A q \in Handlers : q # p /\ q \notin slip'.request => q \notin slip.request
          /\ p \notin slip'.request => Quota[u] > 0
      BY <1>0, <2>2 DEF UploadImage, Slip
    <3>5. p \notin slip'.request => Used(u) + Bytes(c) <= Quota[u]
      BY <2>2, <3>4 DEF UploadImage
    <3>6. \A q \in Handlers : req'[q].pc = "insert" => req'[q] = req[q]
      BY <3>2, <3>3
    <3>7. \A q \in Handlers : req'[q].op = "image" /\ q \notin slip'.request =>
            \/ q \notin slip.request /\ SameImage(q)
            \/ Used(req'[q].user) + Bytes(req'[q].counted) <= Quota[req'[q].user]
      BY <3>2, <3>3, <3>4, <3>5 DEF SameImage
    <3>8. \A k \in Keys : row'[k].owner = row[k].owner /\ row'[k].counted = row[k].counted
      BY <2>2 DEF UploadImage
    <3> QED BY <3>4, <3>6, <3>7, <3>8, QuotaSame
  <2>3. ASSUME ~(\E u \in Users, c \in Files : UploadImage(p, u, c)) PROVE QInv'
    <3>1. UNCHANGED <<row, slip>>
      BY <1>2, <2>3 DEF Arrive, Upload, ChunkUpload, ChunkComplete, Delete, Attach
    <3>2. PICK pc, op, u, s, k, c, n :
            /\ pc \in {"hash", "put", "stat", "remove", "link"}
            /\ op \in {"upload", "chunk", "complete", "delete", "link"}
            /\ req' = [req EXCEPT ![p] = NewReq(pc, op, u, s, k, c, n)]
      BY <1>2, <2>3 DEF Arrive, Upload, ChunkUpload, ChunkComplete, Delete, Attach, Start
    <3>3. PICK r : r = NewReq(pc, op, u, s, k, c, n)
      OBVIOUS
    <3>4. r.pc # "insert" /\ r.op # "image"
      BY <2>1, <3>2, <3>3
    <3> QED BY <1>1, <3>1, <3>2, <3>3, <3>4, QuotaStill
  <2> QED BY <2>2, <2>3
<1>3. CASE Fault(p)
  <2>1. UNCHANGED <<row, slip>> /\ NoInsert
    BY <1>1, <1>3, ReqTypes DEF Fault, Done
  <2> QED BY <2>1, QuotaStill
<1>4. CASE Restart
  <2>1. UNCHANGED <<row, slip>> /\ NoInsert
    BY <1>0, <1>4, ReqTypes DEF Restart, NoInsert, SameImage
  <2> QED BY <2>1, QuotaStill
<1> QED BY <1>2, <1>3, <1>4

LEMMA QuotaServe ==
    ASSUME ControlInv, QInv, NEW p \in Handlers, Serve(p)
    PROVE  QInv'
<1>0. req \in [Handlers -> Req] /\ row \in [Keys -> Row]
  BY DEF ControlInv, TypeOK
<1>a. ASSUME NEW pc \in Pc \ {"insert"}, Go(p, pc), UNCHANGED slip PROVE NoInsert
  BY <1>0, <1>a, GoEffect DEF NoInsert, SameImage
<1>b. ASSUME Done(p), UNCHANGED slip PROVE NoInsert
  BY <1>0, <1>b, DoneEffect, ReqTypes DEF NoInsert, SameImage
<1>c. ASSUME NEW r, r.pc # "insert", req' = [req EXCEPT ![p] = r], UNCHANGED slip,
             r.op = "image" => req[p].op = "image" /\ r.user = req[p].user
                               /\ r.counted = req[p].counted
      PROVE  NoInsert
  BY <1>0, <1>c DEF NoInsert, SameImage
<1>d. ASSUME UNCHANGED <<row, slip>>, NoInsert PROVE QInv'
  BY <1>d, QuotaStill
<1>e. \A pc, op, u, s, k, c, n : /\ NewReq(pc, op, u, s, k, c, n).pc = pc
                                 /\ NewReq(pc, op, u, s, k, c, n).op = op
                                 /\ NewReq(pc, op, u, s, k, c, n).user = u
                                 /\ NewReq(pc, op, u, s, k, c, n).counted = n
  BY DEF NewReq
<1>1. CASE UploadChunk(p)
  BY <1>1, <1>b, <1>d DEF UploadChunk
<1>2. CASE StatChunks(p)
  BY <1>2, <1>b, <1>c, <1>d, <1>e DEF StatChunks
<1>3. CASE CheckQuotaForActualBytes(p)
  <2>1. \E pc \in {"assemble", "clear"} : Go(p, pc)
    BY <1>3 DEF CheckQuotaForActualBytes
  <2> QED BY <1>3, <1>a, <1>d, <2>1 DEF CheckQuotaForActualBytes, Pc
<1>4. CASE AssembleChunks(p)
  BY <1>4, <1>b, <1>c, <1>d, <1>e DEF AssembleChunks
<1>5. CASE GetByHash(p)
  <2>1. Done(p) \/ \E pc \in {"store", "sum"} : Go(p, pc)
    BY <1>5 DEF GetByHash
  <2> QED BY <1>5, <1>a, <1>b, <1>d, <2>1 DEF GetByHash, Pc
<1>6. CASE StoreUpload(p)
  <2>1. PICK k \in Keys, pc \in {"record", "sum"} :
          req' = [req EXCEPT ![p] = NewReq(pc, req[p].op, req[p].user, None, k, req[p].content,
                                           req[p].counted)]
    BY <1>6 DEF StoreUpload
  <2>2. PICK r : r = NewReq(pc, req[p].op, req[p].user, None, k, req[p].content, req[p].counted)
    OBVIOUS
  <2>3. /\ req' = [req EXCEPT ![p] = r] /\ r.pc # "insert" /\ r.op = req[p].op
        /\ r.user = req[p].user /\ r.counted = req[p].counted
    BY <1>e, <2>1, <2>2
  <2> QED BY <1>6, <1>c, <1>d, <2>3 DEF StoreUpload
<1>7. CASE LockUserUsage(p)
  <2>1. CASE Within(req[p].user, req[p].counted) /\ Go(p, "insert")
    <3>1. /\ req'[p].user = req[p].user /\ req'[p].counted = req[p].counted
          /\ req'[p].op = req[p].op /\ \A q \in Handlers : q # p => req'[q] = req[q]
      BY <1>0, <2>1, GoEffect DEF Pc
    <3>2. UNCHANGED <<row, slip>> /\ req[p].user \in Users /\ req[p].counted \in Content
      BY <1>7 DEF LockUserUsage, ControlInv, ReqInv, Fits
    <3>3. PICK u \in Users, c \in Content : u = req[p].user /\ c = req[p].counted
      BY <3>2
    <3>4. Kept(u) <= Used(u) /\ Kept(u) \in Nat /\ Used(u) \in Nat
      BY KeptBelow DEF QInv
    <3>5. Quota[u] > 0 /\ Used(u) + Bytes(c) <= Quota[u]
      BY <2>1, <3>3 DEF Within
    <3>6. Kept(u) + Bytes(c) <= Quota[u]
      <4>1. Bytes(c) \in Nat /\ Quota[u] \in Nat
        BY BytesNat, UploadsAssumption
      <4> QED BY <3>4, <3>5, <4>1
    <3>7. \A q \in Handlers : req'[q].pc = "insert" =>
            \/ req'[q] = req[q]
            \/ /\ Quota[req'[q].user] > 0
               /\ Kept(req'[q].user) + Bytes(req'[q].counted) <= Quota[req'[q].user]
      BY <3>1, <3>3, <3>5, <3>6
    <3>8. \A q \in Handlers : req'[q].op = "image" /\ q \notin slip'.request =>
            \/ q \notin slip.request /\ SameImage(q)
            \/ Used(req'[q].user) + Bytes(req'[q].counted) <= Quota[req'[q].user]
      BY <3>1, <3>2 DEF SameImage
    <3> QED BY <3>2, <3>7, <3>8, QuotaSame
  <2>2. CASE Go(p, "discard")
    BY <1>7, <1>a, <1>d, <2>2 DEF LockUserUsage, Pc
  <2> QED BY <1>7, <2>1, <2>2 DEF LockUserUsage
<1>8. CASE CreateWithinQuota(p)
  BY <1>8, QuotaPut
<1>14. CASE CreateImage(p)
  BY <1>14, QuotaImage
<1>9. CASE Discard(p) \/ DeleteUploadSession(p)
  BY <1>9, <1>b, <1>d DEF Discard, DeleteUploadSession
<1>10. CASE ClearChunks(p)
  BY <1>10, <1>a, <1>d DEF ClearChunks, Pc
<1>11. CASE RemoveObject(p)
  BY <1>11, <1>a, <1>d DEF RemoveObject, Pc
<1>12. CASE RemoveRow(p)
  <2>1. req[p].key \in Keys
    BY <1>12 DEF RemoveRow, ControlInv, ReqInv, Fits
  <2>2. \A q \in Handlers : req'[q] = req[q] \/ req'[q] = NoReq
    BY <1>0, <1>12, DoneEffect DEF RemoveRow
  <2> QED BY <1>12, <2>1, <2>2, QuotaDrop DEF RemoveRow
<1>13. CASE Link(p)
  <2>1. NoInsert /\ UNCHANGED slip
    BY <1>13, <1>b DEF Link
  <2>2. \A k \in Keys : row'[k].owner = row[k].owner /\ row'[k].counted = row[k].counted
    BY <1>0, <1>13 DEF Link, Row
  <2> QED BY <2>1, <2>2, QuotaStill
<1> QED
  BY <1>1, <1>2, <1>3, <1>4, <1>5, <1>6, <1>7, <1>8, <1>9, <1>10, <1>11, <1>12, <1>13, <1>14
  DEF Serve

LEMMA QuotaStep == ASSUME ControlInv, QInv, [Next]_vars PROVE QInv'
<1>0. req \in [Handlers -> Req] /\ row \in [Keys -> Row]
  BY DEF ControlInv, TypeOK
<1>a. ASSUME UNCHANGED <<row, slip>>, NoInsert PROVE QInv'
  BY <1>a, QuotaStill
<1>b. UNCHANGED <<req, slip>> => NoInsert
  BY DEF NoInsert, SameImage
<1>1. ASSUME NEW p \in Handlers, Arrive(p) \/ Fault(p) PROVE QInv'
  BY <1>1, QuotaArrive
<1>2. ASSUME NEW p \in Handlers, Serve(p) PROVE QInv'
  BY <1>2, QuotaServe
<1>3. ASSUME NEW s \in Uploads, NEW u \in Users, NEW size \in Declared, ChunkInit(s, u, size)
      PROVE  QInv'
  BY <1>3, <1>a, <1>b DEF ChunkInit, requests
<1>4. ASSUME NEW k \in Keys, Unlink(k) \/ ArmBurn(k) \/ BurnDeadline(k) PROVE QInv'
  <2>1. \A j \in Keys : row'[j].owner = row[j].owner /\ row'[j].counted = row[j].counted
    BY <1>0, <1>4 DEF Unlink, ArmBurn, BurnDeadline, Stamp, Row
  <2>2. NoInsert /\ UNCHANGED slip
    BY <1>4, <1>b DEF Unlink, ArmBurn, BurnDeadline, Stamp, requests
  <2> QED BY <2>1, <2>2, QuotaStill
<1>5. ASSUME NEW k \in Keys, BurnRow(k) \/ RecycleRow(k) PROVE QInv'
  BY <1>5, <1>b, QuotaDrop DEF BurnRow, RecycleRow, requests
<1>6. CASE SweepDueBurnedAttachments \/ ListRecyclableAttachments \/ RecycleEnds \/ SweepFails \/ Purger
           \/ \E k \in Keys : BurnObject(k) \/ RecycleObject(k)
  BY <1>6, <1>a, <1>b
  DEF SweepDueBurnedAttachments, ListRecyclableAttachments, RecycleEnds, SweepFails, Purger,
      PurgeStaleUploadSessions, DeleteStaleChunks, BurnObject, RecycleObject, requests
<1>7. CASE UNCHANGED vars
  BY <1>7, <1>a, <1>b DEF vars, requests
<1>8. CASE Restart
  <2>1. UNCHANGED <<row, slip>>
    BY <1>8 DEF Restart
  <2>2. NoInsert
    BY <1>0, <1>8, ReqTypes DEF Restart, NoInsert, SameImage
  <2> QED BY <1>a, <2>1, <2>2
<1> QED
  BY <1>1, <1>2, <1>3, <1>4, <1>5, <1>6, <1>7, <1>8 DEF Next, Burner, Recycler

LEMMA QuotaInit == Init => QInv
<1> SUFFICES ASSUME Init PROVE QInv
  OBVIOUS
<1>1. \A k \in Keys : row[k].owner = None
  BY DEF Init, NoRow
<1>2. None \notin Users
  BY UploadsAssumption
<1>3. ASSUME NEW u \in Users PROVE Kept(u) <= Quota[u]
  <2>1. OwnedBy(u) \ slip.file = {}
    BY <1>1, <1>2 DEF OwnedBy
  <2>2. Kept(u) = 0
    BY <2>1, SumEmpty DEF Kept
  <2>3. Quota[u] \in Nat
    BY UploadsAssumption
  <2> QED BY <2>2, <2>3
<1>4. SumCurrent /\ ImagesFit
  BY ReqTypes DEF Init, SumCurrent, ImagesFit
<1> QED BY <1>1, <1>2, <1>3, <1>4 DEF QInv, Measured, QuotaKept

(* However many uploads and completions of a user were each found to fit,  *)
(* the rows of no user weigh more than the quota, but for avatars and      *)
(* banners inserted after the check of theirs was overtaken, or under the  *)
(* lock of another request; who is between the sum and the insert holds    *)
(* the user's lock, and the sum still stands with the same exception       *)
(* (LockUserUsage and CreateWithinQuota of pkg/repository/attachment.go).  *)
THEOREM QuotaHolds == Spec => []QuotaInv
<1>1. Init => QInv
  BY QuotaInit
<1>2. ControlInv /\ QInv /\ [Next]_vars => QInv'
  BY QuotaStep
<1>3. ControlInv /\ QInv => QuotaInv
  BY DEF ControlInv, QInv, QuotaInv
<1> QED BY <1>1, <1>2, <1>3, InvariantHolds, PTL DEF Spec

-----------------------------------------------------------------------------
(* Why posts, replies, views and attachments agree, however the statements *)
(* of the handlers interleave.                                             *)

Standing == {"live", "deleted"}
WritePc == {"attach", "unlink", "link"}

(* Why: what a handler has seen of a post or a reply stays true enough.    *)
Place(r) ==
    /\ r.pc # "idle" => r.user \in PostUsers
    /\ r.pc \notin {"idle", "insert"} => r.post \in PostIds
    /\ r.pc \notin {"idle", "insert", "row"} => post[r.post].state # "none"
    /\ r.pc \in {"insert", "row", "unlink"} => r.left = r.named
    /\ r.pc = "parent" => r.parent \in ReplyIds
    /\ r.pc = "change" => r.reply \in ReplyIds
Nests(r) ==
    r.pc = "reply" /\ r.parent # Absent =>
        /\ reply[r.parent].state # "none"
        /\ LivePost(r.post) => reply[r.parent].state \in Standing /\ reply[r.parent].post = r.post
Tells(r) ==
    r.pc = "notify" =>
        /\ r.reply \in ReplyIds /\ reply[r.reply].state # "none" /\ reply[r.reply].author = r.user
        /\ reply[r.reply].post = r.post /\ reply[r.reply].parent = r.parent /\ inbox[r.reply] = {}
Writes(r) ==
    r.pc \in WritePc =>
        /\ r.left \subseteq r.named /\ r.named \subseteq ever[r.post]
        /\ LivePost(r.post) /\ r.post \notin mixed =>
             /\ r.named = wrote[r.post]
             /\ r.pc # "unlink" => atts[r.post] = (r.named \ r.left) \cap files
FitReq(r) == Place(r) /\ Nests(r) /\ Tells(r) /\ Writes(r)

OneWriter ==
    \A p, q \in PostHandlers : p # q =>
        \A x \in PostIds : Writing(p, x) /\ Writing(q, x) => x \in mixed
OneTeller ==
    \A p, q \in PostHandlers :
        p # q /\ postReq[p].pc = "notify" /\ postReq[q].pc = "notify" => postReq[p].reply # postReq[q].reply

PostsFit ==
    \A x \in PostIds :
        /\ post[x].state = "none" => /\ atts[x] = {} /\ viewers[x] = {} /\ liked[x] = {} /\ reacted[x] = {}
                                     /\ ever[x] = {} /\ lost.views[x] = 0
        /\ post[x].state # "none" => post[x].author \in PostUsers
        /\ post[x].state = "gone" => post[x].quote = Absent

RepliesFit ==
    \A i \in ReplyIds :
        IF reply[i].state = "none" THEN inbox[i] = {} /\ reply[i].post = Absent
        ELSE /\ post[reply[i].post].state # "none"
             /\ reply[i].parent # Absent => reply[reply[i].parent].state # "none"

IInv ==
    /\ PostsTypeOK /\ (\A p \in PostHandlers : FitReq(postReq[p])) /\ OneWriter /\ OneTeller
    /\ PostsFit /\ RepliesFit
    /\ ViewsCounted /\ RepliesNest /\ RepliesTold /\ AttsOfOneWriter /\ NothingLeft

----------------------------------------------------------------------------
LEMMA Basics ==
    /\ Absent \notin PostUsers /\ Absent \notin PostIds /\ Absent \notin ReplyIds /\ Absent \notin Atts
    /\ IsFiniteSet(PostUsers) /\ IsFiniteSet(PostHandlers) /\ MaxPostFaults \in Nat /\ MaxBody \in Nat
BY PostsAssumption

LEMMA ClientIs ==
    ASSUME client \in Clients
    PROVE  /\ client.users \subseteq PostUsers /\ client.posts \subseteq PostIds
           /\ client.replies \subseteq ReplyIds /\ client.atts \subseteq Atts
           /\ client.seen \subseteq Visibilities /\ client.ops \subseteq Ops
           /\ client.by \subseteq PostHandlers
<1>1. client \in [users : SUBSET PostUsers, posts : SUBSET PostIds, replies : SUBSET ReplyIds,
                  atts : SUBSET Atts, seen : SUBSET Visibilities, ops : SUBSET Ops,
                  by : SUBSET PostHandlers]
  BY PostsAssumption
<1> QED
  BY <1>1

LEMMA NewReqType ==
    ASSUME NEW op \in Ops \cup {"none"}, NEW pc \in PostPc, NEW u \in PostUsers \cup {Absent},
           NEW x \in PostIds \cup {Absent}
    PROVE  NewPostReq(op, pc, u, x) \in PostReq
BY DEF NewPostReq, PostReq, Visibilities

LEMMA NoReqType == NoPostReq \in PostReq /\ NoPostReq.pc = "idle"
BY NewReqType DEF NoPostReq, NewPostReq, PostPc

LEMMA IdleFits == ASSUME NEW r, r.pc = "idle" PROVE FitReq(r) /\ FitReq(r)'
BY DEF FitReq, Place, Nests, Tells, Writes, WritePc

(* What every step does to the rows: none is made again, a post that is    *)
(* gone does not come back, and a reply stands for as long as its post.    *)
Grows ==
    /\ \A x \in PostIds : post[x].state # "none" =>
         /\ post'[x].state # "none" /\ post'[x].author = post[x].author
         /\ post'[x].state = "live" => post[x].state = "live"
    /\ \A i \in ReplyIds : reply[i].state # "none" =>
         /\ reply'[i].state # "none" /\ reply'[i].author = reply[i].author
         /\ reply'[i].post = reply[i].post /\ reply'[i].parent = reply[i].parent
         /\ reply[i].state \in Standing /\ post'[reply[i].post].state = "live" => reply'[i].state \in Standing

Untouched(r) ==
    /\ r.pc = "notify" => inbox'[r.reply] = inbox[r.reply]
    /\ r.pc \in WritePc => ever[r.post] \subseteq ever'[r.post]
    /\ r.pc \in WritePc /\ post'[r.post].state = "live" /\ r.post \notin mixed' =>
         /\ r.post \notin mixed /\ wrote'[r.post] = wrote[r.post]
         /\ \/ files' = files /\ atts'[r.post] = atts[r.post]
            \/ files' \subseteq files /\ atts'[r.post] = atts[r.post] \cap files'

LEMMA StillFit ==
    ASSUME PostsTypeOK, Grows, NEW r \in PostReq, FitReq(r), Untouched(r)
    PROVE  FitReq(r)'
<1>1. Place(r)'
  BY DEF FitReq, Place, Grows
<1>2. Nests(r)'
  <2> SUFFICES ASSUME r.pc = "reply", r.parent # Absent
               PROVE  /\ reply'[r.parent].state # "none"
                      /\ post'[r.post].state = "live" =>
                           reply'[r.parent].state \in Standing /\ reply'[r.parent].post = r.post
    BY DEF Nests, LivePost
  <2>1. r.parent \in ReplyIds /\ r.post \in PostIds /\ post[r.post].state # "none"
    BY DEF PostReq, FitReq, Place
  <2>2. reply[r.parent].state # "none"
    BY DEF FitReq, Nests
  <2>3. post'[r.post].state = "live" => reply[r.parent].state \in Standing /\ reply[r.parent].post = r.post
    BY <2>1 DEF FitReq, Nests, Grows, LivePost
  <2> QED
    BY <2>1, <2>2, <2>3 DEF Grows
<1>3. Tells(r)'
  BY DEF FitReq, Tells, Grows, Untouched
<1>4. Writes(r)'
  <2> SUFFICES ASSUME r.pc \in WritePc
               PROVE  /\ r.left \subseteq r.named /\ r.named \subseteq ever'[r.post]
                      /\ post'[r.post].state = "live" /\ r.post \notin mixed' =>
                           /\ r.named = wrote'[r.post]
                           /\ r.pc # "unlink" => atts'[r.post] = (r.named \ r.left) \cap files'
    BY DEF Writes, LivePost
  <2>1. r.post \in PostIds /\ (post'[r.post].state = "live" => post[r.post].state = "live")
    BY DEF FitReq, Place, Grows, WritePc
  <2> QED
    BY <2>1 DEF FitReq, Writes, Untouched, LivePost
<1> QED
  BY <1>1, <1>2, <1>3, <1>4 DEF FitReq

LEMMA ReqsFit ==
    ASSUME IInv, Grows, NEW p \in PostHandlers, NEW q \in PostReq, postReq' = [postReq EXCEPT ![p] = q],
           FitReq(q)', \A o \in PostHandlers \ {p} : Untouched(postReq[o])
    PROVE  \A o \in PostHandlers : FitReq(postReq[o])'
<1>0. PostsTypeOK
  BY DEF IInv
<1>1. postReq'[p] = q /\ \A o \in PostHandlers \ {p} : postReq'[o] = postReq[o]
  BY <1>0 DEF PostsTypeOK
<1>2. ASSUME NEW o \in PostHandlers \ {p} PROVE FitReq(postReq[o])'
  <2>1. PICK r \in PostReq : r = postReq[o]
    BY <1>0 DEF PostsTypeOK
  <2>2. Untouched(r)
    <3>1. Untouched(postReq[o])
      OBVIOUS
    <3> QED
      BY <2>1, <3>1
  <2>3. FitReq(r)'
    BY <1>0, <2>1, <2>2, StillFit DEF IInv
  <2>4. postReq'[o] = r
    BY <1>1, <2>1
  <2> QED
    BY <2>3, <2>4
<1> QED
  BY <1>1, <1>2

LEMMA ReqsKept ==
    ASSUME IInv, Grows, UNCHANGED postReq, \A o \in PostHandlers : Untouched(postReq[o])
    PROVE  \A o \in PostHandlers : FitReq(postReq[o])'
<1>1. ASSUME NEW o \in PostHandlers PROVE FitReq(postReq[o])'
  <2>1. PICK r \in PostReq : r = postReq[o]
    BY DEF IInv, PostsTypeOK
  <2>2. Untouched(r)
    <3>1. Untouched(postReq[o])
      OBVIOUS
    <3> QED
      BY <2>1, <3>1
  <2>3. FitReq(r)'
    BY <2>1, <2>2, StillFit DEF IInv
  <2>4. postReq'[o] = r
    BY <2>1
  <2> QED
    BY <2>3, <2>4
<1> QED
  BY <1>1

----------------------------------------------------------------------------
(* Aspects that a step leaves alone.                                       *)
LEMMA ViewsFrame ==
    ASSUME IInv,
           \A x \in PostIds : post'[x].state = "live" =>
             /\ post[x].state = "live" /\ post'[x].views = post[x].views
             /\ viewers'[x] = viewers[x] /\ lost'.views[x] = lost.views[x],
           \A p \in PostHandlers : postReq'[p].pc = "count" \/ postReq[p].pc = "count" => postReq'[p] = postReq[p]
    PROVE  ViewsCounted'
<1>1. \A x \in PostIds : Counting(x)' = Counting(x)
  BY DEF Counting
<1> QED
  BY <1>1 DEF ViewsCounted, IInv, LivePost

LEMMA RepliesFrame ==
    ASSUME IInv, UNCHANGED <<reply, inbox>>, lost'.replies = lost.replies,
           \A x \in PostIds : post[x].state # "none" =>
             post'[x].state # "none" /\ post'[x].author = post[x].author,
           \A x \in PostIds : post[x].state = "live" => post'[x].state = "live",
           \A p \in PostHandlers : postReq'[p].pc = "notify" \/ postReq[p].pc = "notify" => postReq'[p] = postReq[p]
    PROVE  RepliesFit' /\ RepliesNest' /\ RepliesTold' /\ OneTeller'
<1>1. PostsTypeOK /\ RepliesFit /\ RepliesNest /\ RepliesTold /\ OneTeller
  BY DEF IInv
<1>2. \A i \in ReplyIds : reply[i].state # "none" => reply[i].post \in PostIds /\ post[reply[i].post].state # "none"
  BY <1>1 DEF PostsTypeOK, RepliesFit
<1>3. RepliesFit'
  BY <1>1, <1>2 DEF RepliesFit
<1>4. RepliesNest'
  BY <1>1, <1>2 DEF RepliesNest, LivePost
<1>5. RepliesTold'
  <2> SUFFICES ASSUME NEW i \in ReplyIds, reply[i].state # "none"
               PROVE  /\ inbox[i] \subseteq Answered(i)' \ {reply[i].author}
                      /\ (/\ reply[i].state \in {"live", "deleted"} /\ i \notin lost'.replies
                          /\ \A p \in PostHandlers : ~(postReq'[p].pc = "notify" /\ postReq'[p].reply = i))
                         => inbox[i] = Answered(i)' \ {reply[i].author}
    BY DEF RepliesTold
  <2>1. Answered(i)' = Answered(i)
    BY <1>2 DEF Answered
  <2> QED
    BY <1>1, <2>1 DEF RepliesTold
<1>6. OneTeller'
  BY <1>1 DEF OneTeller
<1> QED
  BY <1>3, <1>4, <1>5, <1>6

LEMMA AttsFrame ==
    ASSUME IInv, UNCHANGED <<mixed, wrote, ever, files>>, lost'.links = lost.links,
           \A x \in PostIds : /\ atts'[x] \subseteq atts[x]
                              /\ post'[x].state = "live" => post[x].state = "live" /\ atts'[x] = atts[x],
           \A p \in PostHandlers : postReq'[p].pc \in WritePc \/ (postReq[p].pc \in WritePc /\ LivePost(postReq[p].post))
              => postReq'[p] = postReq[p]
    PROVE  AttsOfOneWriter' /\ OneWriter'
<1>1. AttsOfOneWriter /\ OneWriter
  BY DEF IInv
<1>2. ASSUME NEW p \in PostHandlers, NEW x \in PostIds PROVE Writing(p, x)' => Writing(p, x)
  BY DEF Writing, WritePc
<1>3. ASSUME NEW p \in PostHandlers, NEW x \in PostIds, LivePost(x) PROVE Writing(p, x) => Writing(p, x)'
  BY <1>3 DEF Writing, WritePc
<1>4. AttsOfOneWriter'
  BY <1>1, <1>3 DEF AttsOfOneWriter, LivePost
<1>5. OneWriter'
  BY <1>1, <1>2 DEF OneWriter
<1> QED
  BY <1>4, <1>5

LEMMA RowsFrame ==
    ASSUME IInv, UNCHANGED <<post, atts, viewers, liked, reacted, ever>>, lost'.views = lost.views
    PROVE  PostsFit' /\ NothingLeft'
BY DEF IInv, PostsFit, NothingLeft

(* A step that writes no row.                                                *)
LEMMA Quiet ==
    ASSUME IInv, UNCHANGED <<rows, events, history, client>>, postFaults' \in Nat,
           NEW p \in PostHandlers, NEW q \in PostReq, postReq' = [postReq EXCEPT ![p] = q],
           FitReq(q), q.pc \notin {"attach", "unlink", "link", "notify", "count"},
           postReq[p].pc \notin {"count", "notify"}, postReq[p].pc \in WritePc => ~LivePost(postReq[p].post)
    PROVE  IInv'
<1> USE DEF rows, events, history
<1>0. PostsTypeOK
  BY DEF IInv
<1>1. postReq'[p] = q /\ \A o \in PostHandlers \ {p} : postReq'[o] = postReq[o]
  BY <1>0 DEF PostsTypeOK
<1>2. PostsTypeOK'
  BY <1>0 DEF PostsTypeOK
<1>3. Grows
  BY DEF Grows
<1>4. FitReq(q)'
  BY <1>0, <1>3, StillFit DEF Untouched
<1>5. \A o \in PostHandlers : FitReq(postReq[o])'
  BY <1>3, <1>4, ReqsFit DEF Untouched
<1>6. ViewsCounted'
  BY <1>1, ViewsFrame
<1>7. RepliesFit' /\ RepliesNest' /\ RepliesTold' /\ OneTeller'
  BY <1>1, RepliesFrame
<1>8. AttsOfOneWriter' /\ OneWriter'
  BY <1>1, AttsFrame DEF WritePc
<1>9. PostsFit' /\ NothingLeft'
  BY RowsFrame
<1> QED
  BY <1>2, <1>5, <1>6, <1>7, <1>8, <1>9 DEF IInv

(* A request is taken in.                                                  *)
LEMMA Taken ==
    ASSUME IInv, Quietly, NEW p \in PostHandlers, NEW q \in PostReq, PostStart(p, q), FitReq(q),
           q.pc \notin {"attach", "unlink", "link", "notify", "count"}
    PROVE  IInv'
<1>1. postReq[p].pc = "idle" /\ postReq' = [postReq EXCEPT ![p] = q]
  BY DEF PostStart
<1>2. UNCHANGED <<rows, events, history, client>> /\ postFaults' \in Nat
  BY DEF Quietly, bounds, IInv, PostsTypeOK
<1> QED
  BY <1>1, <1>2, Quiet DEF WritePc

LEMMA AskQuiet ==
    ASSUME IInv, NEW p \in PostHandlers, NEW u \in PostUsers, Ask(p, u)
    PROVE  IInv'
<1>0. PostsTypeOK
  BY DEF IInv
<1>1. client.atts \subseteq Atts /\ client.seen \subseteq Visibilities
  BY <1>0, ClientIs DEF PostsTypeOK
<1>2. ASSUME NEW vis \in Visibilities, NEW named \in SUBSET client.atts, CreatePost(p, u, vis, named)
      PROVE  IInv'
  <2>0. Quietly
    BY <1>2 DEF CreatePost
  <2>1. ASSUME PostStart(p, [NewPostReq("create", "insert", u, Absent) EXCEPT !.vis = vis, !.left = named, !.named = named])
        PROVE  IInv'
    <3>1. PICK q : q = [NewPostReq("create", "insert", u, Absent) EXCEPT !.vis = vis, !.left = named, !.named = named]
      OBVIOUS
    <3>2. q \in PostReq
      BY <1>1, <3>1 DEF PostReq, NewPostReq, Ops, PostPc
    <3>3. q.pc = "insert" /\ q.user = u /\ q.left = q.named
      BY <3>1 DEF NewPostReq
    <3>4. FitReq(q)
      BY <3>3 DEF FitReq, Place, Nests, Tells, Writes, WritePc
    <3>5. PostStart(p, q)
      BY <2>1, <3>1
    <3> QED
      BY <2>0, <3>2, <3>3, <3>4, <3>5, Taken
  <2>2. ASSUME NEW x \in PostIds, NEW text \in BOOLEAN, named = {},
               PostStart(p, [NewPostReq("quote", "insert", u, Absent) EXCEPT !.vis = vis, !.text = text, !.quote = x])
        PROVE  IInv'
    <3>1. PICK q : q = [NewPostReq("quote", "insert", u, Absent) EXCEPT !.vis = vis, !.text = text, !.quote = x]
      OBVIOUS
    <3>2. q \in PostReq
      BY <3>1 DEF PostReq, NewPostReq, Ops, PostPc
    <3>3. q.pc = "insert" /\ q.user = u /\ q.left = q.named
      BY <3>1 DEF NewPostReq
    <3>4. FitReq(q)
      BY <3>3 DEF FitReq, Place, Nests, Tells, Writes, WritePc
    <3>5. PostStart(p, q)
      BY <2>2, <3>1
    <3> QED
      BY <2>0, <3>2, <3>3, <3>4, <3>5, Taken
  <2> QED
    BY <1>2, <2>1, <2>2 DEF CreatePost
<1>3. ASSUME NEW vis \in Visibilities, NEW named \in SUBSET client.atts, NEW x \in PostIds,
             UpdatePost(p, u, x, vis, named)
      PROVE  IInv'
  <2>1. PICK q : q = [NewPostReq("update", "row", u, x) EXCEPT !.vis = vis, !.left = named, !.named = named]
    OBVIOUS
  <2>2. q \in PostReq
    BY <1>1, <2>1 DEF PostReq, NewPostReq, Ops, PostPc
  <2>3. q.pc = "row" /\ q.user = u /\ q.left = q.named /\ q.post = x
    BY <2>1 DEF NewPostReq
  <2>4. FitReq(q)
    BY <2>3 DEF FitReq, Place, Nests, Tells, Writes, WritePc
  <2>5. PostStart(p, q) /\ Quietly
    BY <1>3, <2>1 DEF UpdatePost
  <2> QED
    BY <2>2, <2>3, <2>4, <2>5, Taken
<1>4. ASSUME NEW x \in PostIds, NEW op \in Ops, NEW pc \in {"seen", "like", "reply"},
             Quietly, LivePost(x), PostStart(p, NewPostReq(op, pc, u, x))
      PROVE  IInv'
  <2>1. PICK q : q = NewPostReq(op, pc, u, x)
    OBVIOUS
  <2>2. q \in PostReq
    BY <2>1, NewReqType DEF PostPc
  <2>3. q.pc = pc /\ q.user = u /\ q.post = x /\ q.parent = Absent
    BY <2>1 DEF NewPostReq
  <2>4. FitReq(q)
    BY <1>4, <2>3 DEF FitReq, Place, Nests, Tells, Writes, WritePc, LivePost
  <2>5. PostStart(p, q)
    BY <1>4, <2>1
  <2> QED
    BY <1>4, <2>2, <2>3, <2>4, <2>5, Taken
<1>5. ASSUME NEW x \in PostIds, NEW i \in ReplyIds, Quietly, LivePost(x),
             PostStart(p, [NewPostReq("nest", "parent", u, x) EXCEPT !.parent = i])
      PROVE  IInv'
  <2>1. PICK q : q = [NewPostReq("nest", "parent", u, x) EXCEPT !.parent = i]
    OBVIOUS
  <2>2. q \in PostReq
    BY <2>1 DEF PostReq, NewPostReq, Ops, PostPc, Visibilities
  <2>3. q.pc = "parent" /\ q.user = u /\ q.post = x /\ q.parent = i
    BY <2>1 DEF NewPostReq
  <2>4. FitReq(q)
    BY <1>5, <2>3 DEF FitReq, Place, Nests, Tells, Writes, WritePc, LivePost
  <2>5. PostStart(p, q)
    BY <1>5, <2>1
  <2> QED
    BY <1>5, <2>2, <2>3, <2>4, <2>5, Taken
<1>6. ASSUME NEW i \in ReplyIds, NEW op \in {"edit", "delete"}, ChangeReply(p, u, i, op)
      PROVE  IInv'
  <2>0. reply[i].post \in PostIds /\ LivePost(reply[i].post)
    BY <1>0, <1>6 DEF ChangeReply, LiveReply, Readable, PostsTypeOK
  <2>1. PICK x \in PostIds : x = reply[i].post
    BY <2>0
  <2>2. PICK q : q = [NewPostReq(op, "change", u, x) EXCEPT !.reply = i]
    OBVIOUS
  <2>3. q \in PostReq
    BY <2>2 DEF PostReq, NewPostReq, Ops, PostPc, Visibilities
  <2>4. q.pc = "change" /\ q.user = u /\ q.post = x /\ q.reply = i
    BY <2>2 DEF NewPostReq
  <2>5. FitReq(q)
    BY <2>0, <2>1, <2>4 DEF FitReq, Place, Nests, Tells, Writes, WritePc, LivePost
  <2>6. PostStart(p, q) /\ Quietly
    BY <1>6, <2>1, <2>2 DEF ChangeReply
  <2> QED
    BY <2>3, <2>4, <2>5, <2>6, Taken
<1>7. ASSUME NEW x \in PostIds, GetPost(p, u, x) \/ FavoritePost(p, u, x) \/ CreateReply(p, u, x)
      PROVE  IInv'
  <2>1. Quietly /\ LivePost(x)
    BY <1>7 DEF GetPost, FavoritePost, CreateReply, Readable
  <2>2. CASE GetPost(p, u, x)
    BY <1>4, <2>1, <2>2 DEF GetPost, Ops
  <2>3. CASE FavoritePost(p, u, x)
    BY <1>4, <2>1, <2>3 DEF FavoritePost, Ops
  <2>4. CASE CreateReply(p, u, x)
    BY <1>4, <1>5, <2>1, <2>4 DEF CreateReply, Ops
  <2> QED
    BY <1>7, <2>2, <2>3, <2>4
<1> QED
  BY <1>2, <1>3, <1>6, <1>7 DEF Ask

(* A handler gives up: it has written nothing, or finds its post gone.     *)
LEMMA GivesUp ==
    ASSUME IInv, NEW p \in PostHandlers, PostDone(p), UNCHANGED <<rows, events, history, bounds>>,
           postReq[p].pc \notin {"count", "notify"}, postReq[p].pc \in WritePc => ~LivePost(postReq[p].post)
    PROVE  IInv'
<1>1. UNCHANGED <<rows, events, history, client>> /\ postFaults' \in Nat
  BY DEF bounds, IInv, PostsTypeOK
<1>2. NoPostReq \in PostReq /\ NoPostReq.pc = "idle" /\ FitReq(NoPostReq)
  BY NoReqType, IdleFits
<1>3. postReq' = [postReq EXCEPT ![p] = NoPostReq]
  BY DEF PostDone
<1> QED
  BY <1>1, <1>2, <1>3, Quiet

LEMMA LoadQuiet == ASSUME IInv, NEW p \in PostHandlers, LoadPost(p) PROVE IInv'
<1>1. Quietly /\ postReq[p].pc = "load"
  BY DEF LoadPost
<1>2. CASE PostDone(p)
  BY <1>1, <1>2, GivesUp DEF WritePc, Quietly
<1>3. CASE PostGo(p, "push")
  <2>1. PICK r \in PostReq : r = postReq[p]
    BY DEF IInv, PostsTypeOK
  <2>2. PICK q \in PostReq : q = [r EXCEPT !.pc = "push"]
    BY DEF PostReq, PostPc
  <2>3. q.pc = "push" /\ q.user = r.user /\ q.post = r.post
    BY <2>2 DEF PostReq
  <2>4. postReq' = [postReq EXCEPT ![p] = q]
    BY <1>3, <2>1, <2>2 DEF PostGo
  <2>5. FitReq(q)
    BY <1>1, <2>1, <2>3 DEF IInv, FitReq, Place, Nests, Tells, Writes, WritePc
  <2>6. UNCHANGED <<rows, events, history, client>> /\ postFaults' \in Nat
    BY <1>1 DEF Quietly, bounds, IInv, PostsTypeOK
  <2> QED
    BY <1>1, <2>3, <2>4, <2>5, <2>6, Quiet DEF WritePc
<1> QED
  BY <1>2, <1>3 DEF LoadPost

LEMMA ParentQuiet == ASSUME IInv, NEW p \in PostHandlers, CheckParent(p) PROVE IInv'
<1>1. Quietly /\ postReq[p].pc = "parent"
  BY DEF CheckParent
<1>2. CASE PostDone(p)
  BY <1>1, <1>2, GivesUp DEF WritePc, Quietly
<1>3. CASE PostGo(p, "reply") /\ MayNest(postReq[p].parent, postReq[p].post)
  <2>1. PICK r \in PostReq : r = postReq[p]
    BY DEF IInv, PostsTypeOK
  <2>2. PICK q \in PostReq : q = [r EXCEPT !.pc = "reply"]
    BY DEF PostReq, PostPc
  <2>3. q.pc = "reply" /\ q.user = r.user /\ q.post = r.post /\ q.parent = r.parent
    BY <2>2 DEF PostReq
  <2>4. postReq' = [postReq EXCEPT ![p] = q]
    BY <1>3, <2>1, <2>2 DEF PostGo
  <2>5. FitReq(q)
    BY <1>1, <1>3, <2>1, <2>3
       DEF IInv, FitReq, Place, Nests, Tells, Writes, WritePc, MayNest, LiveReply, Standing
  <2>6. UNCHANGED <<rows, events, history, client>> /\ postFaults' \in Nat
    BY <1>1 DEF Quietly, bounds, IInv, PostsTypeOK
  <2> QED
    BY <1>1, <2>3, <2>4, <2>5, <2>6, Quiet DEF WritePc
<1> QED
  BY <1>2, <1>3 DEF CheckParent

----------------------------------------------------------------------------
(* A step that changes no more than marks of a post, or who follows whom.  *)
LEMMA Marked ==
    ASSUME IInv, PostsTypeOK', UNCHANGED <<atts, viewers, reply, files, inbox, history>>,
           \A x \in PostIds :
             /\ post'[x].state = post[x].state /\ post'[x].author = post[x].author
             /\ post'[x].quote = post[x].quote /\ post'[x].views = post[x].views
             /\ post[x].state # "live" => liked'[x] = {} /\ reacted'[x] = {},
           UNCHANGED postReq \/ \E p \in PostHandlers : PostDone(p) /\ postReq[p].pc \in {"push", "like"}
    PROVE  IInv'
<1> USE DEF history
<1>0. PostsTypeOK
  BY DEF IInv
<1>1. Grows
  BY DEF Grows
<1>2. \A p \in PostHandlers : Untouched(postReq[p])
  BY DEF Untouched
<1>3. \A p \in PostHandlers : FitReq(postReq[p])'
  <2>1. CASE UNCHANGED postReq
    BY <1>1, <1>2, <2>1, ReqsKept
  <2>2. CASE \E p \in PostHandlers : PostDone(p) /\ postReq[p].pc \in {"push", "like"}
    <3>1. PICK p \in PostHandlers : postReq' = [postReq EXCEPT ![p] = NoPostReq]
      BY <2>2 DEF PostDone
    <3>2. NoPostReq \in PostReq /\ FitReq(NoPostReq)'
      BY NoReqType, IdleFits
    <3> QED
      BY <1>1, <1>2, <3>1, <3>2, ReqsFit
  <2> QED
    BY <2>1, <2>2
<1>4. \A p \in PostHandlers : postReq'[p] = postReq[p] \/ (postReq[p].pc \in {"push", "like"} /\ postReq'[p].pc = "idle")
  BY <1>0, NoReqType DEF PostsTypeOK, PostDone
<1>5. ViewsCounted'
  BY <1>4, ViewsFrame
<1>6. RepliesFit' /\ RepliesNest' /\ RepliesTold' /\ OneTeller'
  BY <1>4, RepliesFrame
<1>7. AttsOfOneWriter' /\ OneWriter'
  BY <1>4, AttsFrame DEF WritePc
<1>8. PostsFit' /\ NothingLeft'
  <2>1. PostsFit /\ NothingLeft
    BY DEF IInv
  <2>2. PostsFit'
    BY <2>1 DEF PostsFit
  <2> QED
    BY <2>1, <2>2 DEF NothingLeft
<1> QED
  BY <1>3, <1>5, <1>6, <1>7, <1>8 DEF IInv

LEMMA MutualsAre == \A u \in PostUsers, vis \in Visibilities : Recipients(u, vis) \subseteq PostUsers
BY DEF Recipients, MutualFollowers, Visibilities

LEMMA PushMarks == ASSUME IInv, NEW p \in PostHandlers, PushPost(p) PROVE IInv'
<1>0. PostsTypeOK /\ FitReq(postReq[p])
  BY DEF IInv
<1>1. PICK r \in PostReq : r = postReq[p]
  BY <1>0 DEF PostsTypeOK
<1>2. Recipients(r.user, r.vis) \subseteq PostUsers
  BY <1>0, <1>1, MutualsAre DEF PushPost, FitReq, Place, PostReq
<1>3. told' \in [PostIds -> SUBSET PostUsers]
  <2>1. told' = [told EXCEPT ![r.post] = Recipients(r.user, r.vis)]
    BY <1>1 DEF PushPost
  <2> QED
    BY <1>0, <1>2, <2>1 DEF PostsTypeOK
<1>4. postReq' \in [PostHandlers -> PostReq]
  BY <1>0, NoReqType DEF PushPost, PostDone, PostsTypeOK
<1>5. PostsTypeOK'
  BY <1>0, <1>3, <1>4 DEF PushPost, rows, history, bounds, PostsTypeOK
<1>6. \A x \in PostIds : post[x].state # "live" => liked[x] = {} /\ reacted[x] = {}
  BY <1>0 DEF IInv, PostsFit, NothingLeft, PostsTypeOK, Post
<1> QED
  BY <1>5, <1>6, Marked DEF PushPost, rows, history

LEMMA FavoriteMarks == ASSUME IInv, NEW p \in PostHandlers, InsertFavorite(p) PROVE IInv'
<1>0. PostsTypeOK /\ FitReq(postReq[p])
  BY DEF IInv
<1>1. PICK r \in PostReq : r = postReq[p]
  BY <1>0 DEF PostsTypeOK
<1>2. r.user \in PostUsers /\ r.post \in PostIds
  BY <1>0, <1>1 DEF InsertFavorite, FitReq, Place
<1>3. liked' = [liked EXCEPT ![r.post] = IF LivePost(r.post) THEN @ \cup {r.user} ELSE @]
  BY <1>1 DEF InsertFavorite
<1>4. postReq' \in [PostHandlers -> PostReq]
  BY <1>0, NoReqType DEF InsertFavorite, PostDone, PostsTypeOK
<1>5. PostsTypeOK'
  <2>1. liked' \in [PostIds -> SUBSET PostUsers]
    BY <1>0, <1>2, <1>3 DEF PostsTypeOK
  <2> QED
    BY <1>0, <1>4, <2>1 DEF InsertFavorite, events, history, bounds, PostsTypeOK
<1>6. \A x \in PostIds : post[x].state # "live" => liked'[x] = {} /\ reacted[x] = {}
  BY <1>0, <1>2, <1>3 DEF IInv, PostsFit, NothingLeft, PostsTypeOK, Post, LivePost
<1> QED
  BY <1>5, <1>6, Marked DEF InsertFavorite, events, history

LEMMA AtOnceMarks ==
    ASSUME IInv, NEW u \in PostUsers, NEW x \in PostIds,
           UnfavoritePost(u, x) \/ SetPostReaction(u, x) \/ RemovePostReaction(u, x) \/ PinPost(u, x)
    PROVE  IInv'
<1>0. PostsTypeOK
  BY DEF IInv
<1>1. \A y \in PostIds : post[y].state # "live" => liked[y] = {} /\ reacted[y] = {}
  BY <1>0 DEF IInv, PostsFit, NothingLeft, PostsTypeOK, Post
<1>2. CASE UnfavoritePost(u, x)
  <2>1. PostsTypeOK' /\ \A y \in PostIds : post[y].state # "live" => liked'[y] = {}
    BY <1>0, <1>1, <1>2 DEF UnfavoritePost, events, history, bounds, PostsTypeOK
  <2> QED
    BY <1>1, <1>2, <2>1, Marked DEF UnfavoritePost, events, history
<1>3. CASE SetPostReaction(u, x)
  <2>1. PostsTypeOK' /\ \A y \in PostIds : post[y].state # "live" => reacted'[y] = {}
    BY <1>0, <1>1, <1>3 DEF SetPostReaction, events, history, bounds, PostsTypeOK, LivePost
  <2> QED
    BY <1>1, <1>3, <2>1, Marked DEF SetPostReaction, events, history
<1>4. CASE RemovePostReaction(u, x)
  <2>1. PostsTypeOK' /\ \A y \in PostIds : post[y].state # "live" => reacted'[y] = {}
    BY <1>0, <1>1, <1>4 DEF RemovePostReaction, events, history, bounds, PostsTypeOK
  <2> QED
    BY <1>1, <1>4, <2>1, Marked DEF RemovePostReaction, events, history
<1>5. CASE PinPost(u, x)
  <2>1. PICK pinned \in BOOLEAN : post' = [post EXCEPT ![x].pinned = pinned]
    BY <1>5 DEF PinPost
  <2>2. post' \in [PostIds -> Post]
    BY <1>0, <2>1 DEF PostsTypeOK, Post
  <2>3. \A y \in PostIds :
          /\ post'[y].state = post[y].state /\ post'[y].author = post[y].author
          /\ post'[y].quote = post[y].quote /\ post'[y].views = post[y].views
    BY <1>0, <2>1 DEF PostsTypeOK, Post
  <2>4. PostsTypeOK'
    BY <1>0, <1>5, <2>2, <2>3 DEF PinPost, events, history, bounds, PostsTypeOK
  <2> QED
    BY <1>1, <1>5, <2>3, <2>4, Marked DEF PinPost, events, history
<1> QED
  BY <1>2, <1>3, <1>4, <1>5

LEMMA FollowMarks ==
    ASSUME IInv, NEW u \in PostUsers, NEW v \in PostUsers, FollowUser(u, v) \/ UnfollowUser(u, v)
    PROVE  IInv'
<1>0. PostsTypeOK
  BY DEF IInv
<1>1. \A y \in PostIds : post[y].state # "live" => liked[y] = {} /\ reacted[y] = {}
  BY <1>0 DEF IInv, PostsFit, NothingLeft, PostsTypeOK, Post
<1>2. PostsTypeOK'
  BY <1>0 DEF FollowUser, UnfollowUser, events, history, bounds, PostsTypeOK
<1> QED
  BY <1>1, <1>2, Marked DEF FollowUser, UnfollowUser, events, history

----------------------------------------------------------------------------
LEMMA WriteKeeps == ASSUME IInv, NEW p \in PostHandlers, WriteReply(p) PROVE IInv'
<1>0. PostsTypeOK /\ FitReq(postReq[p])
  BY DEF IInv
<1>1. PICK r \in PostReq : r = postReq[p]
  BY <1>0 DEF PostsTypeOK
<1>2. CASE ~MayChange(r.reply, r.user)
  BY <1>1, <1>2, GivesUp DEF WriteReply, rows, events, history, bounds, WritePc
<1>3. CASE MayChange(r.reply, r.user)
  <2>1. r.reply \in ReplyIds /\ LiveReply(r.reply) /\ r.pc = "change"
    BY <1>0, <1>1, <1>3 DEF WriteReply, FitReq, Place, MayChange
  <2>2. reply' \in [ReplyIds -> Reply]
        /\ \A i \in ReplyIds :
             /\ reply'[i].author = reply[i].author /\ reply'[i].post = reply[i].post
             /\ reply'[i].parent = reply[i].parent
             /\ reply'[i].state = reply[i].state
                  \/ (reply[i].state \in Standing /\ reply'[i].state \in Standing)
    <3>1. CASE r.op = "delete"
      <4>1. reply' = [reply EXCEPT ![r.reply].state = "deleted"]
        BY <1>1, <1>3, <3>1 DEF WriteReply
      <4> QED
        BY <1>0, <2>1, <4>1 DEF PostsTypeOK, Reply, LiveReply, Standing
    <3>2. CASE r.op # "delete"
      <4>1. reply' = [reply EXCEPT ![r.reply].body = IF @ < MaxBody THEN @ + 1 ELSE @]
        BY <1>1, <1>3, <3>2 DEF WriteReply
      <4> QED
        BY <1>0, <2>1, <4>1 DEF PostsTypeOK, Reply
    <3> QED
      BY <3>1, <3>2
  <2>3. postReq' = [postReq EXCEPT ![p] = NoPostReq] /\ NoPostReq \in PostReq /\ NoPostReq.pc = "idle" /\ FitReq(NoPostReq)'
    BY NoReqType, IdleFits DEF WriteReply, PostDone
  <2>4. UNCHANGED <<post, atts, viewers, liked, reacted, follows, files, events, history, bounds>>
    BY DEF WriteReply
  <2>5. PostsTypeOK'
    <3>1. postReq' \in [PostHandlers -> PostReq]
      BY <1>0, <2>3 DEF PostsTypeOK
    <3>2. \A i \in ReplyIds : reply'[i].state # "none" => reply[i].state # "none"
      BY <2>2 DEF Standing
    <3> QED
      BY <1>0, <2>2, <2>4, <3>1, <3>2 DEF PostsTypeOK, events, history, bounds
  <2>6. Grows
    BY <2>2, <2>4 DEF Grows, Standing
  <2>7. \A o \in PostHandlers : FitReq(postReq[o])'
    BY <2>3, <2>4, <2>6, ReqsFit DEF Untouched, events, history
  <2>8. \A o \in PostHandlers : postReq'[o] = postReq[o] \/ (postReq[o].pc = "change" /\ postReq'[o].pc = "idle")
    BY <1>0, <1>1, <2>1, <2>3 DEF PostsTypeOK
  <2>9. ViewsCounted'
    BY <2>4, <2>8, ViewsFrame DEF history
  <2>10. AttsOfOneWriter' /\ OneWriter'
    BY <2>4, <2>8, AttsFrame DEF WritePc, history
  <2>11. PostsFit' /\ NothingLeft'
    BY <2>4, RowsFrame DEF history
  <2>12. RepliesFit' /\ RepliesNest' /\ RepliesTold' /\ OneTeller'
    <3>0. RepliesFit /\ RepliesNest /\ RepliesTold /\ OneTeller
      BY DEF IInv
    <3>1. \A i \in ReplyIds : reply'[i].state = "none" <=> reply[i].state = "none"
      BY <2>2 DEF Standing
    <3>2. \A i \in ReplyIds : reply'[i].state \in Standing <=> reply[i].state \in Standing
      BY <2>2 DEF Standing
    <3>3. \A i \in ReplyIds : reply[i].parent \in ReplyIds \/ reply[i].parent = Absent
      BY <1>0 DEF PostsTypeOK, Reply
    <3>4. RepliesFit'
      BY <2>2, <2>4, <3>0, <3>1, <3>3 DEF RepliesFit, events
    <3>5. RepliesNest'
      <4> SUFFICES ASSUME NEW i \in ReplyIds, reply'[i].state \in Standing
                   PROVE  /\ LivePost(reply[i].post)
                          /\ reply[i].parent # Absent =>
                               /\ reply'[reply[i].parent].state \in Standing
                               /\ reply[reply[i].parent].post = reply[i].post
        BY <2>2, <2>4, <3>3 DEF RepliesNest, LivePost, Standing
      <4> QED
        BY <3>0, <3>2, <3>3 DEF RepliesNest, Standing
    <3>6. \A i \in ReplyIds : Answered(i)' = Answered(i)
      BY <2>2, <2>4, <3>3 DEF Answered
    <3>7. RepliesTold'
      <4> SUFFICES ASSUME NEW i \in ReplyIds, reply'[i].state # "none"
                   PROVE  /\ inbox[i] \subseteq Answered(i) \ {reply[i].author}
                          /\ (/\ reply'[i].state \in Standing /\ i \notin lost.replies
                              /\ \A o \in PostHandlers : ~(postReq'[o].pc = "notify" /\ postReq'[o].reply = i))
                             => inbox[i] = Answered(i) \ {reply[i].author}
        BY <2>2, <2>4, <3>6 DEF RepliesTold, Standing, events, history
      <4>1. \A o \in PostHandlers : postReq[o].pc = "notify" => postReq'[o] = postReq[o]
        BY <2>8
      <4> QED
        BY <3>0, <3>1, <3>2, <4>1 DEF RepliesTold, Standing
    <3>8. OneTeller'
      BY <2>8, <3>0 DEF OneTeller
    <3> QED
      BY <3>4, <3>5, <3>7, <3>8
  <2> QED
    BY <2>5, <2>7, <2>9, <2>10, <2>11, <2>12 DEF IInv
<1> QED
  BY <1>2, <1>3

----------------------------------------------------------------------------
LEMMA CountingFinite == ASSUME NEW x PROVE IsFiniteSet(Counting(x)) /\ Cardinality(Counting(x)) \in Nat
<1>1. Counting(x) \subseteq PostHandlers
  BY DEF Counting
<1> QED
  BY <1>1, Basics, FS_Subset, FS_CardinalityType

LEMMA ViewersFinite ==
    ASSUME PostsTypeOK, NEW x \in PostIds
    PROVE  IsFiniteSet(viewers[x]) /\ Cardinality(viewers[x]) \in Nat
BY Basics, FS_Subset, FS_CardinalityType DEF PostsTypeOK

LEMMA InsertViewKeeps == ASSUME IInv, NEW p \in PostHandlers, InsertView(p) PROVE IInv'
<1>0. PostsTypeOK /\ FitReq(postReq[p])
  BY DEF IInv
<1>1. PICK r \in PostReq : r = postReq[p]
  BY <1>0 DEF PostsTypeOK
<1>2. CASE ~(LivePost(r.post) /\ r.user \notin viewers[r.post])
  BY <1>1, <1>2, GivesUp DEF InsertView, rows, events, history, bounds, WritePc
<1>3. CASE LivePost(r.post) /\ r.user \notin viewers[r.post]
  <2>1. r.user \in PostUsers /\ r.post \in PostIds /\ r.pc = "seen"
    BY <1>0, <1>1 DEF InsertView, FitReq, Place
  <2>2. PICK x \in PostIds, u \in PostUsers : x = r.post /\ u = r.user
    BY <2>1
  <2>3. viewers' = [viewers EXCEPT ![x] = @ \cup {u}]
    BY <1>1, <1>3, <2>2 DEF InsertView
  <2>4. PICK q \in PostReq : q = [r EXCEPT !.pc = "count"]
    BY DEF PostReq, PostPc
  <2>5. q.pc = "count" /\ q.user = u /\ q.post = x
    BY <2>2, <2>4 DEF PostReq
  <2>6. postReq' = [postReq EXCEPT ![p] = q]
    BY <1>1, <1>3, <2>4 DEF InsertView, PostGo
  <2>7. UNCHANGED <<post, atts, liked, reacted, reply, follows, files, events, history, bounds>>
    BY DEF InsertView
  <2>8. PostsTypeOK'
    <3>1. postReq' \in [PostHandlers -> PostReq]
      BY <1>0, <2>6 DEF PostsTypeOK
    <3>2. viewers' \in [PostIds -> SUBSET PostUsers]
      BY <1>0, <2>3 DEF PostsTypeOK
    <3> QED
      BY <1>0, <2>7, <3>1, <3>2 DEF PostsTypeOK, events, history, bounds
  <2>9. Grows
    BY <2>7 DEF Grows
  <2>10. FitReq(q)'
    BY <1>3, <2>2, <2>5, <2>7 DEF FitReq, Place, Nests, Tells, Writes, WritePc, LivePost
  <2>11. \A o \in PostHandlers : FitReq(postReq[o])'
    BY <2>6, <2>7, <2>9, <2>10, ReqsFit DEF Untouched, events, history
  <2>12. postReq'[p] = q /\ postReq[p].pc = "seen" /\ \A o \in PostHandlers \ {p} : postReq'[o] = postReq[o]
    BY <1>0, <1>1, <2>1, <2>6 DEF PostsTypeOK
  <2>13. RepliesFit' /\ RepliesNest' /\ RepliesTold' /\ OneTeller'
    BY <2>5, <2>7, <2>12, RepliesFrame DEF events, history
  <2>14. AttsOfOneWriter' /\ OneWriter'
    BY <2>5, <2>7, <2>12, AttsFrame DEF WritePc, history
  <2>15. PostsFit' /\ NothingLeft'
    <3>1. \A y \in PostIds : post[y].state # "live" => viewers'[y] = viewers[y]
      BY <1>0, <1>3, <2>2, <2>3 DEF PostsTypeOK, LivePost
    <3> QED
      BY <2>7, <3>1 DEF IInv, PostsFit, NothingLeft, history
  <2>16. ViewsCounted'
    <3> SUFFICES ASSUME NEW y \in PostIds, LivePost(y)
                 PROVE  post[y].views + Cardinality(Counting(y)') + lost.views[y] = Cardinality(viewers'[y])
      BY <2>7 DEF ViewsCounted, LivePost, history
    <3>0. post[y].views + Cardinality(Counting(y)) + lost.views[y] = Cardinality(viewers[y])
          /\ post[y].views \in Nat /\ lost.views[y] \in Nat
      BY <1>0 DEF IInv, ViewsCounted, PostsTypeOK, Post
    <3>1. CASE y = x
      <4>1. Counting(y)' = Counting(y) \cup {p} /\ p \notin Counting(y)
        BY <2>5, <2>12, <3>1 DEF Counting
      <4>2. Cardinality(Counting(y) \cup {p}) = Cardinality(Counting(y)) + 1
        BY <4>1, CountingFinite, FS_AddElement
      <4>3. viewers'[y] = viewers[y] \cup {u} /\ u \notin viewers[y]
        BY <1>0, <1>3, <2>2, <2>3, <3>1 DEF PostsTypeOK
      <4>4. Cardinality(viewers[y] \cup {u}) = Cardinality(viewers[y]) + 1
        BY <1>0, <4>3, ViewersFinite, FS_AddElement
      <4> QED
        BY <1>0, <3>0, <4>1, <4>2, <4>3, <4>4, CountingFinite, ViewersFinite
    <3>2. CASE y # x
      <4>1. Counting(y)' = Counting(y)
        BY <2>5, <2>12, <3>2 DEF Counting
      <4>2. viewers'[y] = viewers[y]
        BY <1>0, <2>3, <3>2 DEF PostsTypeOK
      <4> QED
        BY <3>0, <4>1, <4>2
    <3> QED
      BY <3>1, <3>2
  <2> QED
    BY <2>8, <2>11, <2>13, <2>14, <2>15, <2>16 DEF IInv
<1> QED
  BY <1>2, <1>3

LEMMA CountViewKeeps == ASSUME IInv, NEW p \in PostHandlers, CountView(p) PROVE IInv'
<1>0. PostsTypeOK /\ FitReq(postReq[p])
  BY DEF IInv
<1>1. PICK r \in PostReq : r = postReq[p]
  BY <1>0 DEF PostsTypeOK
<1>2. r.pc = "count" /\ r.post \in PostIds /\ post[r.post].state # "none"
  BY <1>0, <1>1 DEF CountView, FitReq, Place
<1>3. PICK x \in PostIds : x = r.post
  BY <1>2
<1>4. postReq' = [postReq EXCEPT ![p] = NoPostReq] /\ NoPostReq \in PostReq /\ NoPostReq.pc = "idle" /\ FitReq(NoPostReq)'
  BY NoReqType, IdleFits DEF CountView, PostDone
<1>5. UNCHANGED <<atts, viewers, liked, reacted, reply, follows, files, events, wrote, ever, mixed, client>>
  BY DEF CountView
<1>6. /\ post' \in [PostIds -> Post]
      /\ lost' \in [views : [PostIds -> Nat], replies : SUBSET ReplyIds, links : SUBSET PostIds]
      /\ postFaults' \in Nat /\ lost'.replies = lost.replies /\ lost'.links = lost.links
      /\ \A y \in PostIds :
           /\ post'[y].state = post[y].state /\ post'[y].author = post[y].author
           /\ post'[y].quote = post[y].quote
           /\ y # x => post'[y].views = post[y].views /\ lost'.views[y] = lost.views[y]
      /\ LivePost(x) => post'[x].views + lost'.views[x] = post[x].views + lost.views[x] + 1
  <2>0. /\ lost \in [views : [PostIds -> Nat], replies : SUBSET ReplyIds, links : SUBSET PostIds]
        /\ lost.views \in [PostIds -> Nat] /\ lost.replies \in SUBSET ReplyIds
    BY <1>0 DEF PostsTypeOK
  <2>1. CASE post' = [post EXCEPT ![x].views = IF LivePost(x) THEN @ + 1 ELSE @] /\ UNCHANGED <<lost, postFaults>>
    <3>1. post' \in [PostIds -> Post]
      <4>1. [post[x] EXCEPT !.views = IF LivePost(x) THEN @ + 1 ELSE @] \in Post
        BY <1>0 DEF PostsTypeOK, Post
      <4> QED
        BY <1>0, <2>1, <4>1 DEF PostsTypeOK
    <3>2. \A y \in PostIds :
           /\ post'[y].state = post[y].state /\ post'[y].author = post[y].author
           /\ post'[y].quote = post[y].quote
           /\ y # x => post'[y].views = post[y].views
      BY <1>0, <2>1 DEF PostsTypeOK, Post
    <3>3. LivePost(x) => post'[x].views = post[x].views + 1
      BY <1>0, <2>1 DEF PostsTypeOK, Post
    <3>4. post[x].views \in Nat /\ lost.views[x] \in Nat
      BY <1>0, <2>0 DEF PostsTypeOK, Post
    <3> QED
      BY <1>0, <2>0, <2>1, <3>1, <3>2, <3>3, <3>4 DEF PostsTypeOK
  <2>2. CASE lost' = [lost EXCEPT !.views[x] = @ + 1] /\ postFaults' = postFaults + 1 /\ UNCHANGED post
    <3>1. lost'.views = [lost.views EXCEPT ![x] = @ + 1] /\ lost'.replies = lost.replies /\ lost'.links = lost.links
          /\ lost' \in [views : [PostIds -> Nat], replies : SUBSET ReplyIds, links : SUBSET PostIds]
      BY <2>0, <2>2
    <3>2. lost'.views[x] = lost.views[x] + 1 /\ \A y \in PostIds : y # x => lost'.views[y] = lost.views[y]
      BY <2>0, <3>1
    <3>3. post[x].views \in Nat /\ lost.views[x] \in Nat /\ postFaults' \in Nat
      BY <1>0, <2>0, <2>2 DEF PostsTypeOK, Post
    <3> QED
      BY <1>0, <2>2, <3>1, <3>2, <3>3 DEF PostsTypeOK
  <2> QED
    BY <1>1, <1>3, <2>1, <2>2 DEF CountView
<1>7. PostsTypeOK'
  <2>1. postReq' \in [PostHandlers -> PostReq]
    BY <1>0, <1>4 DEF PostsTypeOK
  <2> QED
    BY <1>0, <1>5, <1>6, <2>1 DEF PostsTypeOK, events
<1>8. Grows
  BY <1>5, <1>6 DEF Grows
<1>9. \A o \in PostHandlers : FitReq(postReq[o])'
  BY <1>4, <1>5, <1>8, ReqsFit DEF Untouched, events
<1>10. postReq'[p] = NoPostReq /\ postReq[p].pc = "count" /\ \A o \in PostHandlers \ {p} : postReq'[o] = postReq[o]
  BY <1>0, <1>1, <1>2, <1>4 DEF PostsTypeOK
<1>11. RepliesFit' /\ RepliesNest' /\ RepliesTold' /\ OneTeller'
  BY <1>4, <1>5, <1>6, <1>10, RepliesFrame DEF events
<1>12. AttsOfOneWriter' /\ OneWriter'
  BY <1>4, <1>5, <1>6, <1>10, AttsFrame DEF WritePc
<1>13. PostsFit' /\ NothingLeft'
  <2>1. \A y \in PostIds : post[y].state = "none" => lost'.views[y] = lost.views[y]
    BY <1>2, <1>3, <1>6
  <2> QED
    BY <1>5, <1>6, <2>1 DEF IInv, PostsFit, NothingLeft
<1>14. ViewsCounted'
  <2> SUFFICES ASSUME NEW y \in PostIds, LivePost(y)
               PROVE  post'[y].views + Cardinality(Counting(y)') + lost'.views[y] = Cardinality(viewers[y])
    BY <1>5, <1>6 DEF ViewsCounted, LivePost
  <2>0. post[y].views + Cardinality(Counting(y)) + lost.views[y] = Cardinality(viewers[y])
        /\ post[y].views \in Nat /\ lost.views[y] \in Nat
    BY <1>0 DEF IInv, ViewsCounted, PostsTypeOK, Post
  <2>1. CASE y = x
    <3>1. Counting(y)' = Counting(y) \ {p} /\ p \in Counting(y)
      BY <1>1, <1>2, <1>3, <1>4, <1>10, <2>1 DEF Counting
    <3>2. Cardinality(Counting(y) \ {p}) = Cardinality(Counting(y)) - 1
      BY <3>1, CountingFinite, FS_RemoveElement
    <3>3. post'[y].views \in Nat /\ lost'.views[y] \in Nat
      BY <1>6 DEF Post
    <3>4. post'[y].views + lost'.views[y] = post[y].views + lost.views[y] + 1
      BY <1>6, <2>1
    <3>5. PICK a, b, c, d, e, k \in Nat :
            /\ a = post'[y].views /\ b = lost'.views[y] /\ c = post[y].views /\ d = lost.views[y]
            /\ e = Cardinality(Counting(y)) /\ k = Cardinality(viewers[y])
      BY <1>0, <2>0, <3>3, CountingFinite, ViewersFinite
    <3>6. a + b = c + d + 1 /\ c + e + d = k
      BY <2>0, <3>4, <3>5
    <3>7. a + (e - 1) + b = k
      BY <3>5, <3>6
    <3> QED
      BY <3>1, <3>2, <3>5, <3>7
  <2>2. CASE y # x
    <3>1. Counting(y)' = Counting(y)
      BY <1>1, <1>3, <1>4, <1>10, <2>2 DEF Counting
    <3> QED
      BY <1>6, <2>0, <2>2, <3>1
  <2> QED
    BY <2>1, <2>2
<1> QED
  BY <1>7, <1>9, <1>11, <1>12, <1>13, <1>14 DEF IInv

----------------------------------------------------------------------------
LEMMA InsertReplyKeeps == ASSUME IInv, NEW p \in PostHandlers, InsertReply(p) PROVE IInv'
<1>0. PostsTypeOK /\ FitReq(postReq[p]) /\ RepliesFit /\ RepliesNest /\ RepliesTold /\ OneTeller
  BY DEF IInv
<1>1. PICK r \in PostReq : r = postReq[p]
  BY <1>0 DEF PostsTypeOK
<1>2. r.pc = "reply" /\ r.user \in PostUsers /\ r.post \in PostIds /\ post[r.post].state # "none"
  BY <1>0, <1>1 DEF InsertReply, FitReq, Place
<1>3. CASE ~LivePost(r.post) /\ PostDone(p) /\ UNCHANGED reply
  BY <1>1, <1>2, <1>3, GivesUp DEF InsertReply, rows, events, history, bounds, WritePc
<1>4. ASSUME NEW i \in ReplyIds, LivePost(r.post), FreshReply(i),
             reply' = [reply EXCEPT ![i] = NewReply(r.user, r.post, r.parent)],
             postReq' = [postReq EXCEPT ![p].pc = "notify", ![p].reply = i]
      PROVE  IInv'
  <2>1. PICK q \in PostReq : q = [r EXCEPT !.pc = "notify", !.reply = i]
    BY DEF PostReq, PostPc
  <2>2. q.pc = "notify" /\ q.reply = i /\ q.user = r.user /\ q.post = r.post /\ q.parent = r.parent
    BY <2>1 DEF PostReq
  <2>3. postReq' = [postReq EXCEPT ![p] = q]
    BY <1>0, <1>1, <1>4, <2>1 DEF PostsTypeOK
  <2>4. UNCHANGED <<post, atts, viewers, liked, reacted, follows, files, events, history, bounds>>
    BY DEF InsertReply
  <2>5. reply[i].state = "none" /\ inbox[i] = {}
    BY <1>0, <1>4 DEF FreshReply, RepliesFit
  <2>6. /\ reply'[i].state = "live" /\ reply'[i].author = r.user /\ reply'[i].post = r.post
        /\ reply'[i].parent = r.parent
        /\ \A j \in ReplyIds \ {i} : reply'[j] = reply[j]
    BY <1>0, <1>4 DEF PostsTypeOK, NewReply
  <2>7. r.parent # Absent =>
          /\ r.parent \in ReplyIds /\ r.parent # i
          /\ reply[r.parent].state \in Standing /\ reply[r.parent].post = r.post
    BY <1>0, <1>1, <1>2, <1>4, <2>5 DEF FitReq, Nests, PostReq, Standing
  <2>8. PostsTypeOK'
    <3>1. NewReply(r.user, r.post, r.parent) \in Reply
      BY <1>2 DEF NewReply, Reply, PostReq
    <3>2. reply' \in [ReplyIds -> Reply] /\ postReq' \in [PostHandlers -> PostReq]
      <4>1. reply' \in [ReplyIds -> Reply]
        BY <1>0, <1>4, <3>1 DEF PostsTypeOK
      <4>2. postReq' \in [PostHandlers -> PostReq]
        BY <1>0, <2>3 DEF PostsTypeOK
      <4> QED
        BY <4>1, <4>2
    <3>3. \A j \in ReplyIds : reply'[j].state # "none" => reply'[j].author \in PostUsers /\ reply'[j].post \in PostIds
      BY <1>0, <1>2, <2>6 DEF PostsTypeOK
    <3> QED
      BY <1>0, <2>4, <3>2, <3>3 DEF PostsTypeOK, events, history, bounds
  <2>9. Grows
    BY <2>4, <2>5, <2>6 DEF Grows
  <2>10. FitReq(q)'
    BY <1>2, <1>4, <2>2, <2>4, <2>5, <2>6 DEF FitReq, Place, Nests, Tells, Writes, WritePc, events
  <2>11. \A o \in PostHandlers : FitReq(postReq[o])'
    BY <2>3, <2>4, <2>9, <2>10, ReqsFit DEF Untouched, events, history
  <2>12. postReq'[p] = q /\ postReq[p].pc = "reply" /\ \A o \in PostHandlers \ {p} : postReq'[o] = postReq[o]
    BY <1>0, <1>1, <1>2, <2>3 DEF PostsTypeOK
  <2>13. ViewsCounted'
    BY <2>2, <2>4, <2>12, ViewsFrame DEF history
  <2>14. AttsOfOneWriter' /\ OneWriter'
    BY <2>2, <2>4, <2>12, AttsFrame DEF WritePc, history
  <2>15. PostsFit' /\ NothingLeft'
    BY <2>4, RowsFrame DEF history
  <2>16. \A j \in ReplyIds \ {i} : reply[j].state # "none" /\ reply[j].parent # Absent =>
           reply[j].parent \in ReplyIds \ {i} /\ reply[reply[j].parent].state # "none"
    BY <1>0, <2>5 DEF RepliesFit, PostsTypeOK, Reply
  <2>17. RepliesFit'
    <3> SUFFICES ASSUME NEW j \in ReplyIds
                 PROVE  IF reply'[j].state = "none" THEN inbox[j] = {} /\ reply'[j].post = Absent
                        ELSE /\ post[reply'[j].post].state # "none"
                             /\ reply'[j].parent # Absent => reply'[reply'[j].parent].state # "none"
      BY <2>4 DEF RepliesFit, events
    <3>1. CASE j = i
      BY <1>2, <2>6, <2>7, <3>1 DEF Standing
    <3>2. CASE j # i
      BY <1>0, <2>6, <2>16, <3>2 DEF RepliesFit
    <3> QED
      BY <3>1, <3>2
  <2>18. RepliesNest'
    <3> SUFFICES ASSUME NEW j \in ReplyIds, reply'[j].state \in Standing
                 PROVE  /\ LivePost(reply'[j].post)
                        /\ reply'[j].parent # Absent =>
                             /\ reply'[reply'[j].parent].state \in Standing
                             /\ reply'[reply'[j].parent].post = reply'[j].post
      BY <2>4 DEF RepliesNest, Standing, LivePost
    <3>1. CASE j = i
      BY <1>4, <2>6, <2>7, <3>1
    <3>2. CASE j # i
      <4>1. reply'[j] = reply[j] /\ reply[j].state # "none"
        BY <2>6, <3>2 DEF Standing
      <4> QED
        BY <1>0, <2>6, <2>16, <3>2, <4>1 DEF RepliesNest, Standing
    <3> QED
      BY <3>1, <3>2
  <2>19. RepliesTold'
    <3> SUFFICES ASSUME NEW j \in ReplyIds, reply'[j].state # "none"
                 PROVE  /\ inbox[j] \subseteq Answered(j)' \ {reply'[j].author}
                        /\ (/\ reply'[j].state \in Standing /\ j \notin lost.replies
                            /\ \A o \in PostHandlers : ~(postReq'[o].pc = "notify" /\ postReq'[o].reply = j))
                           => inbox[j] = Answered(j)' \ {reply'[j].author}
      BY <2>4 DEF RepliesTold, Standing, events, history
    <3>1. CASE j = i
      BY <2>2, <2>5, <2>12, <3>1
    <3>2. CASE j # i
      <4>1. reply'[j] = reply[j] /\ reply[j].state # "none"
        BY <2>6, <3>2
      <4>2. Answered(j)' = Answered(j)
        BY <2>4, <2>6, <2>16, <3>2, <4>1 DEF Answered
      <4>3. ASSUME \A o \in PostHandlers : ~(postReq'[o].pc = "notify" /\ postReq'[o].reply = j)
            PROVE  \A o \in PostHandlers : ~(postReq[o].pc = "notify" /\ postReq[o].reply = j)
        BY <2>12, <4>3
      <4> QED
        BY <1>0, <4>1, <4>2, <4>3 DEF RepliesTold, Standing
    <3> QED
      BY <3>1, <3>2
  <2>20. OneTeller'
    <3>1. \A o \in PostHandlers : postReq[o].pc = "notify" => postReq[o].reply # i
      BY <2>5 DEF IInv, FitReq, Tells
    <3> QED
      BY <1>0, <2>2, <2>12, <3>1 DEF OneTeller
  <2> QED
    BY <2>8, <2>11, <2>13, <2>14, <2>15, <2>17, <2>18, <2>19, <2>20 DEF IInv
<1> QED
  BY <1>1, <1>3, <1>4 DEF InsertReply

(* Who is told of a reply is who wrote what it answers.                    *)
LEMMA NotifiedIs ==
    ASSUME IInv, NEW r \in PostReq, r.pc = "notify", FitReq(r)
    PROVE  /\ r.reply \in ReplyIds /\ reply[r.reply].state # "none" /\ reply[r.reply].author = r.user
           /\ Notified(r) \subseteq Answered(r.reply) /\ Answered(r.reply) \subseteq PostUsers
           /\ reply[r.reply].state \in Standing => Notified(r) = Answered(r.reply)
<1>0. PostsTypeOK /\ RepliesFit /\ RepliesNest /\ PostsFit
  BY DEF IInv
<1>1. /\ r.reply \in ReplyIds /\ reply[r.reply].state # "none" /\ reply[r.reply].author = r.user
      /\ reply[r.reply].post = r.post /\ reply[r.reply].parent = r.parent
      /\ r.post \in PostIds /\ post[r.post].state # "none"
  BY DEF FitReq, Tells, Place
<1>2. Notified(r) \subseteq Answered(r.reply)
  BY <1>1 DEF Notified, Answered
<1>3. post[r.post].author \in PostUsers
  BY <1>0, <1>1 DEF PostsFit
<1>4. r.parent # Absent => r.parent \in ReplyIds /\ reply[r.parent].author \in PostUsers
  BY <1>0, <1>1 DEF PostReq, RepliesFit, PostsTypeOK
<1>5. Answered(r.reply) \subseteq PostUsers
  BY <1>1, <1>3, <1>4 DEF Answered
<1>6. ASSUME reply[r.reply].state \in Standing PROVE Notified(r) = Answered(r.reply)
  <2>1. r.parent # Absent => reply[r.parent].state \in Standing
    BY <1>0, <1>1, <1>6 DEF RepliesNest, Standing
  <2> QED
    BY <1>1, <2>1 DEF Notified, Answered, Standing
<1> QED
  BY <1>1, <1>2, <1>5, <1>6

LEMMA NotifyKeeps == ASSUME IInv, NEW p \in PostHandlers, NotifyReply(p) PROVE IInv'
<1>0. PostsTypeOK /\ FitReq(postReq[p]) /\ RepliesFit /\ RepliesNest /\ RepliesTold /\ OneTeller
  BY DEF IInv
<1>1. PICK r \in PostReq : r = postReq[p]
  BY <1>0 DEF PostsTypeOK
<1>2. r.pc = "notify" /\ FitReq(r)
  BY <1>0, <1>1 DEF NotifyReply
<1>3. PICK i \in ReplyIds, tell \in SUBSET PostUsers :
        /\ i = r.reply /\ tell = Notified(r) \ {r.user}
        /\ reply[i].state # "none" /\ tell \subseteq Answered(i) \ {reply[i].author}
        /\ reply[i].state \in Standing => tell = Answered(i) \ {reply[i].author}
  BY <1>2, NotifiedIs
<1>4. postReq' = [postReq EXCEPT ![p] = NoPostReq] /\ NoPostReq \in PostReq /\ NoPostReq.pc = "idle" /\ FitReq(NoPostReq)'
  BY NoReqType, IdleFits DEF NotifyReply, PostDone
<1>5. UNCHANGED <<post, atts, viewers, liked, reacted, reply, follows, files, told, wrote, ever, mixed, client>>
  BY DEF NotifyReply, rows
<1>6. postReq'[p] = NoPostReq /\ postReq[p].pc = "notify" /\ postReq[p].reply = i /\ \A o \in PostHandlers \ {p} : postReq'[o] = postReq[o]
  BY <1>0, <1>1, <1>2, <1>3, <1>4 DEF PostsTypeOK
<1>7. /\ inbox' \in [ReplyIds -> SUBSET PostUsers] /\ postFaults' \in Nat
      /\ lost' \in [views : [PostIds -> Nat], replies : SUBSET ReplyIds, links : SUBSET PostIds]
      /\ lost'.views = lost.views /\ lost'.links = lost.links
      /\ \A j \in ReplyIds \ {i} : inbox'[j] = inbox[j] /\ (j \in lost'.replies <=> j \in lost.replies)
      /\ inbox'[i] = tell \/ (inbox'[i] = inbox[i] /\ i \in lost'.replies)
  <2>0. lost \in [views : [PostIds -> Nat], replies : SUBSET ReplyIds, links : SUBSET PostIds]
    BY <1>0 DEF PostsTypeOK
  <2>1. CASE inbox' = [inbox EXCEPT ![i] = tell] /\ UNCHANGED <<lost, postFaults>>
    BY <1>0, <2>1 DEF PostsTypeOK
  <2>2. CASE inbox' = inbox /\ postFaults' = postFaults + 1 /\ lost' = [lost EXCEPT !.replies = @ \cup {i}]
    <3>1. lost'.views = lost.views /\ lost'.replies = lost.replies \cup {i} /\ lost'.links = lost.links
          /\ lost' \in [views : [PostIds -> Nat], replies : SUBSET ReplyIds, links : SUBSET PostIds]
      BY <2>0, <2>2
    <3> QED
      BY <1>0, <2>2, <3>1 DEF PostsTypeOK
  <2> QED
    BY <1>1, <1>3, <2>1, <2>2 DEF NotifyReply
<1>8. PostsTypeOK'
  <2>1. postReq' \in [PostHandlers -> PostReq]
    BY <1>0, <1>4 DEF PostsTypeOK
  <2> QED
    BY <1>0, <1>5, <1>7, <2>1 DEF PostsTypeOK
<1>9. Grows
  BY <1>5 DEF Grows
<1>10. \A o \in PostHandlers \ {p} : Untouched(postReq[o])
  <2> SUFFICES ASSUME NEW o \in PostHandlers \ {p} PROVE Untouched(postReq[o])
    OBVIOUS
  <2>1. postReq[o].pc = "notify" => postReq[o].reply \in ReplyIds \ {i}
    BY <1>0, <1>6 DEF OneTeller, IInv, FitReq, Tells
  <2> QED
    BY <1>5, <1>7, <2>1 DEF Untouched
<1>11. \A o \in PostHandlers : FitReq(postReq[o])'
  BY <1>4, <1>9, <1>10, ReqsFit
<1>12. ViewsCounted'
  BY <1>4, <1>5, <1>6, <1>7, ViewsFrame
<1>13. AttsOfOneWriter' /\ OneWriter'
  BY <1>4, <1>5, <1>6, <1>7, AttsFrame DEF WritePc
<1>14. PostsFit' /\ NothingLeft'
  BY <1>5, <1>7, RowsFrame
<1>15. RepliesFit'
  <2>1. \A j \in ReplyIds : reply[j].state = "none" => inbox'[j] = inbox[j]
    BY <1>3, <1>7
  <2> QED
    BY <1>0, <1>5, <2>1 DEF RepliesFit
<1>16. RepliesNest'
  BY <1>0, <1>5 DEF RepliesNest, LivePost
<1>17. RepliesTold'
  <2>0. \A j \in ReplyIds : Answered(j)' = Answered(j)
    BY <1>5 DEF Answered
  <2> SUFFICES ASSUME NEW j \in ReplyIds, reply[j].state # "none"
               PROVE  /\ inbox'[j] \subseteq Answered(j) \ {reply[j].author}
                      /\ (/\ reply[j].state \in Standing /\ j \notin lost'.replies
                          /\ \A o \in PostHandlers : ~(postReq'[o].pc = "notify" /\ postReq'[o].reply = j))
                         => inbox'[j] = Answered(j) \ {reply[j].author}
    BY <1>5, <2>0 DEF RepliesTold, Standing
  <2>1. CASE j = i
    BY <1>0, <1>3, <1>7, <2>1 DEF RepliesTold
  <2>2. CASE j # i
    <3>1. ASSUME \A o \in PostHandlers : ~(postReq'[o].pc = "notify" /\ postReq'[o].reply = j)
          PROVE  \A o \in PostHandlers : ~(postReq[o].pc = "notify" /\ postReq[o].reply = j)
      BY <1>6, <2>2, <3>1
    <3> QED
      BY <1>0, <1>7, <2>2, <3>1 DEF RepliesTold, Standing
  <2> QED
    BY <2>1, <2>2
<1>18. OneTeller'
  BY <1>0, <1>4, <1>6 DEF OneTeller
<1> QED
  BY <1>8, <1>11, <1>12, <1>13, <1>14, <1>15, <1>16, <1>17, <1>18 DEF IInv

----------------------------------------------------------------------------
(* A handler writes the row of x or its links, with nobody else at it, or  *)
(* else x is mixed.                                                        *)
LEMMA LinksStep ==
    ASSUME IInv, Grows, NEW p \in PostHandlers, NEW q \in PostReq, NEW x \in PostIds,
           postReq' = [postReq EXCEPT ![p] = q], FitReq(q)',
           UNCHANGED <<reply, inbox, files>>, lost'.replies = lost.replies,
           \A y \in PostIds \ {x} :
             /\ post'[y] = post[y] /\ atts'[y] = atts[y] /\ wrote'[y] = wrote[y] /\ ever'[y] = ever[y]
             /\ (y \in mixed' <=> y \in mixed) /\ (y \in lost'.links <=> y \in lost.links),
           ever[x] \subseteq ever'[x], atts'[x] \subseteq files \cap ever'[x],
           post[x].state = "live" => post'[x].state = "live",
           postReq[p].pc \notin {"count", "notify"}, q.pc \notin {"count", "notify"},
           q.pc \in WritePc => q.post = x, postReq[p].pc \in WritePc => postReq[p].post = x,
           \A o \in PostHandlers \ {p} : Writing(o, x) => x \in mixed',
           post'[x].state = "live" /\ x \notin mixed' /\ x \notin lost'.links /\ q.pc \notin WritePc
             => atts'[x] = wrote'[x] \cap files
    PROVE  /\ \A o \in PostHandlers : FitReq(postReq[o])'
           /\ RepliesFit' /\ RepliesNest' /\ RepliesTold' /\ OneTeller'
           /\ AttsOfOneWriter' /\ OneWriter'
<1>0. PostsTypeOK /\ AttsOfOneWriter /\ OneWriter
  BY DEF IInv
<1>1. postReq'[p] = q /\ \A o \in PostHandlers \ {p} : postReq'[o] = postReq[o]
  BY <1>0 DEF PostsTypeOK
<1>2. \A o \in PostHandlers \ {p} : Untouched(postReq[o])
  <2> SUFFICES ASSUME NEW o \in PostHandlers \ {p} PROVE Untouched(postReq[o])
    OBVIOUS
  <2>0. postReq[o].pc \in WritePc => ever[postReq[o].post] \subseteq ever'[postReq[o].post]
    BY DEF IInv, FitReq, Place, WritePc
  <2>1. ASSUME postReq[o].pc \in WritePc, post'[postReq[o].post].state = "live", postReq[o].post \notin mixed'
        PROVE  /\ postReq[o].post \notin mixed /\ atts'[postReq[o].post] = atts[postReq[o].post]
               /\ wrote'[postReq[o].post] = wrote[postReq[o].post]
    <3>1. postReq[o].post \in PostIds
      BY <2>1 DEF IInv, FitReq, Place, WritePc
    <3>2. postReq[o].post # x
      BY <2>1 DEF Writing, WritePc
    <3> QED
      BY <2>1, <3>1, <3>2
  <2> QED
    BY <2>0, <2>1 DEF Untouched
<1>3. \A o \in PostHandlers : FitReq(postReq[o])'
  BY <1>2, ReqsFit
<1>4. RepliesFit' /\ RepliesNest' /\ RepliesTold' /\ OneTeller'
  <2>1. \A y \in PostIds : post[y].state # "none" => post'[y].state # "none" /\ post'[y].author = post[y].author
    BY DEF Grows
  <2>2. \A y \in PostIds : post[y].state = "live" => post'[y].state = "live"
    OBVIOUS
  <2>3. \A o \in PostHandlers : postReq'[o].pc = "notify" \/ postReq[o].pc = "notify" => postReq'[o] = postReq[o]
    BY <1>1
  <2> QED
    BY <2>1, <2>2, <2>3, RepliesFrame
<1>5. ASSUME NEW o \in PostHandlers, NEW y \in PostIds, Writing(o, y)', ~Writing(o, y)
      PROVE  o = p /\ y = x
  BY <1>1, <1>5 DEF Writing, WritePc
<1>6. AttsOfOneWriter'
  <2>1. \A y \in PostIds : atts'[y] \subseteq files' \cap ever'[y]
    BY <1>0 DEF AttsOfOneWriter
  <2> SUFFICES ASSUME NEW y \in PostIds, y \notin mixed', y \notin lost'.links, post'[y].state = "live",
                      \A o \in PostHandlers : ~(Writing(o, y)')
               PROVE  atts'[y] = wrote'[y] \cap files'
    BY <2>1 DEF AttsOfOneWriter, LivePost
  <2>2. CASE y = x
    <3>1. q.pc \notin WritePc
      BY <1>1, <2>2 DEF Writing, WritePc
    <3> QED
      BY <2>2, <3>1
  <2>3. CASE y # x
    <3>1. \A o \in PostHandlers : ~Writing(o, y)
      BY <1>1, <2>3 DEF Writing, WritePc
    <3>2. y \notin mixed /\ y \notin lost.links
      BY <2>3
    <3> QED
      BY <1>0, <2>3, <3>1, <3>2 DEF AttsOfOneWriter, LivePost
  <2> QED
    BY <2>2, <2>3
<1>7. OneWriter'
  <2> SUFFICES ASSUME NEW o1 \in PostHandlers, NEW o2 \in PostHandlers, o1 # o2, NEW y \in PostIds,
                      Writing(o1, y)', Writing(o2, y)'
               PROVE  y \in mixed'
    BY DEF OneWriter
  <2>1. CASE Writing(o1, y) /\ Writing(o2, y)
    <3>1. y \in mixed
      BY <1>0, <2>1 DEF OneWriter
    <3> QED
      BY <2>1, <3>1
  <2>2. CASE ~Writing(o1, y)
    <3>1. o1 = p /\ y = x /\ o2 # p
      BY <1>5, <2>2
    <3>2. Writing(o2, x)
      BY <1>1, <3>1 DEF Writing
    <3> QED
      BY <3>1, <3>2
  <2>3. CASE ~Writing(o2, y)
    <3>1. o2 = p /\ y = x /\ o1 # p
      BY <1>5, <2>3
    <3>2. Writing(o1, x)
      BY <1>1, <3>1 DEF Writing
    <3> QED
      BY <3>1, <3>2
  <2> QED
    BY <2>1, <2>2, <2>3
<1> QED
  BY <1>3, <1>4, <1>6, <1>7

(* A statement on the links fails: the post is left as it is.                *)
LEMMA LinksFailKeeps ==
    ASSUME IInv, NEW p \in PostHandlers, postReq[p].pc \in WritePc, LinksFail(p), postFaults' \in Nat,
           UNCHANGED <<post, viewers, liked, reacted, reply, follows, files, events, wrote, ever, mixed, client>>
    PROVE  IInv'
<1>0. PostsTypeOK /\ FitReq(postReq[p])
  BY DEF IInv
<1>1. PICK r \in PostReq : r = postReq[p]
  BY <1>0 DEF PostsTypeOK
<1>2. PICK x \in PostIds : x = r.post
  BY <1>0, <1>1 DEF FitReq, Place, WritePc
<1>3. postReq' = [postReq EXCEPT ![p] = NoPostReq] /\ NoPostReq \in PostReq /\ NoPostReq.pc = "idle" /\ FitReq(NoPostReq)'
  BY NoReqType, IdleFits DEF LinksFail, PostDone
<1>4. lost' = [lost EXCEPT !.links = @ \cup {x}] /\ UNCHANGED atts
  BY <1>1, <1>2 DEF LinksFail
<1>5. /\ lost' \in [views : [PostIds -> Nat], replies : SUBSET ReplyIds, links : SUBSET PostIds]
      /\ lost'.views = lost.views /\ lost'.replies = lost.replies /\ lost'.links = lost.links \cup {x}
  BY <1>0, <1>4 DEF PostsTypeOK
<1>6. PostsTypeOK'
  <2>1. postReq' \in [PostHandlers -> PostReq]
    BY <1>0, <1>3 DEF PostsTypeOK
  <2> QED
    BY <1>0, <1>4, <1>5, <2>1 DEF PostsTypeOK, events
<1>7. Grows
  BY DEF Grows
<1>8. postReq[p].pc \notin {"count", "notify"} /\ postReq[p].post = x
  BY <1>1, <1>2 DEF WritePc
<1>9. \A o \in PostHandlers \ {p} : Writing(o, x) => x \in mixed'
  <2>1. Writing(p, x)
    BY <1>8 DEF Writing, WritePc
  <2> QED
    BY <2>1 DEF IInv, OneWriter
<1>10. /\ \A o \in PostHandlers : FitReq(postReq[o])'
       /\ RepliesFit' /\ RepliesNest' /\ RepliesTold' /\ OneTeller'
       /\ AttsOfOneWriter' /\ OneWriter'
  <2>1. atts'[x] \subseteq files \cap ever'[x] /\ x \in lost'.links
    BY <1>4, <1>5 DEF IInv, AttsOfOneWriter
  <2> QED
    BY <1>3, <1>4, <1>5, <1>7, <1>8, <1>9, <2>1, LinksStep DEF WritePc, events
<1>11. ViewsCounted'
  <2>1. postReq'[p] = NoPostReq /\ \A o \in PostHandlers \ {p} : postReq'[o] = postReq[o]
    BY <1>0, <1>3 DEF PostsTypeOK
  <2> QED
    BY <1>3, <1>5, <1>8, <2>1, ViewsFrame
<1>12. PostsFit' /\ NothingLeft'
  BY <1>4, <1>5, RowsFrame
<1> QED
  BY <1>6, <1>10, <1>11, <1>12 DEF IInv

(* Nothing has happened yet to a post without a row.                         *)
LEMMA FreshIs ==
    ASSUME IInv, NEW x \in PostIds, post[x].state = "none"
    PROVE  /\ \A o \in PostHandlers : ~Writing(o, x) /\ o \notin Counting(x)
           /\ Cardinality(Counting(x)) = 0 /\ atts[x] = {} /\ viewers[x] = {} /\ liked[x] = {}
           /\ reacted[x] = {} /\ ever[x] = {} /\ lost.views[x] = 0 /\ Cardinality(viewers[x]) = 0
<1>1. \A o \in PostHandlers : ~Writing(o, x) /\ o \notin Counting(x)
  BY DEF IInv, FitReq, Place, Writing, Counting
<1>2. Counting(x) = {}
  BY <1>1 DEF Counting
<1> QED
  BY <1>1, <1>2, FS_EmptySet DEF IInv, PostsFit

LEMMA InsertPostKeeps == ASSUME IInv, NEW p \in PostHandlers, InsertPost(p) PROVE IInv'
<1>0. PostsTypeOK /\ FitReq(postReq[p])
  BY DEF IInv
<1>1. PICK r \in PostReq : r = postReq[p]
  BY <1>0 DEF PostsTypeOK
<1>2. r.pc = "insert" /\ r.user \in PostUsers /\ r.left = r.named
  BY <1>0, <1>1 DEF InsertPost, FitReq, Place
<1>3. CASE PostDone(p) /\ UNCHANGED <<post, wrote, ever>>
  BY <1>1, <1>2, <1>3, GivesUp DEF InsertPost, rows, events, history, bounds, WritePc
<1>4. ASSUME NEW x \in PostIds, FreshPost(x), IF r.quote = Absent THEN TRUE ELSE LivePost(r.quote),
             post' = [post EXCEPT ![x] = NewPost(r.user, r.vis, r.text, r.quote)],
             wrote' = [wrote EXCEPT ![x] = r.named], ever' = [ever EXCEPT ![x] = r.named],
             postReq' = [postReq EXCEPT ![p].pc = IF r.left = {} THEN "load" ELSE "attach", ![p].post = x]
      PROVE  IInv'
  <2>1. PICK q \in PostReq : q = [r EXCEPT !.pc = IF r.left = {} THEN "load" ELSE "attach", !.post = x]
    BY DEF PostReq, PostPc
  <2>2. /\ q.pc = IF r.left = {} THEN "load" ELSE "attach"
        /\ q.post = x /\ q.user = r.user /\ q.left = r.left /\ q.named = r.named
    BY <2>1 DEF PostReq
  <2>3. postReq' = [postReq EXCEPT ![p] = q]
    BY <1>0, <1>1, <1>4, <2>1 DEF PostsTypeOK
  <2>4. UNCHANGED <<atts, viewers, liked, reacted, reply, follows, files, events, mixed, lost, bounds>>
    BY DEF InsertPost
  <2>5. post[x].state = "none"
    BY <1>4 DEF FreshPost
  <2>6. /\ post'[x].state = "live" /\ post'[x].author = r.user /\ post'[x].views = 0
        /\ post'[x].quote = r.quote
        /\ \A y \in PostIds \ {x} : post'[y] = post[y] /\ wrote'[y] = wrote[y] /\ ever'[y] = ever[y]
        /\ wrote'[x] = r.left /\ ever'[x] = r.left
    BY <1>0, <1>2, <1>4 DEF PostsTypeOK, NewPost
  <2>7. PostsTypeOK'
    <3>1. NewPost(r.user, r.vis, r.text, r.quote) \in Post
      BY <1>2 DEF NewPost, Post, PostReq, Visibilities
    <3>2. post' \in [PostIds -> Post] /\ postReq' \in [PostHandlers -> PostReq]
      <4>1. post' \in [PostIds -> Post]
        BY <1>0, <1>4, <3>1 DEF PostsTypeOK
      <4>2. postReq' \in [PostHandlers -> PostReq]
        BY <1>0, <2>3 DEF PostsTypeOK
      <4> QED
        BY <4>1, <4>2
    <3>3. \A y \in PostIds : post'[y].state = "live" => post'[y].author \in PostUsers
      BY <1>0, <1>2, <2>6 DEF PostsTypeOK
    <3>4. wrote' \in [PostIds -> SUBSET Atts] /\ ever' \in [PostIds -> SUBSET Atts]
      BY <1>0, <1>4 DEF PostsTypeOK, PostReq
    <3> QED
      BY <1>0, <2>4, <3>2, <3>3, <3>4 DEF PostsTypeOK, events, history, bounds
  <2>8. Grows
    <3>1. \A y \in PostIds : post[y].state # "none" => post'[y] = post[y]
      BY <2>5, <2>6
    <3>2. \A i \in ReplyIds : reply[i].state # "none" => reply[i].post \in PostIds /\ post[reply[i].post].state # "none"
      BY <1>0 DEF PostsTypeOK, IInv, RepliesFit
    <3> QED
      BY <2>4, <3>1, <3>2 DEF Grows
  <2>9. atts[x] = {} /\ atts'[x] = {} /\ ever[x] = {}
    BY <2>4, <2>5, FreshIs
  <2>10. FitReq(q)'
    BY <1>2, <2>2, <2>6, <2>9 DEF FitReq, Place, Nests, Tells, Writes, WritePc
  <2>11. \A o \in PostHandlers : ~Writing(o, x)
    BY <2>5, FreshIs
  <2>12. q.pc \notin WritePc => atts'[x] = wrote'[x] \cap files
    BY <2>2, <2>6, <2>9 DEF WritePc
  <2>120. atts'[x] \subseteq files \cap ever'[x] /\ ever[x] \subseteq ever'[x]
    BY <2>9
  <2>13. /\ \A o \in PostHandlers : FitReq(postReq[o])'
         /\ RepliesFit' /\ RepliesNest' /\ RepliesTold' /\ OneTeller'
         /\ AttsOfOneWriter' /\ OneWriter'
    BY <1>1, <1>2, <2>2, <2>3, <2>4, <2>5, <2>6, <2>8, <2>10, <2>11, <2>12, <2>120, LinksStep DEF WritePc, events
  <2>14. postReq'[p] = q /\ postReq[p].pc = "insert" /\ \A o \in PostHandlers \ {p} : postReq'[o] = postReq[o]
    BY <1>0, <1>1, <1>2, <2>3 DEF PostsTypeOK
  <2>15. ViewsCounted'
    <3>1. \A y \in PostIds : Counting(y)' = Counting(y)
      BY <2>2, <2>14 DEF Counting
    <3>2. post'[x].views + Cardinality(Counting(x)) + lost.views[x] = Cardinality(viewers[x])
      BY <2>5, <2>6, FreshIs
    <3>3. \A y \in PostIds \ {x} : LivePost(y)' => post'[y].views + Cardinality(Counting(y)) + lost.views[y] = Cardinality(viewers[y])
      BY <2>6 DEF IInv, ViewsCounted, LivePost
    <3> QED
      BY <2>4, <3>1, <3>2, <3>3 DEF ViewsCounted
  <2>16. PostsFit'
    BY <1>2, <2>4, <2>6 DEF IInv, PostsFit
  <2>17. NothingLeft'
    <3>1. \A y \in PostIds : post'[y].state = "gone" => y # x /\ post[y].state = "gone" /\ r.quote # y
      BY <1>4, <2>6, Basics DEF LivePost
    <3> QED
      BY <2>4, <2>6, <3>1 DEF IInv, NothingLeft
  <2> QED
    BY <2>7, <2>13, <2>15, <2>16, <2>17 DEF IInv
<1> QED
  BY <1>1, <1>3, <1>4 DEF InsertPost

LEMMA AttachKeeps == ASSUME IInv, NEW p \in PostHandlers, NEW a \in Atts, AttachToPost(p, a) PROVE IInv'
<1>0. PostsTypeOK /\ FitReq(postReq[p])
  BY DEF IInv
<1>1. PICK r \in PostReq : r = postReq[p]
  BY <1>0 DEF PostsTypeOK
<1>2. r.pc \in {"attach", "link"} /\ r.user \in PostUsers /\ r.post \in PostIds /\ a \in r.left
  BY <1>0, <1>1 DEF AttachToPost, FitReq, Place
<1>3. UNCHANGED <<post, viewers, liked, reacted, reply, follows, files, events, wrote, ever, mixed, client>>
  BY DEF AttachToPost
<1>4. CASE LinksFail(p) /\ postFaults' \in Nat
  BY <1>1, <1>2, <1>3, <1>4, LinksFailKeeps DEF WritePc
<1>5. CASE /\ LivePost(r.post) /\ a \in files /\ UNCHANGED <<lost, postFaults>>
           /\ atts' = [atts EXCEPT ![r.post] = @ \cup {a}]
           /\ postReq' = [postReq EXCEPT ![p].left = @ \ {a},
                                         ![p].pc = IF r.left # {a} THEN @
                                                   ELSE IF r.op = "update" THEN "idle" ELSE "load"]
  <2>0. PICK x \in PostIds : x = r.post
    BY <1>2
  <2>01. PICK pc \in PostPc : pc = IF r.left # {a} THEN r.pc ELSE IF r.op = "update" THEN "idle" ELSE "load"
    BY DEF PostReq, PostPc
  <2>1. PICK q \in PostReq : q = [r EXCEPT !.left = r.left \ {a}, !.pc = pc]
    BY DEF PostReq
  <2>2. /\ q.pc = IF r.left # {a} THEN r.pc ELSE IF r.op = "update" THEN "idle" ELSE "load"
        /\ q.post = x /\ q.user = r.user /\ q.left = r.left \ {a} /\ q.named = r.named
    BY <2>0, <2>01, <2>1 DEF PostReq
  <2>3. postReq' = [postReq EXCEPT ![p] = q]
    <3>1. postReq' = [postReq EXCEPT ![p].left = @ \ {a},
                                     ![p].pc = IF r.left # {a} THEN @ ELSE IF r.op = "update" THEN "idle" ELSE "load"]
      BY <1>5
    <3> QED
      BY <1>0, <1>1, <2>01, <2>1, <3>1 DEF PostsTypeOK
  <2>4. UNCHANGED <<post, viewers, liked, reacted, reply, follows, files, events, history, bounds>>
    BY <1>3, <1>5 DEF history, bounds
  <2>5. atts' = [atts EXCEPT ![x] = @ \cup {a}]
    BY <1>5, <2>0
  <2>6. atts'[x] = atts[x] \cup {a} /\ \A y \in PostIds \ {x} : atts'[y] = atts[y]
    BY <1>0, <2>5 DEF PostsTypeOK
  <2>7. PostsTypeOK'
    <3>1. postReq' \in [PostHandlers -> PostReq] /\ atts' \in [PostIds -> SUBSET Atts]
      BY <1>0, <2>3, <2>5 DEF PostsTypeOK
    <3> QED
      BY <1>0, <2>4, <3>1 DEF PostsTypeOK, events, history, bounds
  <2>8. Grows
    BY <2>4 DEF Grows
  <2>9. /\ r.left \subseteq r.named /\ r.named \subseteq ever[x]
        /\ x \notin mixed => r.named = wrote[x] /\ atts[x] = (r.named \ r.left) \cap files
    BY <1>0, <1>1, <1>2, <1>5, <2>0 DEF FitReq, Writes, WritePc
  <2>10. FitReq(q)'
    <3>1. CASE q.pc = "idle"
      BY <3>1, IdleFits
    <3>2. CASE q.pc = "load"
      BY <1>2, <1>5, <2>0, <2>2, <2>4, <3>2 DEF FitReq, Place, Nests, Tells, Writes, WritePc, LivePost
    <3>3. CASE q.pc = r.pc
      <4>1. x \notin mixed => atts'[x] = (q.named \ q.left) \cap files
        BY <1>2, <1>5, <2>2, <2>6, <2>9
      <4>2. Writes(q)'
        BY <1>2, <2>2, <2>4, <2>9, <3>3, <4>1 DEF Writes, history
      <4> QED
        BY <1>2, <1>5, <2>0, <2>2, <2>4, <3>3, <4>2 DEF FitReq, Place, Nests, Tells, LivePost
    <3> QED
      BY <2>2, <3>1, <3>2, <3>3
  <2>11. \A o \in PostHandlers \ {p} : Writing(o, x) => x \in mixed'
    <3>1. Writing(p, x)
      BY <1>1, <1>2, <2>0 DEF Writing
    <3> QED
      BY <2>4, <3>1 DEF IInv, OneWriter, history
  <2>12. /\ x \notin mixed /\ q.pc \notin WritePc => atts'[x] = wrote[x] \cap files
         /\ atts'[x] \subseteq files \cap ever[x]
    <3>1. x \notin mixed /\ q.pc \notin WritePc => atts'[x] = wrote[x] \cap files
      BY <1>2, <1>5, <2>2, <2>6, <2>9 DEF WritePc
    <3>2. atts[x] \subseteq files \cap ever[x]
      BY DEF IInv, AttsOfOneWriter
    <3> QED
      BY <1>2, <1>5, <2>6, <2>9, <3>1, <3>2
  <2>13. q.pc \notin {"count", "notify"} /\ r.pc \notin {"count", "notify"}
    BY <1>2, <2>2
  <2>14. /\ \A o \in PostHandlers : FitReq(postReq[o])'
         /\ RepliesFit' /\ RepliesNest' /\ RepliesTold' /\ OneTeller'
         /\ AttsOfOneWriter' /\ OneWriter'
    BY <1>1, <2>0, <2>2, <2>3, <2>4, <2>6, <2>8, <2>10, <2>11, <2>12, <2>13, LinksStep DEF events, history
  <2>15. postReq'[p] = q /\ postReq[p] = r /\ \A o \in PostHandlers \ {p} : postReq'[o] = postReq[o]
    BY <1>0, <1>1, <2>3 DEF PostsTypeOK
  <2>16. ViewsCounted'
    BY <2>4, <2>13, <2>15, ViewsFrame DEF history
  <2>17. PostsFit' /\ NothingLeft'
    BY <1>5, <2>0, <2>4, <2>6 DEF IInv, PostsFit, NothingLeft, LivePost, history
  <2> QED
    BY <2>7, <2>14, <2>16, <2>17 DEF IInv
<1> QED
  <2>1. UNCHANGED postFaults => postFaults' \in Nat
    BY <1>0 DEF PostsTypeOK
  <2>2. postFaults' = postFaults + 1 => postFaults' \in Nat
    BY <1>0 DEF PostsTypeOK
  <2> QED
    BY <1>1, <1>4, <1>5, <2>1, <2>2 DEF AttachToPost

LEMMA UpdateRowKeeps == ASSUME IInv, NEW p \in PostHandlers, UpdateRow(p) PROVE IInv'
<1>0. PostsTypeOK /\ FitReq(postReq[p])
  BY DEF IInv
<1>1. PICK r \in PostReq : r = postReq[p]
  BY <1>0 DEF PostsTypeOK
<1>2. r.pc = "row" /\ r.user \in PostUsers /\ r.post \in PostIds /\ r.left = r.named
  BY <1>0, <1>1 DEF UpdateRow, FitReq, Place
<1>3. CASE ~(LivePost(r.post) /\ post[r.post].author = r.user)
  BY <1>1, <1>2, <1>3, GivesUp DEF UpdateRow, rows, events, history, bounds, WritePc
<1>4. CASE LivePost(r.post) /\ post[r.post].author = r.user
  <2>0. PICK x \in PostIds : x = r.post
    BY <1>2
  <2>1. PICK q \in PostReq : q = [r EXCEPT !.pc = "unlink"]
    BY DEF PostReq, PostPc
  <2>2. q.pc = "unlink" /\ q.post = x /\ q.user = r.user /\ q.left = r.left /\ q.named = r.named
    BY <2>0, <2>1 DEF PostReq
  <2>3. postReq' = [postReq EXCEPT ![p] = q]
    BY <1>0, <1>1, <1>4, <2>1 DEF UpdateRow, PostGo, PostsTypeOK
  <2>4. UNCHANGED <<atts, viewers, liked, reacted, reply, follows, files, events, bounds>>
    BY DEF UpdateRow
  <2>5. /\ post' = [post EXCEPT ![x].vis = r.vis, ![x].text = TRUE]
        /\ wrote' = [wrote EXCEPT ![x] = r.named]
        /\ ever' = [ever EXCEPT ![x] = @ \cup r.named]
        /\ mixed' = IF \E o \in PostHandlers \ {p} : Writing(o, x) THEN mixed \cup {x} ELSE mixed \ {x}
        /\ lost' = [lost EXCEPT !.links = @ \ {x}]
    BY <1>1, <1>4, <2>0 DEF UpdateRow
  <2>6. /\ \A y \in PostIds :
             /\ post'[y].state = post[y].state /\ post'[y].author = post[y].author
             /\ post'[y].quote = post[y].quote /\ post'[y].views = post[y].views
        /\ \A y \in PostIds \ {x} : post'[y] = post[y] /\ wrote'[y] = wrote[y] /\ ever'[y] = ever[y]
        /\ wrote'[x] = r.left /\ ever'[x] = ever[x] \cup r.left
    BY <1>0, <1>2, <2>5 DEF PostsTypeOK, Post
  <2>61. /\ lost' \in [views : [PostIds -> Nat], replies : SUBSET ReplyIds, links : SUBSET PostIds]
         /\ lost'.views = lost.views /\ lost'.replies = lost.replies /\ lost'.links = lost.links \ {x}
    BY <1>0, <2>5 DEF PostsTypeOK
  <2>7. PostsTypeOK'
    <3>0. r.vis \in Visibilities
      BY DEF PostReq
    <3>00. [post[x] EXCEPT !.vis = r.vis, !.text = TRUE] \in Post
      <4>1. PICK found \in Post : found = post[x]
        BY <1>0 DEF PostsTypeOK
      <4> QED
        BY <3>0, <4>1 DEF Post, Visibilities
    <3>1. post' \in [PostIds -> Post]
      <4>1. post' = [post EXCEPT ![x] = [post[x] EXCEPT !.vis = r.vis, !.text = TRUE]]
        BY <1>0, <2>5 DEF PostsTypeOK
      <4> QED
        BY <1>0, <3>00, <4>1 DEF PostsTypeOK
    <3>2. postReq' \in [PostHandlers -> PostReq] /\ wrote' \in [PostIds -> SUBSET Atts]
          /\ ever' \in [PostIds -> SUBSET Atts] /\ mixed' \subseteq PostIds
      BY <1>0, <2>3, <2>5 DEF PostsTypeOK, PostReq
    <3> QED
      BY <1>0, <2>4, <2>6, <2>61, <3>1, <3>2 DEF PostsTypeOK, events, bounds
  <2>8. Grows
    BY <2>4, <2>6 DEF Grows
  <2>9. FitReq(q)'
    BY <1>2, <1>4, <2>0, <2>2, <2>6 DEF FitReq, Place, Nests, Tells, Writes, WritePc, LivePost
  <2>10. \A o \in PostHandlers \ {p} : Writing(o, x) => x \in mixed'
    BY <2>5
  <2>11. \A y \in PostIds \ {x} : (y \in mixed' <=> y \in mixed) /\ (y \in lost'.links <=> y \in lost.links)
    BY <2>5, <2>61
  <2>12. /\ post[x].state = "live" => post'[x].state = "live"
         /\ ever[x] \subseteq ever'[x] /\ atts'[x] \subseteq files \cap ever'[x]
    BY <2>4, <2>6 DEF IInv, AttsOfOneWriter
  <2>13. /\ \A o \in PostHandlers : FitReq(postReq[o])'
         /\ RepliesFit' /\ RepliesNest' /\ RepliesTold' /\ OneTeller'
         /\ AttsOfOneWriter' /\ OneWriter'
    BY <1>1, <1>2, <2>2, <2>3, <2>4, <2>6, <2>61, <2>8, <2>9, <2>10, <2>11, <2>12, LinksStep DEF WritePc, events
  <2>14. postReq'[p] = q /\ postReq[p] = r /\ \A o \in PostHandlers \ {p} : postReq'[o] = postReq[o]
    BY <1>0, <1>1, <2>3 DEF PostsTypeOK
  <2>15. ViewsCounted'
    BY <1>2, <2>2, <2>4, <2>6, <2>61, <2>14, ViewsFrame
  <2>16. PostsFit' /\ NothingLeft'
    BY <1>4, <2>0, <2>4, <2>6, <2>61 DEF IInv, PostsFit, NothingLeft, LivePost
  <2> QED
    BY <2>7, <2>13, <2>15, <2>16 DEF IInv
<1> QED
  BY <1>3, <1>4

LEMMA UnlinkKeeps == ASSUME IInv, NEW p \in PostHandlers, DeleteAttachmentsForPost(p) PROVE IInv'
<1>0. PostsTypeOK /\ FitReq(postReq[p])
  BY DEF IInv
<1>1. PICK r \in PostReq : r = postReq[p]
  BY <1>0 DEF PostsTypeOK
<1>2. r.pc = "unlink" /\ r.user \in PostUsers /\ r.post \in PostIds /\ post[r.post].state # "none"
  BY <1>0, <1>1 DEF DeleteAttachmentsForPost, FitReq, Place
<1>3. PICK x \in PostIds : x = r.post
  BY <1>2
<1>4. UNCHANGED <<post, viewers, liked, reacted, reply, follows, files, events, wrote, ever, mixed, client>>
  BY DEF DeleteAttachmentsForPost
<1>5. CASE LinksFail(p) /\ postFaults' \in Nat
  BY <1>1, <1>2, <1>4, <1>5, LinksFailKeeps DEF WritePc
<1>6. CASE /\ atts' = [atts EXCEPT ![r.post] = {}] /\ UNCHANGED <<lost, postFaults>>
           /\ postReq' = IF r.left = {} THEN [postReq EXCEPT ![p] = NoPostReq]
                                         ELSE [postReq EXCEPT ![p].pc = "link"]
  <2>1. /\ atts'[x] = {} /\ \A y \in PostIds \ {x} : atts'[y] = atts[y]
        /\ atts' \in [PostIds -> SUBSET Atts]
    BY <1>0, <1>3, <1>6 DEF PostsTypeOK
  <2>2. /\ r.left = r.named /\ r.named \subseteq ever[x]
        /\ LivePost(x) /\ x \notin mixed => r.named = wrote[x]
    BY <1>0, <1>1, <1>2, <1>3 DEF FitReq, Place, Writes, WritePc
  <2>3. Grows
    BY <1>4 DEF Grows
  <2>4. PICK q \in PostReq : /\ postReq' = [postReq EXCEPT ![p] = q] /\ FitReq(q)'
                             /\ (q.pc = "link" /\ q.post = x) \/ (q.pc = "idle" /\ r.left = {})
    <3>1. CASE r.left = {}
      <4>1. postReq' = [postReq EXCEPT ![p] = NoPostReq]
        BY <1>6, <3>1
      <4> QED
        BY <3>1, <4>1, NoReqType, IdleFits
    <3>2. CASE r.left # {}
      <4>1. PICK q \in PostReq : q = [r EXCEPT !.pc = "link"]
        BY DEF PostReq, PostPc
      <4>2. q.pc = "link" /\ q.post = x /\ q.user = r.user /\ q.left = r.left /\ q.named = r.named
        BY <1>3, <4>1 DEF PostReq
      <4>3. postReq' = [postReq EXCEPT ![p] = q]
        BY <1>0, <1>1, <1>6, <3>2, <4>1 DEF PostsTypeOK
      <4>4. Writes(q)'
        BY <1>4, <2>1, <2>2, <4>2 DEF Writes, LivePost
      <4>5. FitReq(q)'
        BY <1>2, <1>3, <1>4, <4>2, <4>4 DEF FitReq, Place, Nests, Tells
      <4> QED
        BY <4>2, <4>3, <4>5
    <3> QED
      BY <3>1, <3>2
  <2>5. PostsTypeOK'
    <3>1. postReq' \in [PostHandlers -> PostReq] /\ atts' \in [PostIds -> SUBSET Atts]
      BY <1>0, <2>1, <2>4 DEF PostsTypeOK
    <3> QED
      BY <1>0, <1>4, <1>6, <3>1 DEF PostsTypeOK, events
  <2>6. \A o \in PostHandlers \ {p} : Writing(o, x) => x \in mixed'
    <3>1. Writing(p, x)
      BY <1>1, <1>2, <1>3 DEF Writing
    <3> QED
      BY <1>4, <3>1 DEF IInv, OneWriter
  <2>7. post'[x].state = "live" /\ x \notin mixed' /\ q.pc \notin WritePc => atts'[x] = wrote'[x] \cap files
    BY <1>4, <2>1, <2>2, <2>4 DEF LivePost, WritePc
  <2>8. /\ \A o \in PostHandlers : FitReq(postReq[o])'
         /\ RepliesFit' /\ RepliesNest' /\ RepliesTold' /\ OneTeller'
         /\ AttsOfOneWriter' /\ OneWriter'
    BY <1>1, <1>2, <1>3, <1>4, <1>6, <2>1, <2>3, <2>4, <2>6, <2>7, LinksStep DEF WritePc, events
  <2>9. postReq'[p] = q /\ postReq[p] = r /\ \A o \in PostHandlers \ {p} : postReq'[o] = postReq[o]
    BY <1>0, <1>1, <2>4 DEF PostsTypeOK
  <2>10. ViewsCounted'
    BY <1>2, <1>4, <1>6, <2>4, <2>9, ViewsFrame
  <2>11. PostsFit' /\ NothingLeft'
    BY <1>2, <1>3, <1>4, <1>6, <2>1 DEF IInv, PostsFit, NothingLeft
  <2> QED
    BY <2>5, <2>8, <2>10, <2>11 DEF IInv
<1> QED
  <2>1. UNCHANGED postFaults => postFaults' \in Nat
    BY <1>0 DEF PostsTypeOK
  <2>2. postFaults' = postFaults + 1 => postFaults' \in Nat
    BY <1>0 DEF PostsTypeOK
  <2> QED
    BY <1>1, <1>5, <1>6, <2>1, <2>2 DEF DeleteAttachmentsForPost

----------------------------------------------------------------------------
LEMMA DeletePostKeeps == ASSUME IInv, NEW u \in PostUsers, NEW x \in PostIds, DeletePost(u, x) PROVE IInv'
<1>0. /\ PostsTypeOK /\ RepliesFit /\ RepliesNest /\ RepliesTold /\ OneTeller /\ PostsFit /\ NothingLeft
      /\ AttsOfOneWriter /\ OneWriter
  BY DEF IInv
<1>1. post[x].state = "live" /\ UNCHANGED <<follows, files, events, postReq, history, bounds>>
  BY DEF DeletePost, LivePost
<1>2. /\ post' \in [PostIds -> Post]
      /\ post'[x].state = "gone" /\ post'[x].quote = Absent
      /\ \A y \in PostIds :
           /\ post'[y].author = post[y].author /\ post'[y].views = post[y].views
           /\ y # x => post'[y].state = post[y].state
           /\ post'[y].quote # x /\ (post'[y].quote = post[y].quote \/ post'[y].quote = Absent)
  <2>1. post' = [y \in PostIds |->
                  IF y = x THEN [post[x] EXCEPT !.state = "gone", !.quote = Absent]
                  ELSE [post[y] EXCEPT !.quote = IF @ = x THEN Absent ELSE @]]
    BY DEF DeletePost
  <2>2. ASSUME NEW y \in PostIds
        PROVE  (IF y = x THEN [post[x] EXCEPT !.state = "gone", !.quote = Absent]
                ELSE [post[y] EXCEPT !.quote = IF @ = x THEN Absent ELSE @]) \in Post
    <3>1. PICK found \in Post : found = post[y]
      BY <1>0 DEF PostsTypeOK
    <3>2. [found EXCEPT !.state = "gone", !.quote = Absent] \in Post
      BY DEF Post
    <3>3. PICK to \in PostIds \cup {Absent} : to = IF found.quote = x THEN Absent ELSE found.quote
      BY DEF Post
    <3>4. [found EXCEPT !.quote = to] \in Post
      BY DEF Post
    <3> QED
      BY <3>1, <3>2, <3>3, <3>4
  <2>3. post' \in [PostIds -> Post]
    BY <2>1, <2>2
  <2>4. post'[x] = [post[x] EXCEPT !.state = "gone", !.quote = Absent] /\ post[x] \in Post
    BY <1>0, <2>1 DEF PostsTypeOK
  <2>5. post'[x].state = "gone" /\ post'[x].quote = Absent /\ post'[x].author = post[x].author
        /\ post'[x].views = post[x].views
    BY <2>4 DEF Post
  <2>6. ASSUME NEW y \in PostIds, y # x
        PROVE  /\ post'[y].author = post[y].author /\ post'[y].views = post[y].views
               /\ post'[y].state = post[y].state
               /\ post'[y].quote # x /\ (post'[y].quote = post[y].quote \/ post'[y].quote = Absent)
    <3>1. post'[y] = [post[y] EXCEPT !.quote = IF @ = x THEN Absent ELSE @] /\ post[y] \in Post
      BY <1>0, <2>1, <2>6 DEF PostsTypeOK
    <3> QED
      BY <3>1, Basics DEF Post
  <2> QED
    BY <2>3, <2>5, <2>6, Basics
<1>3. /\ atts'[x] = {} /\ viewers'[x] = {} /\ liked'[x] = {} /\ reacted'[x] = {}
      /\ \A y \in PostIds \ {x} : /\ atts'[y] = atts[y] /\ viewers'[y] = viewers[y]
                                  /\ liked'[y] = liked[y] /\ reacted'[y] = reacted[y]
      /\ atts' \in [PostIds -> SUBSET Atts] /\ viewers' \in [PostIds -> SUBSET PostUsers]
      /\ liked' \in [PostIds -> SUBSET PostUsers] /\ reacted' \in [PostIds -> SUBSET PostUsers]
  BY <1>0 DEF DeletePost, PostsTypeOK
<1>4. /\ reply' \in [ReplyIds -> Reply]
      /\ \A i \in ReplyIds :
           /\ reply'[i].author = reply[i].author /\ reply'[i].post = reply[i].post
           /\ reply'[i].parent = reply[i].parent
           /\ reply[i].post # x => reply'[i] = reply[i]
           /\ reply[i].post = x => reply'[i].state = "gone"
  BY <1>0 DEF DeletePost, PostsTypeOK, Reply
<1>5. \A i \in ReplyIds : reply[i].state = "none" \/ reply[i].post \in PostIds
  BY <1>0 DEF PostsTypeOK
<1>6. PostsTypeOK'
  <2>1. \A i \in ReplyIds : reply'[i].state # "none" => reply'[i].author \in PostUsers /\ reply'[i].post \in PostIds
    <3> SUFFICES ASSUME NEW i \in ReplyIds, reply'[i].state # "none"
                 PROVE  reply'[i].author \in PostUsers /\ reply'[i].post \in PostIds
      OBVIOUS
    <3>1. CASE reply[i].post # x
      BY <1>0, <1>4, <3>1 DEF PostsTypeOK
    <3>2. CASE reply[i].post = x /\ reply[i].state # "none"
      BY <1>0, <1>4, <3>2 DEF PostsTypeOK
    <3>3. reply[i].state = "none" => reply[i].post # x
      BY <1>0, Basics DEF RepliesFit
    <3> QED
      BY <3>1, <3>2, <3>3
  <2>2. \A y \in PostIds : post'[y].state = "live" => post'[y].author \in PostUsers
    BY <1>0, <1>2 DEF PostsTypeOK
  <2> QED
    <3>1. post' \in [PostIds -> Post] /\ reply' \in [ReplyIds -> Reply]
      BY <1>2, <1>4
    <3>2. /\ atts' \in [PostIds -> SUBSET Atts] /\ viewers' \in [PostIds -> SUBSET PostUsers]
          /\ liked' \in [PostIds -> SUBSET PostUsers] /\ reacted' \in [PostIds -> SUBSET PostUsers]
      BY <1>3
    <3> QED
      BY <1>0, <1>1, <2>1, <2>2, <3>1, <3>2 DEF PostsTypeOK, events, history, bounds
<1>7. Grows
  BY <1>1, <1>2, <1>4, <1>5 DEF Grows
<1>8. \A o \in PostHandlers : FitReq(postReq[o])'
  <2>1. ASSUME NEW o \in PostHandlers PROVE Untouched(postReq[o])
    <3>1. postReq[o].pc \in WritePc => postReq[o].post \in PostIds
      BY DEF IInv, FitReq, Place, WritePc
    <3> QED
      BY <1>1, <1>2, <1>3, <3>1 DEF Untouched, events, history
  <2> QED
    BY <1>1, <1>7, <2>1, ReqsKept
<1>9. ViewsCounted'
  BY <1>1, <1>2, <1>3, ViewsFrame DEF history
<1>10. AttsOfOneWriter' /\ OneWriter'
  <2>1. \A y \in PostIds : /\ atts'[y] \subseteq atts[y]
                           /\ post'[y].state = "live" => y # x /\ post[y].state = "live" /\ atts'[y] = atts[y]
    BY <1>2, <1>3
  <2> QED
    BY <1>1, <2>1, AttsFrame DEF history
<1>11. PostsFit'
  BY <1>0, <1>1, <1>2, <1>3 DEF PostsFit, history
<1>12. NothingLeft'
  <2> SUFFICES ASSUME NEW z \in PostIds, post'[z].state = "gone"
               PROVE  /\ atts'[z] = {} /\ viewers'[z] = {} /\ liked'[z] = {} /\ reacted'[z] = {}
                      /\ \A y \in PostIds : post'[y].quote # z
    BY DEF NothingLeft
  <2>1. CASE z = x
    BY <1>2, <1>3, <2>1
  <2>2. CASE z # x
    <3>1. post[z].state = "gone"
      BY <1>2, <2>2
    <3> QED
      BY <1>0, <1>2, <1>3, <2>2, <3>1, Basics DEF NothingLeft
  <2> QED
    BY <2>1, <2>2
<1>13. \A i \in ReplyIds : /\ reply'[i].state = "none" <=> reply[i].state = "none"
                           /\ reply'[i].state \in Standing => reply[i].post # x /\ reply'[i] = reply[i]
  <2>1. \A i \in ReplyIds : reply[i].state = "none" => reply[i].post # x
    BY <1>0, Basics DEF RepliesFit
  <2> QED
    BY <1>4, <2>1 DEF Standing
<1>14. \A i \in ReplyIds : reply[i].parent = Absent \/ reply[i].parent \in ReplyIds
  BY <1>0 DEF PostsTypeOK, Reply
<1>15. RepliesFit'
  <2>1. \A y \in PostIds : post'[y].state = "none" => post[y].state = "none"
    BY <1>2
  <2> QED
    BY <1>0, <1>1, <1>4, <1>5, <1>13, <1>14, <2>1 DEF RepliesFit, events
<1>16. RepliesNest'
  <2> SUFFICES ASSUME NEW i \in ReplyIds, reply'[i].state \in Standing
               PROVE  /\ post'[reply[i].post].state = "live"
                      /\ reply[i].parent # Absent =>
                           /\ reply'[reply[i].parent].state \in Standing
                           /\ reply'[reply[i].parent].post = reply[i].post
    BY <1>4 DEF RepliesNest, LivePost, Standing
  <2>1. reply[i].post # x /\ reply[i].state \in Standing
    BY <1>13
  <2>2. reply[i].post \in PostIds
    BY <1>5, <2>1 DEF Standing
  <2> QED
    BY <1>0, <1>2, <1>4, <1>14, <2>1, <2>2 DEF RepliesNest, LivePost, Standing
<1>17. RepliesTold'
  <2> SUFFICES ASSUME NEW i \in ReplyIds, reply[i].state # "none"
               PROVE  /\ inbox[i] \subseteq Answered(i)' \ {reply[i].author}
                      /\ (/\ reply'[i].state \in Standing /\ i \notin lost.replies
                          /\ \A o \in PostHandlers : ~(postReq[o].pc = "notify" /\ postReq[o].reply = i))
                         => inbox[i] = Answered(i)' \ {reply[i].author}
    BY <1>1, <1>4, <1>13 DEF RepliesTold, Standing, events, history
  <2>1. Answered(i)' = Answered(i)
    BY <1>2, <1>4, <1>5, <1>14 DEF Answered
  <2>2. reply'[i].state \in Standing => reply[i].state \in Standing
    BY <1>13
  <2> QED
    BY <1>0, <2>1, <2>2 DEF RepliesTold, Standing
<1>18. OneTeller'
  BY <1>0, <1>1 DEF OneTeller
<1> QED
  BY <1>6, <1>8, <1>9, <1>10, <1>11, <1>12, <1>15, <1>16, <1>17, <1>18 DEF IInv

----------------------------------------------------------------------------
LEMMA DeleteAttachmentKeeps == ASSUME IInv, NEW a, DeleteAttachment(a) PROVE IInv'
<1>0. PostsTypeOK /\ AttsOfOneWriter /\ OneWriter
  BY DEF IInv
<1>1. /\ UNCHANGED <<post, viewers, liked, reacted, reply, follows, events, postReq, history, bounds>>
      /\ files' = files \ {a} /\ \A x \in PostIds : atts'[x] = atts[x] \ {a}
      /\ atts' \in [PostIds -> SUBSET Atts]
  BY <1>0 DEF DeleteAttachment, PostsTypeOK
<1>2. \A x \in PostIds : atts'[x] = atts[x] \cap files'
  BY <1>0, <1>1 DEF AttsOfOneWriter
<1>3. PostsTypeOK'
  BY <1>0, <1>1 DEF PostsTypeOK, events, history, bounds
<1>4. Grows
  BY <1>1 DEF Grows
<1>5. \A p \in PostHandlers : FitReq(postReq[p])'
  <2>1. ASSUME NEW p \in PostHandlers PROVE Untouched(postReq[p])
    <3>1. postReq[p].pc \in WritePc => postReq[p].post \in PostIds
      BY DEF IInv, FitReq, Place, WritePc
    <3> QED
      BY <1>1, <1>2, <3>1 DEF Untouched, events, history
  <2> QED
    BY <1>1, <1>4, <2>1, ReqsKept
<1>6. ViewsCounted'
  BY <1>1, ViewsFrame DEF history
<1>7. RepliesFit' /\ RepliesNest' /\ RepliesTold' /\ OneTeller'
  BY <1>1, RepliesFrame DEF events, history
<1>8. AttsOfOneWriter'
  <2> SUFFICES ASSUME NEW x \in PostIds
               PROVE  /\ atts'[x] \subseteq files' \cap ever[x]
                      /\ (/\ LivePost(x) /\ x \notin mixed /\ x \notin lost.links
                          /\ \A p \in PostHandlers : ~Writing(p, x)) => atts'[x] = wrote[x] \cap files'
    BY <1>1 DEF AttsOfOneWriter, LivePost, Writing, history
  <2> QED
    BY <1>0, <1>1, <1>2 DEF AttsOfOneWriter
<1>9. OneWriter'
  BY <1>0, <1>1 DEF OneWriter, Writing, history
<1>10. PostsFit' /\ NothingLeft'
  BY <1>1, <1>2 DEF IInv, PostsFit, NothingLeft, history
<1> QED
  BY <1>3, <1>5, <1>6, <1>7, <1>8, <1>9, <1>10 DEF IInv

----------------------------------------------------------------------------
LEMMA PostInitHolds == ASSUME PostsInit PROVE IInv
<1>1. NoPost \in Post /\ NoPost.state = "none" /\ NoReply \in Reply /\ NoReply.state = "none" /\ NoReply.post = Absent
  <2>1. NewPost(Absent, "public", FALSE, Absent) \in Post
    BY DEF NewPost, Post, Visibilities
  <2>2. NewReply(Absent, Absent, Absent) \in Reply /\ NewReply(Absent, Absent, Absent).post = Absent
    BY DEF NewReply, Reply
  <2>3. NoPost \in Post /\ NoPost.state = "none"
    BY <2>1 DEF NoPost, Post
  <2>4. NoReply \in Reply /\ NoReply.state = "none" /\ NoReply.post = Absent
    BY <2>2 DEF NoReply, Reply
  <2> QED
    BY <2>3, <2>4
<1>2. \A x \in PostIds : post[x].state = "none"
  BY <1>1 DEF PostsInit
<1>3. \A i \in ReplyIds : reply[i].state = "none" /\ reply[i].post = Absent /\ inbox[i] = {}
  BY <1>1 DEF PostsInit
<1>4. \A p \in PostHandlers : postReq[p] \in PostReq /\ postReq[p].pc = "idle"
  BY NoReqType DEF PostsInit
<1>5. PostsTypeOK
  <2>1. lost \in [views : [PostIds -> Nat], replies : SUBSET ReplyIds, links : SUBSET PostIds]
    BY DEF PostsInit
  <2>2. post \in [PostIds -> Post] /\ reply \in [ReplyIds -> Reply]
    BY <1>1 DEF PostsInit
  <2> QED
    BY <1>2, <1>3, <2>1, <2>2, NoReqType DEF PostsInit, PostsTypeOK
<1>6. \A p \in PostHandlers : FitReq(postReq[p])
  BY <1>4, IdleFits
<1>7. OneWriter /\ OneTeller
  BY <1>4 DEF OneWriter, OneTeller, Writing
<1>8. PostsFit /\ RepliesFit /\ NothingLeft
  BY <1>2, <1>3 DEF PostsInit, PostsFit, RepliesFit, NothingLeft
<1>9. ViewsCounted /\ AttsOfOneWriter
  BY <1>2 DEF PostsInit, ViewsCounted, AttsOfOneWriter, LivePost
<1>10. RepliesNest /\ RepliesTold
  BY <1>3 DEF RepliesNest, RepliesTold
<1> QED
  BY <1>5, <1>6, <1>7, <1>8, <1>9, <1>10 DEF IInv

LEMMA StepHolds == ASSUME IInv, [PostsNext]_postsVars PROVE IInv'
<1>1. client.users \subseteq PostUsers /\ client.by \subseteq PostHandlers
  BY ClientIs DEF IInv, PostsTypeOK
<1>2. ASSUME NEW p \in PostHandlers, Step(p) PROVE IInv'
  <2>1. CASE InsertPost(p)
    BY <2>1, InsertPostKeeps
  <2>2. CASE LoadPost(p)
    BY <2>2, LoadQuiet
  <2>3. CASE PushPost(p)
    BY <2>3, PushMarks
  <2>4. CASE \E a \in Atts : AttachToPost(p, a)
    BY <2>4, AttachKeeps
  <2>5. CASE UpdateRow(p)
    BY <2>5, UpdateRowKeeps
  <2>6. CASE DeleteAttachmentsForPost(p)
    BY <2>6, UnlinkKeeps
  <2>7. CASE InsertView(p)
    BY <2>7, InsertViewKeeps
  <2>8. CASE CountView(p)
    BY <2>8, CountViewKeeps
  <2>9. CASE CheckParent(p)
    BY <2>9, ParentQuiet
  <2>10. CASE InsertReply(p)
    BY <2>10, InsertReplyKeeps
  <2>11. CASE NotifyReply(p)
    BY <2>11, NotifyKeeps
  <2>12. CASE WriteReply(p)
    BY <2>12, WriteKeeps
  <2>13. CASE InsertFavorite(p)
    BY <2>13, FavoriteMarks
  <2> QED
    BY <1>2, <2>1, <2>2, <2>3, <2>4, <2>5, <2>6, <2>7, <2>8, <2>9, <2>10, <2>11, <2>12, <2>13 DEF Step
<1>3. ASSUME NEW p \in client.by, NEW u \in client.users, Ask(p, u) PROVE IInv'
  BY <1>1, <1>3, AskQuiet
<1>4. ASSUME NEW u \in client.users, AtOnce(u) PROVE IInv'
  <2>1. ASSUME NEW x \in PostIds, DeletePost(u, x) PROVE IInv'
    BY <1>1, <2>1, DeletePostKeeps
  <2>2. ASSUME NEW x \in PostIds,
               UnfavoritePost(u, x) \/ SetPostReaction(u, x) \/ RemovePostReaction(u, x) \/ PinPost(u, x)
        PROVE  IInv'
    BY <1>1, <2>2, AtOnceMarks
  <2>3. ASSUME NEW v \in client.users, FollowUser(u, v) \/ UnfollowUser(u, v) PROVE IInv'
    BY <1>1, <2>3, FollowMarks
  <2> QED
    BY <1>4, <2>1, <2>2, <2>3 DEF AtOnce
<1>5. ASSUME UNCHANGED postsVars PROVE IInv'
  <2>1. \A p \in PostHandlers : FitReq(postReq[p])'
    <3>1. Grows
      BY <1>5 DEF postsVars, Grows
    <3> QED
      BY <1>5, <3>1, ReqsKept DEF postsVars, Untouched
  <2>2. \A x \in PostIds : Counting(x)' = Counting(x)
    BY <1>5 DEF postsVars, Counting
  <2>3. PostsTypeOK'
    BY <1>5 DEF postsVars, IInv, PostsTypeOK
  <2>4. OneWriter' /\ OneTeller' /\ PostsFit' /\ RepliesFit' /\ RepliesNest' /\ NothingLeft'
    BY <1>5 DEF postsVars, IInv, OneWriter, OneTeller, PostsFit, RepliesFit, RepliesNest, NothingLeft, Writing, LivePost
  <2>5. ViewsCounted' /\ RepliesTold' /\ AttsOfOneWriter'
    BY <1>5, <2>2 DEF postsVars, IInv, ViewsCounted, RepliesTold, AttsOfOneWriter, Writing, LivePost, Answered
  <2> QED
    BY <2>1, <2>3, <2>4, <2>5 DEF IInv
<1>6. ASSUME NEW a \in Atts, DeleteAttachment(a) PROVE IInv'
  BY <1>6, DeleteAttachmentKeeps
<1> QED
  BY <1>2, <1>3, <1>4, <1>5, <1>6 DEF PostsNext

(* The views of a post are counted, replies hang where they belong and are *)
(* told to whom they answer, the attachments exist and were named by a     *)
(* writer of the post, by its last one unless two wrote at once or a       *)
(* statement of his failed, and nothing refers to a post that is gone:     *)
(* CreatePost, UpdatePost, DeletePost, RecordView, CreateReply and the     *)
(* others, interleaved statement by statement, failed statements included, *)
(* and attachments deleted meanwhile.                                      *)
THEOREM PostsCorrect == PostsSpec => []PostInv
<1>1. PostsInit => IInv
  BY PostInitHolds
<1>2. IInv /\ [PostsNext]_postsVars => IInv'
  BY StepHolds
<1>3. IInv => PostInv
  BY DEF IInv, PostInv
<1> QED
  BY <1>1, <1>2, <1>3, PTL DEF PostsSpec

----------------------------------------------------------------------------
Stand(x) == post[x].state = "gone" => post'[x] = post[x]
Keep(i) ==
    /\ reply[i].state # "none" =>
         /\ reply'[i].author = reply[i].author /\ reply'[i].post = reply[i].post
         /\ reply'[i].parent = reply[i].parent
    /\ reply[i].state \in {"deleted", "gone"} =>
         reply'[i].body = reply[i].body /\ reply'[i].state \in {reply[i].state, "gone"}
    /\ inbox[i] # {} => inbox'[i] = inbox[i]

Fine(x, i) == (x \in PostIds => Stand(x)) /\ (i \in ReplyIds => Keep(i))

LEMMA AskStands == ASSUME NEW p, NEW u, Ask(p, u) PROVE UNCHANGED <<post, reply, inbox>>
BY DEF Ask, CreatePost, UpdatePost, GetPost, FavoritePost, CreateReply, ChangeReply, Quietly, rows, events

LEMMA StepStands ==
    ASSUME IInv, NEW p \in PostHandlers, Step(p), NEW x, NEW i
    PROVE  Fine(x, i)
<1>0. PostsTypeOK /\ FitReq(postReq[p])
  BY DEF IInv
<1>1. PICK r \in PostReq : r = postReq[p]
  BY <1>0 DEF PostsTypeOK
<1>2. CASE InsertPost(p)
  <2>1. UNCHANGED <<reply, inbox>>
    BY <1>2 DEF InsertPost, events
  <2>2. x \in PostIds /\ post[x].state = "gone" => post'[x] = post[x]
    BY <1>0, <1>2 DEF InsertPost, FreshPost, PostsTypeOK
  <2> QED
    BY <2>1, <2>2 DEF Fine, Stand, Keep
<1>3. CASE LoadPost(p) \/ PushPost(p) \/ (\E a \in Atts : AttachToPost(p, a)) \/ DeleteAttachmentsForPost(p)
        \/ InsertView(p) \/ CheckParent(p) \/ InsertFavorite(p)
  <2>1. UNCHANGED <<post, reply, inbox>>
    BY <1>3 DEF LoadPost, PushPost, AttachToPost, DeleteAttachmentsForPost, InsertView, CheckParent,
                InsertFavorite, Quietly, rows, events
  <2> QED
    BY <2>1 DEF Fine, Stand, Keep
<1>4. CASE UpdateRow(p)
  <2>1. UNCHANGED <<reply, inbox>>
    BY <1>4 DEF UpdateRow, events
  <2>2. x \in PostIds /\ post[x].state = "gone" => post'[x] = post[x]
    BY <1>0, <1>4 DEF UpdateRow, PostsTypeOK, LivePost
  <2> QED
    BY <2>1, <2>2 DEF Fine, Stand, Keep
<1>5. CASE CountView(p)
  <2>1. UNCHANGED <<reply, inbox>>
    BY <1>5 DEF CountView, events
  <2>2. x \in PostIds /\ post[x].state = "gone" => post'[x] = post[x]
    <3>1. CASE UNCHANGED post
      BY <3>1
    <3>2. CASE post' = [post EXCEPT ![postReq[p].post].views = IF LivePost(postReq[p].post) THEN @ + 1 ELSE @]
      BY <1>0, <3>2 DEF PostsTypeOK, LivePost, Post
    <3> QED
      BY <1>5, <3>1, <3>2 DEF CountView
  <2> QED
    BY <2>1, <2>2 DEF Fine, Stand, Keep
<1>6. CASE InsertReply(p)
  <2>1. UNCHANGED <<post, inbox>>
    BY <1>6 DEF InsertReply, events
  <2>2. i \in ReplyIds /\ reply[i].state # "none" => reply'[i] = reply[i]
    BY <1>0, <1>6 DEF InsertReply, FreshReply, PostsTypeOK
  <2> QED
    BY <2>1, <2>2 DEF Fine, Stand, Keep
<1>7. CASE NotifyReply(p)
  <2>1. UNCHANGED <<post, reply>>
    BY <1>7 DEF NotifyReply, rows
  <2>2. i \in ReplyIds /\ inbox[i] # {} => inbox'[i] = inbox[i]
    BY <1>0, <1>7 DEF NotifyReply, PostsTypeOK, FitReq, Tells
  <2> QED
    BY <2>1, <2>2 DEF Fine, Stand, Keep
<1>8. CASE WriteReply(p)
  <2>1. UNCHANGED <<post, inbox>>
    BY <1>8 DEF WriteReply, events
  <2>2. CASE UNCHANGED reply
    BY <2>1, <2>2 DEF Fine, Stand, Keep
  <2>3. CASE MayChange(r.reply, r.user) /\ reply' = [reply EXCEPT ![r.reply].state = "deleted"]
    <3>1. i \in ReplyIds =>
          /\ reply[i].state # "live" => reply'[i] = reply[i]
          /\ reply'[i].author = reply[i].author /\ reply'[i].post = reply[i].post
          /\ reply'[i].parent = reply[i].parent
      BY <1>0, <2>3 DEF PostsTypeOK, Reply, MayChange, LiveReply
    <3> QED
      BY <2>1, <3>1 DEF Fine, Stand, Keep
  <2>4. CASE MayChange(r.reply, r.user) /\ reply' = [reply EXCEPT ![r.reply].body = IF @ < MaxBody THEN @ + 1 ELSE @]
    <3>1. i \in ReplyIds =>
          /\ reply[i].state # "live" => reply'[i] = reply[i]
          /\ reply'[i].author = reply[i].author /\ reply'[i].post = reply[i].post
          /\ reply'[i].parent = reply[i].parent
      BY <1>0, <2>4 DEF PostsTypeOK, Reply, MayChange, LiveReply
    <3> QED
      BY <2>1, <3>1 DEF Fine, Stand, Keep
  <2> QED
    BY <1>1, <1>8, <2>2, <2>3, <2>4 DEF WriteReply
<1> QED
  BY <1>2, <1>3, <1>4, <1>5, <1>6, <1>7, <1>8 DEF Step

LEMMA AtOnceStands ==
    ASSUME IInv, NEW u \in PostUsers, AtOnce(u), NEW x, NEW i
    PROVE  Fine(x, i)
<1>0. PostsTypeOK
  BY DEF IInv
<1>1. ASSUME NEW z \in PostIds, DeletePost(u, z) PROVE Fine(x, i)
  <2>1. post[z].state = "live" /\ UNCHANGED inbox
    BY <1>1 DEF DeletePost, LivePost, events
  <2>2. ASSUME x \in PostIds, post[x].state = "gone" PROVE post'[x] = post[x]
    <3>1. PICK found \in Post : found = post[x]
      BY <1>0, <2>2 DEF PostsTypeOK
    <3>2. found.quote = Absent
      BY <2>2, <3>1 DEF IInv, PostsFit
    <3>3. post'[x] = [found EXCEPT !.quote = IF @ = z THEN Absent ELSE @]
      BY <1>1, <2>1, <2>2, <3>1 DEF DeletePost
    <3> QED
      BY <3>1, <3>2, <3>3 DEF Post
  <2>3. \/ i \notin ReplyIds
        \/ reply'[i] = reply[i]
        \/ /\ reply'[i].state = "gone" /\ reply'[i].author = reply[i].author
           /\ reply'[i].post = reply[i].post /\ reply'[i].parent = reply[i].parent
           /\ reply'[i].body = reply[i].body
    BY <1>0, <1>1 DEF DeletePost, PostsTypeOK, Reply
  <2> QED
    BY <2>1, <2>2, <2>3 DEF Fine, Stand, Keep
<1>2. ASSUME NEW z \in PostIds, PinPost(u, z) PROVE Fine(x, i)
  BY <1>0, <1>2 DEF PinPost, Readable, LivePost, PostsTypeOK, Fine, Stand, Keep, events
<1>3. ASSUME NEW z, UnfavoritePost(u, z) \/ SetPostReaction(u, z) \/ RemovePostReaction(u, z)
             \/ FollowUser(u, z) \/ UnfollowUser(u, z)
      PROVE  Fine(x, i)
  BY <1>3 DEF UnfavoritePost, SetPostReaction, RemovePostReaction, FollowUser, UnfollowUser, events, Fine, Stand, Keep
<1> QED
  BY <1>1, <1>2, <1>3 DEF AtOnce

(* A post that is gone stays gone and as it was, a reply keeps its author  *)
(* and its place, a deleted one is neither edited nor brought back, and    *)
(* nobody is notified of it twice: UpdatePost, UpdateReply, DeleteReply    *)
(* and notifyReplyCreated, however late their statements come.             *)
THEOREM PostRowsStand == PostsSpec => RowsStand
<1>1. ASSUME IInv, [PostsNext]_postsVars
      PROVE  [/\ \A x \in PostIds : post[x].state = "gone" => post'[x] = post[x]
              /\ \A i \in ReplyIds :
                   /\ reply[i].state # "none" =>
                        /\ reply'[i].author = reply[i].author /\ reply'[i].post = reply[i].post
                        /\ reply'[i].parent = reply[i].parent
                   /\ reply[i].state \in {"deleted", "gone"} =>
                        reply'[i].body = reply[i].body /\ reply'[i].state \in {reply[i].state, "gone"}
                   /\ inbox[i] # {} => inbox'[i] = inbox[i]]_postsVars
  <2>1. client.users \subseteq PostUsers /\ client.by \subseteq PostHandlers
    BY <1>1, ClientIs DEF IInv, PostsTypeOK
  <2>2. CASE UNCHANGED postsVars
    BY <2>2
  <2>3. CASE PostsNext
    <3>1. \A x, i : Fine(x, i)
      <4> SUFFICES ASSUME NEW x, NEW i PROVE Fine(x, i)
        OBVIOUS
      <4>1. ASSUME NEW p \in PostHandlers, Step(p) PROVE Fine(x, i)
        BY <1>1, <4>1, StepStands
      <4>2. ASSUME NEW p \in client.by, NEW u \in client.users, Ask(p, u) PROVE Fine(x, i)
        BY <4>2, AskStands DEF Fine, Stand, Keep
      <4>3. ASSUME NEW u \in client.users, AtOnce(u) PROVE Fine(x, i)
        BY <1>1, <2>1, <4>3, AtOnceStands
      <4>4. ASSUME NEW a \in Atts, DeleteAttachment(a) PROVE Fine(x, i)
        BY <4>4 DEF DeleteAttachment, Fine, Stand, Keep, events
      <4> QED
        BY <2>3, <4>1, <4>2, <4>3, <4>4 DEF PostsNext
    <3> QED
      BY <3>1 DEF Fine, Stand, Keep
  <2> QED
    BY <1>1, <2>2, <2>3
<1>2. PostsInit => IInv
  BY PostInitHolds
<1>3. IInv /\ [PostsNext]_postsVars => IInv'
  BY StepHolds
<1> QED
  BY <1>1, <1>2, <1>3, PTL DEF PostsSpec, RowsStand
=============================================================================
