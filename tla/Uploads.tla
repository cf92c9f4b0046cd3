------------------------------ MODULE Uploads ------------------------------
(***************************************************************************)
(* Attachments (services/storage, pkg/repository/attachment.go,            *)
(* upload_session.go, pkg/storage): rows of PostgreSQL and objects of an   *)
(* S3-like store that no transaction spans.                                *)
(*                                                                         *)
(* A step of a request is one call: a statement, or an operation on the    *)
(* store.  The stale-upload sweeper, the burn sweeper and the recycler run *)
(* beside the requests, each a list read first and acted on afterwards.    *)
(* The account service stores avatars and banners in the same rows.        *)
(***************************************************************************)
EXTENDS Integers, FiniteSets, Functions

CONSTANTS
    Users,
    Keys,        \* object keys, each the uuid of one assembled or uploaded file
    Uploads,     \* ids of chunked uploads
    Chunks,      \* 1..total_chunks
    Payloads,    \* what a chunk may hold
    Weight,      \* bytes of a payload
    Sent,        \* bound: payloads sent as chunks
    Files,       \* bound: files sent in one request
    Declared,    \* sizes a client may declare
    Quota,       \* effectiveQuota of each user
    MaxUploadBytes,
    Handlers,    \* concurrent requests
    Scopes,      \* bound: handlers, attachments that are linked or recycled,
                 \* and users who send an avatar or a banner
    MaxFaults,   \* bound: failed calls and restarts
    None

ASSUME UploadsAssumption ==
    /\ IsFiniteSet(Chunks) /\ IsFiniteSet(Keys)
    /\ Weight \in [Payloads -> Nat \ {0}]
    /\ Sent \subseteq Payloads
    /\ Files \subseteq [Chunks -> Payloads]
    /\ Declared \subseteq Nat \ {0}
    /\ Quota \in [Users -> Nat]
    /\ MaxUploadBytes \in Nat
    /\ Scopes \subseteq SUBSET (Handlers \cup Keys \cup Users)
    /\ MaxFaults \in Nat
    /\ None \notin Users \cup Keys \cup Uploads \cup Payloads \cup Handlers
    /\ None \notin [Chunks -> Payloads]

VARIABLES
    session,    \* rows of upload_sessions
    chunk,      \* chunk objects of the store
    object,     \* file objects of the store
    row,        \* rows of attachments, by object key, and what links to them
    usageLock,  \* holder of pg_advisory_xact_lock(user)
    req,        \* the call each request is about to make
    purged,     \* uploads whose chunks the stale-upload sweeper has yet to delete
    burner,     \* the burn sweeper
    recycler,   \* the recycler
    faults,
    slip,       \* history: what became of the check of an avatar or a banner
    scope       \* the handlers, attachments and users of this behaviour

requests == <<req, usageLock>>
sweepers == <<purged, burner, recycler>>
vars == <<session, chunk, object, row, requests, sweepers, faults, slip, scope>>

Content == [Chunks -> Payloads]
NoChunks == [i \in Chunks |-> None]
Bytes(c) == SumFunction([i \in Chunks |-> Weight[c[i]]])

Session == [state : {"none", "open", "gone"},
            owner : Users \cup {None}, reserved : Nat]

(* size_bytes is Bytes(counted): what was measured, perhaps before what    *)
(* sha256 stands for was stored.                                           *)
Row == [state : {"none", "live", "gone"}, owner : Users \cup {None},
        sha256 : Content \cup {None}, counted : Content \cup {None},
        burn : {"no", "armed", "due"}, links : SUBSET {"post", "burn"}]

NoRow(state) == [state |-> state, owner |-> None, sha256 |-> None, counted |-> None,
                 burn |-> "no", links |-> {}]

NewRow(u, c, counted) == [state |-> "live", owner |-> u, sha256 |-> c, counted |-> counted,
                          burn |-> "no", links |-> {}]

Pc == {"idle", "put", "stat", "quota", "assemble", "hash", "store", "sum", "insert",
       "record", "discard", "clear", "session", "remove", "row", "link"}

Req == [pc : Pc,
        op : {"none", "upload", "image", "chunk", "complete", "delete", "link"},
        user : Users \cup {None}, upload : Uploads \cup {None}, key : Keys \cup {None},
        content : Content \cup {None}, counted : Content \cup {None}]

NewReq(pc, op, u, upload, k, c, counted) ==
    [pc |-> pc, op |-> op, user |-> u, upload |-> upload, key |-> k, content |-> c,
     counted |-> counted]

NoReq == NewReq("idle", "none", None, None, None, None, None)

(* list: the rows the sweep has yet to delete; deleting: its object is     *)
(* deleted and its row is next.                                            *)
Sweep == [state : {"boot", "running", "done"}, list : SUBSET Keys, deleting : Keys \cup {None}]
Sweeping(state, list, k) == [state |-> state, list |-> list, deleting |-> k]

(* request: those whose user another row was inserted of since they were   *)
(* checked, or that nothing checked; file: what was inserted in spite of   *)
(* that, or while another file of its user was about to be.                *)
Slip == [request : SUBSET Handlers, file : SUBSET Keys]

TypeOK ==
    /\ session \in [Uploads -> Session]
    /\ chunk \in [Uploads -> [Chunks -> Payloads \cup {None}]]
    /\ object \in [Keys -> [Chunks -> Payloads \cup {None}] \cup {None}]
    /\ row \in [Keys -> Row]
    /\ usageLock \in [Users -> Handlers \cup {None}]
    /\ req \in [Handlers -> Req]
    /\ purged \subseteq Uploads
    /\ burner \in Sweep
    /\ recycler \in Sweep
    /\ faults \in 0..MaxFaults
    /\ slip \in Slip
    /\ scope \in Scopes

Init ==
    /\ session = [s \in Uploads |-> [state |-> "none", owner |-> None, reserved |-> 0]]
    /\ chunk = [s \in Uploads |-> NoChunks]
    /\ object = [k \in Keys |-> None]
    /\ row = [k \in Keys |-> NoRow("none")]
    /\ usageLock = [u \in Users |-> None]
    /\ req = [p \in Handlers |-> NoReq]
    /\ purged = {}
    /\ burner = Sweeping("running", {}, None)
    /\ recycler = Sweeping("boot", {}, None)
    /\ faults = 0
    /\ slip = [request |-> {}, file |-> {}]
    /\ scope \in Scopes

----------------------------------------------------------------------------
Live(k) == row[k].state = "live"
Held(s) == session[s].state = "open"
Landed(s) == {i \in Chunks : chunk[s][i] # None}

(* SumSizeByUser: the rows of attachments; upload sessions reserve nothing.*)
OwnedBy(u) == {k \in Keys : row[k].owner = u}

Used(u) == SumFunctionOnSet([k \in Keys |-> Bytes(row[k].counted)], OwnedBy(u))

(* Mutant: a key made of the user and the file's name instead of a uuid.   *)
FreshName(k) == ~Live(k)

(* A key no object has, no row had and no request is about to use.         *)
Fresh(k) ==
    /\ object[k] = None /\ row[k].state = "none"
    /\ \A p \in Handlers : req[p].key # k

Go(p, pc) == req' = [req EXCEPT ![p].pc = pc]
Done(p) == req' = [req EXCEPT ![p] = NoReq]
Start(p, r) == req[p].pc = "idle" /\ p \in scope /\ req' = [req EXCEPT ![p] = r]

(* A row of u is inserted: a check of theirs made before says less.        *)
Overtaken(u) == {q \in Handlers : req[q].op = "image" /\ req[q].user = u}

----------------------------------------------------------------------------
(* Upload: the cheap quota check; a file refused by it stores nothing.     *)
Upload(p, u, c) ==
    /\ Bytes(c) <= MaxUploadBytes
    /\ Used(u) + Bytes(c) <= Quota[u]
    /\ Start(p, NewReq("hash", "upload", u, None, None, c, c))
    /\ UNCHANGED <<session, chunk, object, row, usageLock, sweepers, faults, slip, scope>>

(* uploadImage: the rows are summed without the user's lock, and not at    *)
(* all when the quota is not positive.                                     *)
UploadImage(p, u, c) ==
    /\ u \in scope
    /\ Bytes(c) <= MaxUploadBytes
    /\ Quota[u] > 0 => Used(u) + Bytes(c) <= Quota[u]
    /\ Start(p, NewReq("store", "image", u, None, None, c, c))
    /\ slip' = [slip EXCEPT !.request = IF Quota[u] > 0 THEN @ \ {p} ELSE @ \cup {p}]
    /\ UNCHANGED <<session, chunk, object, row, usageLock, sweepers, faults, scope>>

(* ChunkInit: the declared size must fit the cap and the quota.            *)
ChunkInit(s, u, size) ==
    /\ session[s].state = "none"
    /\ size <= MaxUploadBytes
    /\ Used(u) + size <= Quota[u]
    /\ session' = [session EXCEPT ![s] = [state |-> "open", owner |-> u, reserved |-> size]]
    /\ UNCHANGED <<chunk, object, row, requests, sweepers, faults, slip, scope>>

(* ChunkUpload loads the session, reads the body, then stores the chunk    *)
(* without looking at the session again.                                   *)
ChunkUpload(p, s) ==
    /\ Held(s)
    /\ Start(p, NewReq("put", "chunk", session[s].owner, s, None, None, None))
    /\ UNCHANGED <<session, chunk, object, row, usageLock, sweepers, faults, slip, scope>>

UploadChunk(p) ==
    /\ req[p].pc = "put"
    /\ \E i \in Chunks, d \in Sent : chunk' = [chunk EXCEPT ![req[p].upload][i] = d]
    /\ Done(p)
    /\ UNCHANGED <<session, object, row, usageLock, sweepers, faults, slip, scope>>

ChunkComplete(p, s) ==
    /\ Held(s)
    /\ Start(p, NewReq("stat", "complete", session[s].owner, s, None, None, None))
    /\ UNCHANGED <<session, chunk, object, row, usageLock, sweepers, faults, slip, scope>>

(* StatChunks: a missing chunk ends the request; a file above the cap is   *)
(* cleared away.                                                           *)
StatChunks(p) ==
    LET r == req[p]
        existing == chunk[r.upload]
    IN  /\ r.pc = "stat"
        /\ \/ Landed(r.upload) # Chunks /\ Done(p)
           \/ /\ Landed(r.upload) = Chunks
              /\ req' = [req EXCEPT ![p] =
                   NewReq(IF Bytes(existing) > MaxUploadBytes THEN "clear" ELSE "quota",
                          "complete", r.user, r.upload, None, None, existing)]
        /\ UNCHANGED <<session, chunk, object, row, usageLock, sweepers, faults, slip, scope>>

(* checkQuotaForActualBytes: what the session declared is taken to be      *)
(* accounted for.  The reserved size is of the row loaded at the start,    *)
(* which never changes.                                                    *)
CheckQuotaForActualBytes(p) ==
    LET r == req[p]
        excess == Bytes(r.counted) - session[r.upload].reserved
    IN  /\ r.pc = "quota"
        /\ Go(p, IF excess <= 0 \/ Used(r.user) + excess <= Quota[r.user]
                 THEN "assemble" ELSE "clear")
        /\ UNCHANGED <<session, chunk, object, row, usageLock, sweepers, faults, slip, scope>>

(* Mutant: a chunk that is gone since StatChunks is skipped.               *)
MayAssembleGaps(s) == Landed(s) # {}
MayAssemble(s) == Landed(s) = Chunks

(* AssembleChunks: the chunks as they are now, under a new key.            *)
AssembleChunks(p) ==
    LET r == req[p]
    IN  /\ r.pc = "assemble"
        /\ \/ /\ MayAssemble(r.upload)
              /\ \E k \in Keys :
                   /\ Fresh(k)
                   /\ object' = [object EXCEPT ![k] = chunk[r.upload]]
                   /\ req' = [req EXCEPT ![p] = NewReq("hash", "complete", r.user,
                                r.upload, k, chunk[r.upload], r.counted)]
           \/ /\ ~MayAssemble(r.upload)
              /\ Done(p)
              /\ UNCHANGED object
        /\ UNCHANGED <<session, chunk, row, usageLock, sweepers, faults, slip, scope>>

(* GetByHash selects one column less than it scans: when a row matches it  *)
(* fails, and the request with it; an assembled object stays behind.       *)
(* Rows are public unless the client says otherwise, so anyone's match.    *)
GetByHash(p) ==
    LET r == req[p]
    IN  /\ r.pc = "hash"
        /\ IF \E k \in Keys : Live(k) /\ row[k].sha256 = r.content
           THEN Done(p)
           ELSE Go(p, IF r.op = "upload" THEN "store" ELSE "sum")
        /\ UNCHANGED <<session, chunk, object, row, usageLock, sweepers, faults, slip, scope>>

StoreUpload(p) ==
    LET r == req[p]
    IN  /\ r.pc = "store"
        /\ \E k \in Keys :
             /\ Fresh(k)
             /\ object' = [object EXCEPT ![k] = r.content]
             /\ req' = [req EXCEPT ![p] =
                          NewReq(IF r.op = "image" THEN "record" ELSE "sum", r.op, r.user, None,
                                 k, r.content, r.counted)]
        /\ UNCHANGED <<session, chunk, row, usageLock, sweepers, faults, slip, scope>>

(* Mutant: no advisory lock, the sum alone.                                *)
MaySumUnlocked(p, u) == TRUE
MaySum(p, u) == usageLock[u] = None

Within(u, c) == Quota[u] > 0 /\ Used(u) + Bytes(c) <= Quota[u]

(* CreateWithinQuota: LockUserUsage waits for the user's lock and sums; a  *)
(* file that does not fit rolls the transaction back, lock and all.        *)
LockUserUsage(p) ==
    LET r == req[p]
    IN  /\ r.pc = "sum"
        /\ MaySum(p, r.user)
        /\ \/ /\ Within(r.user, r.counted)
              /\ usageLock' = [usageLock EXCEPT ![r.user] = p]
              /\ Go(p, "insert")
           \/ /\ ~Within(r.user, r.counted)
              /\ Go(p, "discard")
              /\ UNCHANGED usageLock
        /\ UNCHANGED <<session, chunk, object, row, sweepers, faults, slip, scope>>

(* The row is inserted and committed; the lock goes with the transaction.  *)
CreateWithinQuota(p) ==
    LET r == req[p]
    IN  /\ r.pc = "insert"
        /\ row' = [row EXCEPT ![r.key] = NewRow(r.user, r.content, r.counted)]
        /\ usageLock' = [usageLock EXCEPT ![r.user] = None]
        /\ IF r.op = "upload" THEN Done(p) ELSE Go(p, "clear")
        /\ slip' = [slip EXCEPT !.request = @ \cup Overtaken(r.user)]
        /\ UNCHANGED <<session, chunk, object, sweepers, faults, scope>>

(* AttachmentRepository.Create, of an avatar or a banner: a statement of   *)
(* its own, whatever was inserted since the check.                         *)
CreateImage(p) ==
    LET r == req[p]
        slips == p \in slip.request \/ usageLock[r.user] # None
    IN  /\ r.pc = "record"
        /\ row' = [row EXCEPT ![r.key] = NewRow(r.user, r.content, r.counted)]
        /\ slip' = [request |-> (slip.request \cup Overtaken(r.user)) \ {p},
                    file |-> slip.file \cup (IF slips THEN {r.key} ELSE {})]
        /\ Done(p)
        /\ UNCHANGED <<session, chunk, object, usageLock, sweepers, faults, scope>>

(* The object of a refused file is deleted; chunks and session stay.       *)
Discard(p) ==
    /\ req[p].pc = "discard"
    /\ object' = [object EXCEPT ![req[p].key] = None]
    /\ Done(p)
    /\ UNCHANGED <<session, chunk, row, usageLock, sweepers, faults, slip, scope>>

(* DeleteChunks lists the prefix, and a listing may omit objects written   *)
(* shortly before (storage.go:433-434); it also ends at the first error.   *)
DeleteChunks(s) ==
    \E left \in SUBSET Landed(s) :
      chunk' = [chunk EXCEPT ![s] = [i \in Chunks |-> IF i \in left THEN @[i] ELSE None]]

ClearChunks(p) ==
    /\ req[p].pc = "clear"
    /\ DeleteChunks(req[p].upload)
    /\ Go(p, "session")
    /\ UNCHANGED <<session, object, row, usageLock, sweepers, faults, slip, scope>>

DeleteUploadSession(p) ==
    /\ req[p].pc = "session"
    /\ session' = [session EXCEPT ![req[p].upload].state = "gone"]
    /\ Done(p)
    /\ UNCHANGED <<chunk, object, row, usageLock, sweepers, faults, slip, scope>>

----------------------------------------------------------------------------
(* Delete, by the owner.  An error of the store is logged and the row      *)
(* deleted all the same.                                                   *)
Delete(p, k) ==
    /\ Live(k)
    /\ Start(p, NewReq("remove", "delete", row[k].owner, None, k, None, None))
    /\ UNCHANGED <<session, chunk, object, row, usageLock, sweepers, faults, slip, scope>>

RemoveObject(p) ==
    /\ req[p].pc = "remove"
    /\ \/ object' = [object EXCEPT ![req[p].key] = None] /\ UNCHANGED faults
       \/ faults < MaxFaults /\ faults' = faults + 1 /\ UNCHANGED object
    /\ Go(p, "row")
    /\ UNCHANGED <<session, chunk, row, usageLock, sweepers, slip, scope>>

DropRow(k) == row' = [row EXCEPT ![k] = NoRow("gone")]

RemoveRow(p) ==
    /\ req[p].pc = "row"
    /\ DropRow(req[p].key)
    /\ Done(p)
    /\ UNCHANGED <<session, chunk, object, usageLock, sweepers, faults, slip, scope>>

(* A post, or a message that burns, names an attachment of its author: it  *)
(* is looked up first, and linked by an INSERT under a foreign key.        *)
Attach(p, k) ==
    /\ k \in scope /\ Live(k)
    /\ Start(p, NewReq("link", "link", row[k].owner, None, k, None, None))
    /\ UNCHANGED <<session, chunk, object, row, usageLock, sweepers, faults, slip, scope>>

Link(p) ==
    LET k == req[p].key
    IN  /\ req[p].pc = "link"
        /\ \/ /\ Live(k)
              /\ \E kind \in {"post", "burn"} :
                   row' = [row EXCEPT ![k].links = @ \cup {kind}]
           \/ ~Live(k) /\ UNCHANGED row
        /\ Done(p)
        /\ UNCHANGED <<session, chunk, object, usageLock, sweepers, faults, slip, scope>>

(* The post is deleted, or edited to have other attachments.               *)
Unlink(k) ==
    /\ "post" \in row[k].links
    /\ row' = [row EXCEPT ![k].links = @ \ {"post"}]
    /\ UNCHANGED <<session, chunk, object, requests, sweepers, faults, slip, scope>>

----------------------------------------------------------------------------
Stamp(k, burn) ==
    /\ row' = [row EXCEPT ![k].burn = burn]
    /\ UNCHANGED <<session, chunk, object, requests, sweepers, faults, slip, scope>>

(* Mutant: no burn_at IS NULL in the UPDATE.                               *)
MayArmAgain(k) == Live(k) /\ "burn" \in row[k].links
MayArm(k) == Live(k) /\ "burn" \in row[k].links /\ row[k].burn = "no"

(* ArmBurn, by a recipient of the message.                                 *)
ArmBurn(k) == MayArm(k) /\ Stamp(k, "armed")

BurnDeadline(k) == row[k].burn = "armed" /\ Stamp(k, "due")

(* SweepDueBurnedAttachments.                                              *)
Burnable(k) == Live(k) /\ row[k].burn = "due"

(* Mutant: the sweep leaves alone what a post or a message still shows.    *)
BurnableUnlinked(k) == Burnable(k) /\ row[k].links = {}
DueForBurn(k) == Burnable(k)

SweepDueBurnedAttachments ==
    /\ burner.list = {} /\ burner.deleting = None
    /\ \E k \in Keys : DueForBurn(k)
    /\ burner' = Sweeping("running", {k \in Keys : DueForBurn(k)}, None)
    /\ UNCHANGED <<session, chunk, object, row, requests, purged, recycler, faults, slip, scope>>

BurnObject(k) ==
    /\ k \in burner.list /\ burner.deleting = None
    /\ object' = [object EXCEPT ![k] = None]
    /\ burner' = Sweeping("running", burner.list \ {k}, k)
    /\ UNCHANGED <<session, chunk, row, requests, purged, recycler, faults, slip, scope>>

BurnRow(k) ==
    /\ burner.deleting = k
    /\ DropRow(k)
    /\ burner' = Sweeping("running", burner.list, None)
    /\ UNCHANGED <<session, chunk, object, requests, purged, recycler, faults, slip, scope>>

----------------------------------------------------------------------------
(* startRecycleSweeper: its ticker is stopped when it returns, so run is   *)
(* called once, when the process boots.  How old a row is is left open.    *)
ListRecyclableAttachments ==
    /\ recycler.state = "boot"
    /\ \E aged \in SUBSET (Keys \cap scope) :
         recycler' = Sweeping("running", {k \in aged : Live(k) /\ row[k].links = {}}, None)
    /\ UNCHANGED <<session, chunk, object, row, requests, purged, burner, faults, slip, scope>>

RecycleObject(k) ==
    /\ k \in recycler.list /\ recycler.deleting = None
    /\ object' = [object EXCEPT ![k] = None]
    /\ recycler' = Sweeping("running", recycler.list \ {k}, k)
    /\ UNCHANGED <<session, chunk, row, requests, purged, burner, faults, slip, scope>>

RecycleRow(k) ==
    /\ recycler.deleting = k
    /\ DropRow(k)
    /\ recycler' = Sweeping("running", recycler.list, None)
    /\ UNCHANGED <<session, chunk, object, requests, purged, burner, faults, slip, scope>>

RecycleEnds ==
    /\ recycler = Sweeping("running", {}, None)
    /\ recycler' = Sweeping("done", {}, None)
    /\ UNCHANGED <<session, chunk, object, row, requests, purged, burner, faults, slip, scope>>

----------------------------------------------------------------------------
(* PurgeStaleUploadSessions: sessions created 24 hours ago; which ones     *)
(* those are is left open.                                                 *)
PurgeStaleUploadSessions ==
    /\ purged = {}
    /\ \E stale \in SUBSET {s \in Uploads : Held(s)} \ {{}} :
         /\ session' = [s \in Uploads |->
              IF s \in stale THEN [session[s] EXCEPT !.state = "gone"] ELSE session[s]]
         /\ purged' = stale
    /\ UNCHANGED <<chunk, object, row, requests, burner, recycler, faults, slip, scope>>

DeleteStaleChunks(s) ==
    /\ s \in purged
    /\ DeleteChunks(s)
    /\ purged' = purged \ {s}
    /\ UNCHANGED <<session, object, row, requests, burner, recycler, faults, slip, scope>>

----------------------------------------------------------------------------
(* A call fails and the request with it: a transaction is rolled back,     *)
(* objects stay.  The last clean-up of a completion is not retried.  The   *)
(* model may also have no key left.                                        *)
Fault(p) ==
    /\ req[p].pc \notin {"idle", "clear", "remove"}
    /\ \/ faults < MaxFaults /\ faults' = faults + 1
       \/ /\ req[p].pc \in {"assemble", "store"} /\ (\A k \in Keys : ~Fresh(k))
          /\ UNCHANGED faults
    /\ Done(p)
    /\ usageLock' = [u \in Users |-> IF usageLock[u] = p THEN None ELSE usageLock[u]]
    /\ UNCHANGED <<session, chunk, object, row, sweepers, slip, scope>>

(* A deletion of a sweep fails; it goes on with the next row.              *)
SweepFails ==
    /\ faults < MaxFaults
    /\ faults' = faults + 1
    /\ \/ /\ burner.deleting # None
          /\ burner' = Sweeping("running", burner.list, None)
          /\ UNCHANGED recycler
       \/ /\ burner.deleting = None
          /\ \E k \in burner.list : burner' = Sweeping("running", burner.list \ {k}, None)
          /\ UNCHANGED recycler
       \/ /\ recycler.deleting # None
          /\ recycler' = Sweeping("running", recycler.list, None)
          /\ UNCHANGED burner
       \/ /\ recycler.deleting = None
          /\ \E k \in recycler.list : recycler' = Sweeping("running", recycler.list \ {k}, None)
          /\ UNCHANGED burner
    /\ UNCHANGED <<session, chunk, object, row, requests, purged, slip, scope>>

(* The storage service restarts; the chat and posts services, where Link   *)
(* runs, and the account service, where images are stored, do not.         *)
Restart ==
    /\ faults < MaxFaults
    /\ faults' = faults + 1
    /\ req' = [p \in Handlers |-> IF req[p].op \in {"link", "image"} THEN req[p] ELSE NoReq]
    /\ usageLock' = [u \in Users |-> None]
    /\ purged' = {}
    /\ burner' = Sweeping("running", {}, None)
    /\ recycler' = Sweeping("boot", {}, None)
    /\ UNCHANGED <<session, chunk, object, row, slip, scope>>

----------------------------------------------------------------------------
Arrive(p) ==
    \/ \E u \in Users, c \in Files : Upload(p, u, c) \/ UploadImage(p, u, c)
    \/ \E s \in Uploads : ChunkUpload(p, s) \/ ChunkComplete(p, s)
    \/ \E k \in Keys : Delete(p, k) \/ Attach(p, k)

Serve(p) ==
    \/ UploadChunk(p)
    \/ StatChunks(p) \/ CheckQuotaForActualBytes(p) \/ AssembleChunks(p)
    \/ GetByHash(p) \/ StoreUpload(p)
    \/ LockUserUsage(p) \/ CreateWithinQuota(p) \/ CreateImage(p)
    \/ Discard(p) \/ ClearChunks(p) \/ DeleteUploadSession(p)
    \/ RemoveObject(p) \/ RemoveRow(p)
    \/ Link(p)

Burner == SweepDueBurnedAttachments \/ \E k \in Keys : BurnObject(k) \/ BurnRow(k)

Recycler ==
    \/ ListRecyclableAttachments \/ RecycleEnds
    \/ \E k \in Keys : RecycleObject(k) \/ RecycleRow(k)

Purger == PurgeStaleUploadSessions \/ \E s \in Uploads : DeleteStaleChunks(s)

Next ==
    \/ \E p \in Handlers : Arrive(p) \/ Serve(p) \/ Fault(p)
    \/ \E s \in Uploads, u \in Users, size \in Declared : ChunkInit(s, u, size)
    \/ \E k \in Keys : Unlink(k) \/ ArmBurn(k) \/ BurnDeadline(k)
    \/ Burner \/ Recycler \/ Purger
    \/ SweepFails \/ Restart

Spec == Init /\ [][Next]_vars

(* The burn sweeper runs every 15 seconds, whatever its last run met.      *)
FairSpec == Spec /\ WF_vars(Burner)

----------------------------------------------------------------------------
(* What u stores but for the images whose check had slipped.              *)
Kept(u) ==
    SumFunctionOnSet([k \in Keys |-> Bytes(row[k].counted)], OwnedBy(u) \ slip.file)

(* A user never stores more than the quota, however many uploads and       *)
(* completions of theirs were each found to fit (attachment.go:222-231),   *)
(* but for an avatar or a banner another insertion overtook.               *)
QuotaKept == \A u \in Users : Kept(u) <= Quota[u]

(* A request between the sum and the insert holds the user's lock.         *)
LockHeld ==
    \A p \in Handlers :
      /\ req[p].pc = "insert" => usageLock[req[p].user] = p
      /\ \A u \in Users : usageLock[u] = p => req[p].pc = "insert" /\ req[p].user = u

(* What it found to fit still does, although rows come and go meanwhile,   *)
(* but for images inserted under its lock.                                 *)
SumCurrent ==
    \A p \in Handlers : req[p].pc = "insert" =>
      Quota[req[p].user] > 0 /\ Kept(req[p].user) + Bytes(req[p].counted) <= Quota[req[p].user]

QuotaInv == QuotaKept /\ LockHeld /\ SumCurrent

(* Requests that have stored an object but no row.                         *)
Unrecorded(p) == req[p].key # None /\ req[p].pc \in {"hash", "sum", "insert", "record", "discard"}

(* A file is never assembled with a gap, a row is of the very bytes it     *)
(* was hashed from, and the object a request may still take back is its    *)
(* own and has no row.                                                     *)
StoredInFull ==
    \A k \in Keys :
      /\ object[k] # None => object[k] \in Content
      /\ Live(k) /\ object[k] # None => object[k] = row[k].sha256
      /\ \A p \in Handlers : Unrecorded(p) /\ req[p].key = k =>
           /\ row[k].state = "none" /\ object[k] = req[p].content
           /\ \A q \in Handlers : Unrecorded(q) /\ req[q].key = k => q = p

(* A live row is without its object only while a deletion of it is under   *)
(* way, unless a call has failed.                                          *)
RowsHaveObjects ==
    \A k \in Keys : Live(k) /\ object[k] = None =>
      \/ faults > 0
      \/ k \in {burner.deleting, recycler.deleting}
      \/ \E p \in Handlers : req[p].pc = "row" /\ req[p].key = k

ObjectInv == StoredInFull /\ RowsHaveObjects

(* The deadline is set by the first view, once: nothing takes it back or   *)
(* puts it off (attachment.go:405: "idempotent and race-safe").            *)
DeadlineStands ==
    [][\A k \in Keys : row[k].burn # "no" /\ row'[k].state = "live" =>
         /\ row'[k].burn # "no"
         /\ row[k].burn = "due" => row'[k].burn = "due"]_vars

(* What is due is burned, failures and restarts in between notwithstanding.*)
BurnsHappen == \A k \in Keys : row[k].burn = "due" ~> row[k].state = "gone"
=============================================================================
