--------------------------------- MODULE Posts --------------------------------
(***************************************************************************)
(* Posts outside camps: creating and quoting, editing, deleting, views,    *)
(* replies and whom they notify, favourites, reactions, pins and follows   *)
(* (services/posts/internal/handler/post.go, pkg/repository/post.go,       *)
(* reply.go, follow.go).                                                   *)
(*                                                                         *)
(* A handler is a sequence of statements without a transaction.  Foreign   *)
(* keys cascade: a deleted post takes its links, views, favourites,        *)
(* reactions and replies with it, and a quote of it becomes NULL.  The     *)
(* money of tips is in Tips.tla.                                           *)
(***************************************************************************)
EXTENDS Naturals, FiniteSets

CONSTANTS
    PostUsers,      \* accounts
    PostIds,        \* rows of posts, given out in order
    ReplyIds,       \* rows of post_replies, given out in order
    Atts,           \* attachments that may be used in posts
    PostHandlers,   \* concurrent requests
    Clients,        \* bound: users, rows, attachments, operations, handlers of one behaviour
    MaxBody,        \* bound: edits of a reply
    MaxPostFaults,  \* bound: failed statements
    Absent

Ops == {"create", "quote", "update", "remove", "view", "reply", "nest", "edit", "delete",
        "like", "react", "pin", "follow", "discard"}
Visibilities == {"public", "friends", "private"}

ASSUME PostsAssumption ==
    /\ Absent \notin PostUsers \cup PostIds \cup ReplyIds \cup Atts
    /\ IsFiniteSet(PostUsers) /\ IsFiniteSet(PostHandlers)
    /\ PostIds \subseteq Nat /\ ReplyIds \subseteq Nat
    /\ Clients \subseteq [users : SUBSET PostUsers, posts : SUBSET PostIds, replies : SUBSET ReplyIds,
                         atts : SUBSET Atts, seen : SUBSET Visibilities, ops : SUBSET Ops,
                         by : SUBSET PostHandlers]
    /\ MaxBody \in Nat /\ MaxPostFaults \in Nat

VARIABLES
    post,     \* rows of posts
    atts,     \* post_attachments
    viewers,  \* post_views
    liked,    \* post_favorites
    reacted,  \* post_reactions
    reply,    \* rows of post_replies
    follows,  \* user_follows: <<follower, followee>>
    files,    \* rows of attachments: those of Atts that exist
    inbox,    \* users notified of a reply
    told,     \* users a new post was pushed to
    postReq,  \* the request each handler serves
    wrote,    \* history: the attachments named by the last request that wrote the row
    ever,     \* history: those named by any request that wrote it
    mixed,    \* history: posts two requests wrote at once, and none alone since
    lost,     \* history: views not counted, replies not told, posts whose links failed
    client,   \* who does what in this behaviour
    postFaults

Post == [state : {"none", "live", "gone"}, author : PostUsers \cup {Absent}, vis : Visibilities,
         text : BOOLEAN, quote : PostIds \cup {Absent}, pinned : BOOLEAN, views : Nat]

NewPost(u, vis, text, quote) ==
    [state |-> "live", author |-> u, vis |-> vis, text |-> text, quote |-> quote,
     pinned |-> FALSE, views |-> 0]

NoPost == [NewPost(Absent, "public", FALSE, Absent) EXCEPT !.state = "none"]

Reply == [state : {"none", "live", "deleted", "gone"}, author : PostUsers \cup {Absent},
          post : PostIds \cup {Absent}, parent : ReplyIds \cup {Absent}, body : Nat]

NewReply(u, x, parent) ==
    [state |-> "live", author |-> u, post |-> x, parent |-> parent, body |-> 0]

NoReply == [NewReply(Absent, Absent, Absent) EXCEPT !.state = "none"]

PostPc == {"idle", "insert", "attach", "load", "push", "row", "unlink", "link", "seen", "count",
           "parent", "reply", "notify", "change", "like"}

PostReq == [op : Ops \cup {"none"}, pc : PostPc, user : PostUsers \cup {Absent}, post : PostIds \cup {Absent},
            vis : Visibilities, text : BOOLEAN, quote : PostIds \cup {Absent}, left : SUBSET Atts,
            named : SUBSET Atts, reply : ReplyIds \cup {Absent}, parent : ReplyIds \cup {Absent}]

NewPostReq(op, pc, u, x) ==
    [op |-> op, pc |-> pc, user |-> u, post |-> x, vis |-> "public", text |-> TRUE, quote |-> Absent,
     left |-> {}, named |-> {}, reply |-> Absent, parent |-> Absent]

NoPostReq == NewPostReq("none", "idle", Absent, Absent)

rows == <<post, atts, viewers, liked, reacted, reply, follows, files>>
events == <<inbox, told>>
history == <<wrote, ever, mixed, lost>>
bounds == <<client, postFaults>>
postsVars == <<post, atts, viewers, liked, reacted, reply, follows, files, inbox, told, postReq,
               wrote, ever, mixed, lost, client, postFaults>>

PostsTypeOK ==
    /\ post \in [PostIds -> Post]
    /\ \A x \in PostIds : post[x].state = "live" => post[x].author \in PostUsers
    /\ atts \in [PostIds -> SUBSET Atts]
    /\ viewers \in [PostIds -> SUBSET PostUsers]
    /\ liked \in [PostIds -> SUBSET PostUsers] /\ reacted \in [PostIds -> SUBSET PostUsers]
    /\ reply \in [ReplyIds -> Reply]
    /\ \A i \in ReplyIds :
         reply[i].state # "none" => reply[i].author \in PostUsers /\ reply[i].post \in PostIds
    /\ follows \subseteq PostUsers \X PostUsers
    /\ inbox \in [ReplyIds -> SUBSET PostUsers] /\ told \in [PostIds -> SUBSET PostUsers]
    /\ postReq \in [PostHandlers -> PostReq]
    /\ files \subseteq Atts
    /\ wrote \in [PostIds -> SUBSET Atts] /\ ever \in [PostIds -> SUBSET Atts] /\ mixed \subseteq PostIds
    /\ lost \in [views : [PostIds -> Nat], replies : SUBSET ReplyIds, links : SUBSET PostIds]
    /\ client \in Clients
    /\ postFaults \in Nat

PostsInit ==
    /\ client \in Clients
    /\ post = [x \in PostIds |-> NoPost]
    /\ atts = [x \in PostIds |-> {}] /\ viewers = [x \in PostIds |-> {}]
    /\ liked = [x \in PostIds |-> {}] /\ reacted = [x \in PostIds |-> {}]
    /\ reply = [i \in ReplyIds |-> NoReply]
    /\ follows = {} /\ files = Atts
    /\ inbox = [i \in ReplyIds |-> {}] /\ told = [x \in PostIds |-> {}]
    /\ postReq = [p \in PostHandlers |-> NoPostReq]
    /\ wrote = [x \in PostIds |-> {}] /\ ever = [x \in PostIds |-> {}] /\ mixed = {}
    /\ lost = [views |-> [x \in PostIds |-> 0], replies |-> {}, links |-> {}]
    /\ postFaults = 0

----------------------------------------------------------------------------
LivePost(x) == post[x].state = "live"
LiveReply(i) == reply[i].state = "live"
FreshPost(x) ==
    x \in client.posts /\ post[x].state = "none" /\ \A y \in client.posts : y < x => post[y].state # "none"
FreshReply(i) ==
    i \in client.replies /\ reply[i].state = "none" /\ \A j \in client.replies : j < i => reply[j].state # "none"

AreMutual(u, v) == <<u, v>> \in follows /\ <<v, u>> \in follows
MutualFollowers(u) == {v \in PostUsers : AreMutual(u, v)}

CanView(x, u) ==
    \/ post[x].author = u
    \/ post[x].vis = "public"
    \/ post[x].vis = "friends" /\ AreMutual(u, post[x].author)

(* GetByID of the repository: GetByPostID selects one column more than it  *)
(* scans, so a post with attachments cannot be read.                       *)
Readable(x) == LivePost(x) /\ atts[x] = {}

PostStart(p, r) ==
    /\ postReq[p].pc = "idle" /\ r.op \in client.ops /\ r.user \in client.users
    /\ postReq' = [postReq EXCEPT ![p] = r]
PostGo(p, pc) == postReq' = [postReq EXCEPT ![p].pc = pc]
PostDone(p) == postReq' = [postReq EXCEPT ![p] = NoPostReq]
Quietly == UNCHANGED <<rows, events, history, bounds>>

(* CreatePost, up to the INSERT: the attachments it names must exist, a    *)
(* quoted post must be visible.                                            *)
CreatePost(p, u, vis, named) ==
    /\ vis \in client.seen /\ named \subseteq files
    /\ \/ PostStart(p, [NewPostReq("create", "insert", u, Absent)
                         EXCEPT !.vis = vis, !.left = named, !.named = named])
       \/ \E q \in PostIds, text \in BOOLEAN :
            /\ Readable(q) /\ CanView(q, u) /\ named = {}
            /\ PostStart(p, [NewPostReq("quote", "insert", u, Absent)
                              EXCEPT !.vis = vis, !.text = text, !.quote = q])
    /\ Quietly

(* UpdatePost checks nothing before its UPDATE, the attachments it names   *)
(* included.                                                               *)
UpdatePost(p, u, x, vis, named) ==
    /\ vis \in client.seen
    /\ PostStart(p, [NewPostReq("update", "row", u, x)
                      EXCEPT !.vis = vis, !.left = named, !.named = named])
    /\ Quietly

(* GetPost, FavoritePost and CreateReply read the post first.              *)
GetPost(p, u, x) ==
    /\ Readable(x) /\ CanView(x, u)
    /\ PostStart(p, NewPostReq("view", "seen", u, x))
    /\ Quietly

FavoritePost(p, u, x) ==
    /\ Readable(x) /\ CanView(x, u)
    /\ PostStart(p, NewPostReq("like", "like", u, x))
    /\ Quietly

CreateReply(p, u, x) ==
    /\ Readable(x) /\ CanView(x, u)
    /\ \/ PostStart(p, NewPostReq("reply", "reply", u, x))
       \/ \E i \in ReplyIds : PostStart(p, [NewPostReq("nest", "parent", u, x) EXCEPT !.parent = i])
    /\ Quietly

(* UpdateReply and DeleteReply: replyBelongsToPost.                        *)
ChangeReply(p, u, i, op) ==
    /\ LiveReply(i) /\ Readable(reply[i].post) /\ CanView(reply[i].post, u)
    /\ PostStart(p, [NewPostReq(op, "change", u, reply[i].post) EXCEPT !.reply = i])
    /\ Quietly

----------------------------------------------------------------------------
(* Create of the repository.  The quoted post may have gone: the foreign   *)
(* key refuses.                                                            *)
InsertPost(p) ==
    LET r == postReq[p]
        accepted == IF r.quote = Absent THEN TRUE ELSE LivePost(r.quote)
    IN  /\ r.pc = "insert"
        /\ \/ ~accepted /\ PostDone(p) /\ UNCHANGED <<post, wrote, ever>>
           \/ \E x \in PostIds :
                /\ accepted /\ FreshPost(x)
                /\ post' = [post EXCEPT ![x] = NewPost(r.user, r.vis, r.text, r.quote)]
                /\ wrote' = [wrote EXCEPT ![x] = r.named] /\ ever' = [ever EXCEPT ![x] = r.named]
                /\ postReq' = [postReq EXCEPT ![p].pc = IF r.left = {} THEN "load" ELSE "attach",
                                              ![p].post = x]
        /\ UNCHANGED <<atts, viewers, liked, reacted, reply, follows, files, events, mixed, lost, bounds>>

(* A statement on the links of a post fails, after its row was written.    *)
LinksFail(p) ==
    /\ PostDone(p)
    /\ lost' = [lost EXCEPT !.links = @ \cup {postReq[p].post}]
    /\ UNCHANGED atts

(* AttachToPost, one link after the other, for Create and Update alike:    *)
(* the post and the attachment must have rows.                             *)
AttachToPost(p, a) ==
    LET r == postReq[p]
    IN  /\ r.pc \in {"attach", "link"} /\ a \in r.left
        /\ \/ /\ LivePost(r.post) /\ a \in files
              /\ atts' = [atts EXCEPT ![r.post] = @ \cup {a}]
              /\ postReq' = [postReq EXCEPT ![p].left = @ \ {a},
                                            ![p].pc = IF r.left # {a} THEN @
                                                      ELSE IF r.op = "update" THEN "idle" ELSE "load"]
              /\ UNCHANGED <<lost, postFaults>>
           \/ ~(LivePost(r.post) /\ a \in files) /\ LinksFail(p) /\ UNCHANGED postFaults
           \/ postFaults < MaxPostFaults /\ postFaults' = postFaults + 1 /\ LinksFail(p)
        /\ UNCHANGED <<post, viewers, liked, reacted, reply, follows, files, events,
                       wrote, ever, mixed, client>>

(* Create ends with GetByPostID, which fails when there are attachments:   *)
(* the answer is an error, and nothing is pushed.                          *)
LoadPost(p) ==
    LET r == postReq[p]
    IN  /\ r.pc = "load"
        /\ IF atts[r.post] = {} THEN PostGo(p, "push") ELSE PostDone(p)
        /\ Quietly

(* postRecipients, by the visibility asked for.                            *)
Recipients(u, vis) ==
    CASE vis = "private" -> {u}
      [] vis = "friends" -> MutualFollowers(u) \cup {u}
      [] OTHER -> PostUsers

PushPost(p) ==
    LET r == postReq[p]
    IN  /\ r.pc = "push"
        /\ told' = [told EXCEPT ![r.post] = Recipients(r.user, r.vis)]
        /\ PostDone(p)
        /\ UNCHANGED <<rows, inbox, history, bounds>>

(* Update of the repository: the row, the links away, the links anew.      *)
Writing(p, x) == postReq[p].post = x /\ postReq[p].pc \in {"attach", "unlink", "link"}

UpdateRow(p) ==
    LET r == postReq[p]
    IN  /\ r.pc = "row"
        /\ IF LivePost(r.post) /\ post[r.post].author = r.user
           THEN /\ post' = [post EXCEPT ![r.post].vis = r.vis, ![r.post].text = TRUE]
                /\ wrote' = [wrote EXCEPT ![r.post] = r.named]
                /\ ever' = [ever EXCEPT ![r.post] = @ \cup r.named]
                /\ mixed' = IF \E q \in PostHandlers \ {p} : Writing(q, r.post)
                            THEN mixed \cup {r.post} ELSE mixed \ {r.post}
                /\ lost' = [lost EXCEPT !.links = @ \ {r.post}]
                /\ PostGo(p, "unlink")
           ELSE PostDone(p) /\ UNCHANGED <<post, wrote, ever, mixed, lost>>
        /\ UNCHANGED <<atts, viewers, liked, reacted, reply, follows, files, events, bounds>>

DeleteAttachmentsForPost(p) ==
    LET r == postReq[p]
    IN  /\ r.pc = "unlink"
        /\ \/ /\ atts' = [atts EXCEPT ![r.post] = {}]
              /\ postReq' = IF r.left = {} THEN [postReq EXCEPT ![p] = NoPostReq]
                                            ELSE [postReq EXCEPT ![p].pc = "link"]
              /\ UNCHANGED <<lost, postFaults>>
           \/ postFaults < MaxPostFaults /\ postFaults' = postFaults + 1 /\ LinksFail(p)
        /\ UNCHANGED <<post, viewers, liked, reacted, reply, follows, files, events,
                       wrote, ever, mixed, client>>

(* Delete, with its cascades; the tips are paid back in Tips.tla.          *)
DeletePost(u, x) ==
    /\ "remove" \in client.ops
    /\ LivePost(x) /\ post[x].author = u
    /\ post' = [y \in PostIds |->
                  IF y = x THEN [post[x] EXCEPT !.state = "gone", !.quote = Absent]
                  ELSE [post[y] EXCEPT !.quote = IF @ = x THEN Absent ELSE @]]
    /\ atts' = [atts EXCEPT ![x] = {}] /\ viewers' = [viewers EXCEPT ![x] = {}]
    /\ liked' = [liked EXCEPT ![x] = {}] /\ reacted' = [reacted EXCEPT ![x] = {}]
    /\ reply' = [i \in ReplyIds |->
                   IF reply[i].post = x THEN [reply[i] EXCEPT !.state = "gone"] ELSE reply[i]]
    /\ UNCHANGED <<follows, files, events, postReq, history, bounds>>

(* The row of an attachment goes, by its owner, a burn or a sweep          *)
(* (Uploads.tla); its links cascade.                                       *)
DeleteAttachment(a) ==
    /\ "discard" \in client.ops
    /\ a \in files \cap client.atts
    /\ files' = files \ {a}
    /\ atts' = [x \in PostIds |-> atts[x] \ {a}]
    /\ UNCHANGED <<post, viewers, liked, reacted, reply, follows, events, postReq, history, bounds>>

----------------------------------------------------------------------------
(* RecordView: the view is inserted once ...                               *)
InsertView(p) ==
    LET r == postReq[p]
    IN  /\ r.pc = "seen"
        /\ IF LivePost(r.post) /\ r.user \notin viewers[r.post]
           THEN viewers' = [viewers EXCEPT ![r.post] = @ \cup {r.user}] /\ PostGo(p, "count")
           ELSE PostDone(p) /\ UNCHANGED viewers
        /\ UNCHANGED <<post, atts, liked, reacted, reply, follows, files, events, history, bounds>>

(* ... and then counted, unless that statement fails.                      *)
CountView(p) ==
    LET r == postReq[p]
    IN  /\ r.pc = "count"
        /\ \/ /\ post' = [post EXCEPT ![r.post].views = IF LivePost(r.post) THEN @ + 1 ELSE @]
              /\ UNCHANGED <<lost, postFaults>>
           \/ /\ postFaults < MaxPostFaults /\ postFaults' = postFaults + 1
              /\ lost' = [lost EXCEPT !.views[r.post] = @ + 1]
              /\ UNCHANGED post
        /\ PostDone(p)
        /\ UNCHANGED <<atts, viewers, liked, reacted, reply, follows, files, events, wrote, ever, mixed, client>>

(* Mutant: the parent is not held against the post of the path.            *)
AnyParent(i, x) == LiveReply(i)
MayNest(i, x) == LiveReply(i) /\ reply[i].post = x

CheckParent(p) ==
    LET r == postReq[p]
    IN  /\ r.pc = "parent"
        /\ IF MayNest(r.parent, r.post) THEN PostGo(p, "reply") ELSE PostDone(p)
        /\ Quietly

(* Create of the repository: the post and the parent must still have rows, *)
(* a deleted parent has one.                                               *)
InsertReply(p) ==
    LET r == postReq[p]
        accepted == LivePost(r.post)
    IN  /\ r.pc = "reply"
        /\ \/ ~accepted /\ PostDone(p) /\ UNCHANGED reply
           \/ \E i \in ReplyIds :
                /\ accepted /\ FreshReply(i)
                /\ reply' = [reply EXCEPT ![i] = NewReply(r.user, r.post, r.parent)]
                /\ postReq' = [postReq EXCEPT ![p].pc = "notify", ![p].reply = i]
        /\ UNCHANGED <<post, atts, viewers, liked, reacted, follows, files, events, history, bounds>>

(* notifyReplyCreated: the author of the post as read at first, and that   *)
(* of the parent if it still has a row.                                    *)
Notified(r) ==
    {post[r.post].author}
      \cup (IF r.parent = Absent THEN {}
            ELSE IF reply[r.parent].state = "gone" THEN {} ELSE {reply[r.parent].author})

NotifyReply(p) ==
    LET r == postReq[p]
    IN  /\ r.pc = "notify"
        /\ \/ /\ inbox' = [inbox EXCEPT ![r.reply] = Notified(r) \ {r.user}]
              /\ UNCHANGED <<lost, postFaults>>
           \/ /\ postFaults < MaxPostFaults /\ postFaults' = postFaults + 1
              /\ lost' = [lost EXCEPT !.replies = @ \cup {r.reply}]
              /\ UNCHANGED inbox
        /\ PostDone(p)
        /\ UNCHANGED <<rows, told, wrote, ever, mixed, client>>

(* UPDATE ... WHERE user_id AND deleted_at IS NULL.  Mutant: without the   *)
(* latter.                                                                 *)
MayChangeDeleted(i, u) == reply[i].state \in {"live", "deleted"} /\ reply[i].author = u
MayChange(i, u) == LiveReply(i) /\ reply[i].author = u

WriteReply(p) ==
    LET r == postReq[p]
    IN  /\ r.pc = "change"
        /\ IF ~MayChange(r.reply, r.user) THEN UNCHANGED reply
           ELSE IF r.op = "delete" THEN reply' = [reply EXCEPT ![r.reply].state = "deleted"]
           ELSE reply' = [reply EXCEPT ![r.reply].body = IF @ < MaxBody THEN @ + 1 ELSE @]
        /\ PostDone(p)
        /\ UNCHANGED <<post, atts, viewers, liked, reacted, follows, files, events, history, bounds>>

InsertFavorite(p) ==
    LET r == postReq[p]
    IN  /\ r.pc = "like"
        /\ liked' = [liked EXCEPT ![r.post] = IF LivePost(r.post) THEN @ \cup {r.user} ELSE @]
        /\ PostDone(p)
        /\ UNCHANGED <<post, atts, viewers, reacted, reply, follows, files, events, history, bounds>>

----------------------------------------------------------------------------
(* Handlers of one statement.                                              *)
UnfavoritePost(u, x) ==
    /\ "like" \in client.ops /\ u \in liked[x]
    /\ liked' = [liked EXCEPT ![x] = @ \ {u}]
    /\ UNCHANGED <<post, atts, viewers, reacted, reply, follows, files, events, postReq, history, bounds>>

SetPostReaction(u, x) ==
    /\ "react" \in client.ops /\ LivePost(x)
    /\ reacted' = [reacted EXCEPT ![x] = @ \cup {u}]
    /\ UNCHANGED <<post, atts, viewers, liked, reply, follows, files, events, postReq, history, bounds>>

RemovePostReaction(u, x) ==
    /\ "react" \in client.ops /\ u \in reacted[x]
    /\ reacted' = [reacted EXCEPT ![x] = @ \ {u}]
    /\ UNCHANGED <<post, atts, viewers, liked, reply, follows, files, events, postReq, history, bounds>>

PinPost(u, x) ==
    /\ "pin" \in client.ops /\ Readable(x) /\ post[x].author = u
    /\ \E pinned \in BOOLEAN : post' = [post EXCEPT ![x].pinned = pinned]
    /\ UNCHANGED <<atts, viewers, liked, reacted, reply, follows, files, events, postReq, history, bounds>>

FollowUser(u, v) ==
    /\ "follow" \in client.ops /\ u # v
    /\ follows' = follows \cup {<<u, v>>}
    /\ UNCHANGED <<post, atts, viewers, liked, reacted, reply, files, events, postReq, history, bounds>>

UnfollowUser(u, v) ==
    /\ "follow" \in client.ops
    /\ follows' = follows \ {<<u, v>>}
    /\ UNCHANGED <<post, atts, viewers, liked, reacted, reply, files, events, postReq, history, bounds>>

Step(p) ==
    \/ InsertPost(p) \/ LoadPost(p) \/ PushPost(p)
    \/ \E a \in Atts : AttachToPost(p, a)
    \/ UpdateRow(p) \/ DeleteAttachmentsForPost(p)
    \/ InsertView(p) \/ CountView(p)
    \/ CheckParent(p) \/ InsertReply(p) \/ NotifyReply(p) \/ WriteReply(p)
    \/ InsertFavorite(p)

Ask(p, u) ==
    \/ \E vis \in Visibilities, named \in SUBSET client.atts :
         \/ CreatePost(p, u, vis, named)
         \/ \E x \in PostIds : UpdatePost(p, u, x, vis, named)
    \/ \E x \in PostIds : GetPost(p, u, x) \/ FavoritePost(p, u, x) \/ CreateReply(p, u, x)
    \/ \E i \in ReplyIds, op \in {"edit", "delete"} : ChangeReply(p, u, i, op)

AtOnce(u) ==
    \/ \E x \in PostIds :
         \/ DeletePost(u, x) \/ UnfavoritePost(u, x) \/ PinPost(u, x)
         \/ SetPostReaction(u, x) \/ RemovePostReaction(u, x)
    \/ \E v \in client.users : FollowUser(u, v) \/ UnfollowUser(u, v)

PostsNext ==
    \/ \E p \in PostHandlers : Step(p)
    \/ \E p \in client.by, u \in client.users : Ask(p, u)
    \/ \E u \in client.users : AtOnce(u)
    \/ \E a \in Atts : DeleteAttachment(a)

PostsSpec == PostsInit /\ [][PostsNext]_postsVars

----------------------------------------------------------------------------
Counting(x) == {p \in PostHandlers : postReq[p].post = x /\ postReq[p].pc = "count"}

(* The counter of a post is the number of its viewers, but for those being *)
(* counted and those a fault has lost (RecordView, two statements).        *)
ViewsCounted ==
    \A x \in PostIds :
        LivePost(x) => post[x].views + Cardinality(Counting(x)) + lost.views[x] = Cardinality(viewers[x])

(* An answer hangs under a reply of its own post, whatever was deleted     *)
(* since CheckParent.                                                      *)
RepliesNest ==
    \A i \in ReplyIds :
        reply[i].state \in {"live", "deleted"} =>
            /\ LivePost(reply[i].post)
            /\ reply[i].parent # Absent =>
                 /\ reply[reply[i].parent].state \in {"live", "deleted"}
                 /\ reply[reply[i].parent].post = reply[i].post

(* Who wrote what a reply answers hears of it, once it has been told, and  *)
(* nobody else does, nor its own author.                                   *)
Answered(i) ==
    {post[reply[i].post].author}
      \cup (IF reply[i].parent = Absent THEN {} ELSE {reply[reply[i].parent].author})

RepliesTold ==
    \A i \in {j \in ReplyIds : reply[j].state # "none"} :
        /\ inbox[i] \subseteq Answered(i) \ {reply[i].author}
        /\ (/\ reply[i].state \in {"live", "deleted"} /\ i \notin lost.replies
            /\ \A p \in PostHandlers : ~(postReq[p].pc = "notify" /\ postReq[p].reply = i))
           => inbox[i] = Answered(i) \ {reply[i].author}

(* A post never links to an attachment that is gone, nor to one that none  *)
(* of its writers named.  Its links are all that its last writer named and *)
(* that still exist, once nobody is writing, unless requests wrote it      *)
(* together or a statement of the last one failed: Update replaces the     *)
(* links in several statements after the row, and nobody repairs them.     *)
AttsOfOneWriter ==
    \A x \in PostIds :
        /\ atts[x] \subseteq files \cap ever[x]
        /\ (/\ LivePost(x) /\ x \notin mixed /\ x \notin lost.links
            /\ \A p \in PostHandlers : ~Writing(p, x))
           => atts[x] = wrote[x] \cap files

(* Nothing refers to a post that is gone, however late a handler comes.    *)
NothingLeft ==
    \A x \in PostIds :
        post[x].state = "gone" =>
            /\ atts[x] = {} /\ viewers[x] = {} /\ liked[x] = {} /\ reacted[x] = {}
            /\ \A y \in PostIds : post[y].quote # x

(* Views, replies, notifications and attachments of posts, together.       *)
PostInv == PostsTypeOK /\ ViewsCounted /\ RepliesNest /\ RepliesTold /\ AttsOfOneWriter /\ NothingLeft

(* A post that is gone stays so, a reply keeps its place and its author, a *)
(* deleted one is neither edited nor brought back, and nobody is notified  *)
(* twice: the UPDATEs by handlers that looked earlier are guarded.         *)
RowsStand ==
    [][/\ \A x \in PostIds : post[x].state = "gone" => post'[x] = post[x]
       /\ \A i \in ReplyIds :
            /\ reply[i].state # "none" =>
                 /\ reply'[i].author = reply[i].author /\ reply'[i].post = reply[i].post
                 /\ reply'[i].parent = reply[i].parent
            /\ reply[i].state \in {"deleted", "gone"} =>
                 reply'[i].body = reply[i].body /\ reply'[i].state \in {reply[i].state, "gone"}
            /\ inbox[i] # {} => inbox'[i] = inbox[i]]_postsVars
=============================================================================
