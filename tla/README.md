# TLA+ models of OpenField

OpenField is a social backend: a gateway, six Go services (account, storage,
chat, posts, push, plugin) and one PostgreSQL database they share. Nothing but
the database coordinates the services: two requests meet in rows, row locks and
unique indexes, and an event reaches a client through `NOTIFY` and the push
service. The database runs READ COMMITTED and every request takes its
connections from a bounded pool, so what a request does is a sequence of
statements between which others come. That is the level of these models: one
action per statement (or per transaction whose outcome hangs on one locked row),
a process per concurrent request, and the background sweepers as processes.

## 1. Inventory

| part | state | operations | hard behaviours | what makes it correct |
|---|---|---|---|---|
| transfers, wallets | `transfers`, `wallets`, row locks | create, accept, decline, adjust, sweep | two settlements, lost updates, crash between credit and status, cascade of a purge | held money moves once; the sum changes by grants only; overdue ones are decided |
| divisible checks | `checks`, `check_claims`, message or post that carries it | create, claim, attach, expire on read, sweep | racing claims, rounding, context read outside the transaction, members and audiences that change meanwhile, pool of connections | no coin made or lost, each remaining share payable, nobody paid who had not seen the check |
| tips | `post_tips`, wallets, the row of the post | tip, delete the post | tip against deletion, two wallets locked in opposite orders, balance read without a lock | the ledger adds up, no tip escapes the deletion, refunds are bounded |
| memberships | `users.member_*`, wallets | purchase, grant, switch renewal on or off, renew | charging from a list read before, term computed from what was read | terms are never cut short, a level is paid for, a due renewal is settled |
| tasks, check-in | `task_completions`, `users` streak and last day | check in, make up, claim | two clocks around midnight, record written after the commit, two row locks | a reward once per cycle, the streak backed by signed days |
| calls | `call_sessions`, `call_participants`, event, history message | call, answer, decline, hang up, sweep | answer against timeout and hangup, four statements to end and report, an account that goes | one live call, one report with the true outcome, an end is final, no hangup leaves an empty call |
| conversations, consent | `conversations`, members, requests, key envelopes, two locks | create, invite, accept, join, leave, remove, roles, mute, settings, rotate keys, delete | roles read before they are used, acceptance in several statements, member limit, key coverage, erasure of an account | limit, no owner but one who is not muted, nothing of an erased account, keys reach the members and nobody removed |
| messages | `messages`, read marks, countdowns, events | send, forward, edit, delete, read, burn | sweep against edit and deletion, first readers together, restart between deletion and event | told once by one of them, what is deleted stays so, what was read burns |
| posts, follows | `posts`, links, views, replies, favourites, reactions, follows, notifications | create, quote, edit, delete, view, reply, like, react, pin, follow | no transactions: a post goes while a handler writes to it, two edits interleave, an edit fails half way, an attachment goes | views counted, replies in their place and told, no link but to what exists and a writer named, nothing left of what is gone |
| sign-in sessions | `refresh_tokens`, `qr_logins`, `users.deleted_at` | login, refresh, approve, poll, revoke, expire, ban, delete, purge | two uses of a token, refresh against revocation or purge | single use, one token per session, a code signs in once |
| registration, OAuth | `users`, nonces, pick tickets | login, callback, pick, create, bind, register, delete, restore, purge | count-then-insert of the quota, two first users, a ticket sent twice | quota, single use, signed in to an account of one's own |
| PIN, its limiters | `users.pin_hash`, attempts in the memory of two services | set, change, verify, tip | look, compare, count; a restart forgets | wrong entries lock, and few are compared beyond the budget |
| storage | `attachments`, `upload_sessions`, chunk and file objects of the store, quota lock | upload, avatar, chunk, complete, link, delete, recycle, burn | uploads that sum with and without the lock, two completions, sweep against completion, object and row in two steps | quota, no gap, no row without object, a burn deadline stands and is kept |
| camps | `camps`, members | create; everything else reads the camp first and fails | | |
| push | clients, tickets, send queues | connect, broadcast, close | slow client, closing hub | a ticket once, no send on a closed channel |
| gateway, moderation | ban cache, rate buckets | proxy, ban | cached answer | a ban holds after the cache's life |

The services meet in the database only. A check rides on a message or a post, a
tip and an attachment hang on a post, a call leaves a message. A module has the steps
of its neighbours that write what it reads or removes (`InsertMessage`,
`LeaveConversation` and `ChangeAudience` in `Checks`, `Attach` and `Unlink` in
`Uploads`, `DeleteAttachment` in `Posts`, `Spend` in `Tips`, `Move` and `Mute` in
`Messages`).

The purge of an account or the deletion of a bot reaches into all of them by the
cascades of `DELETE FROM users`. It is a step of `Transfers`, `Checks`, `Calls`,
`Groups`, `Sessions` and `Identities`. It is not a step of the others, and what they
show is of accounts that stay: in `Messages` a purge would mark the messages of a
sender deleted and then remove them, telling nobody; in `Posts` and `Tips` the posts of
the author, the replies and the tips of the user go without a notification or a
refund (the latter is a finding); in `Uploads` the rows of an owner go although the
deletion of an object may have failed; in `Members` and `Tasks` the one user and
everything about the user is gone.

The complete list with the files of each part, and the parts that are I/O or
single statements and stay unmodelled, is `components` in `PROJECT.json`;
`hazards` lists what is hard to test at the line where it bites.

## 2. Modules

| module | models | extends / instantiates |
|---|---|---|
| `Escrow` | what the transfer API promises, a transaction per step | |
| `Transfers` | `pkg/repository/transfer.go`, `wallet.go`, the handlers and sweeper above them | instantiates `Escrow` |
| `TransfersTipsProofs` | transfers: type correctness, the lock discipline, refinement of `Escrow`, conservation of money; tips: type correctness, the tip invariant | `Transfers`, `Tips`, `SumLemmas` |
| `SumLemmas` | what a sum over a finite set is, and how it changes with its terms | |
| `Checks` | `pkg/repository/check.go`, the posts and messages that carry a check, the pool | |
| `ChecksIdentitiesProofs` | checks: type correctness, payments in time, the check invariant; identities: the identity invariant | `Checks`, `Identities`, `SumLemmas` |
| `Tips` | `pkg/repository/tip.go`, the deletion of a post | |
| `Members` | `membership.go`, `pin.go`, `pkg/ratelimit`, the renewer | |
| `Tasks` | `task.go` of the account service | |
| `Calls` | `services/chat/internal/handler/call.go`, `pkg/repository/call.go` | |
| `CallsMembersProofs` | calls: type correctness, the call invariant, finality, the last hangup; members: the member invariant | `Calls`, `Members` |
| `Groups` | `conversation.go`, `consent.go`, `pkg/repository/chat.go`, `member_limits.go` | |
| `GroupsProofs` | the group invariant, the keys and their versions | `Groups` |
| `Messages` | `message.go` of the chat service and its repository, the burn sweeper | |
| `MessagesProofs` | the message invariant, standing rows | `Messages` |
| `Posts` | `services/posts/internal/handler/post.go`, `pkg/repository/post.go`, `reply.go`, `follow.go` | |
| `Sessions` | `session.go`, `errors.go`, `qr_login.go`, the handlers of `auth.go` and `user.go`, two sweepers | |
| `SessionsTasksProofs` | sessions: type correctness, the session and handshake invariants; tasks: type correctness, the task invariant | `Sessions`, `Tasks`, `SumLemmas` |
| `Identities` | OAuth sign-in: `auth.go`, `internal/auth`, `oidc_state.go`, `oauth_pick.go` | |
| `Uploads` | the storage service: direct and chunked uploads, the quota, deletion, the burn sweeper, the recycler, the stale-upload sweeper | |
| `UploadsPostsProofs` | uploads: type correctness, the quota and its lock, the object invariant, the burn deadline; posts: the post invariant, standing rows | `Uploads`, `Posts`, `SumLemmas` |
| `MC*` | model values, scenarios and symmetry for TLC | the module of that name |

A proof module named after two components holds the proofs of both, one after the
other. The two share no variable, constant or definition (which is why those of
`Tips`, `Members`, `Tasks`, `Posts` and `Identities` that would have the name of
one of the neighbour's are named after their own component: `TipsInit`,
`PostReq`, `AccountIds`), and no proof about the one cites an assumption of the
other.

**How they read the code.** A variable is a table (or the columns the properties
need), a lock, or where a request stands (`tx`, `req`, `pc`). `SELECT ... FOR
UPDATE` is a step of its own that waits for the lock and stores what it read; a
conditional `UPDATE ... WHERE` is one step; a Go early return ends the request.
Rollback is what a refusal, a failed statement or a dead process leave. What
another transaction did between two statements is visible to the second, as READ
COMMITTED has it. Amounts are cents, small; names, payloads, wording and
listings are left out; users, rows and tokens are model values. `map` in
`PROJECT.json` gives the lines of each definition.

**Transfers.** `tx[p]` is the transaction of a request or the sweeper; `LockRow`
is `lockTransferTx` and the checks on what it returned, `LockWallet` the first
half of `adjustBalanceTx`, `Commit` its second half with the row that goes with
it. `SweepScan` reads ids without locking them, as `RefundExpired` does.

**Checks.** `Claim` takes a connection and the row lock, then asks the same pool
for a further one to find what the check travels with (a message, else a post), and
again to see whether the caller may see that, then counts the claims and pays:
`LockRow`, `FindCarrier`, `ReadReach`, `CountClaims`, `PayShare`. Between any two of
these members come and go (`EnterConversation`, `LeaveConversation`), the audience of
the post changes, by an edit or a follow (`ChangeAudience`), and the message is deleted;
a check may be attached and sent both. `barred` holds the claims whose caller has lost
sight of the check since `FindCarrier`. `FreeConn` compares the transactions that run
with the size of the pool. `Draw` is the set of amounts the rounding of a random or
average share can produce. A `setting`, chosen at the start, says who there is, what they
own, who is a member and who comes and goes, where checks are shared and which are made.

**Tips.** A transaction carries what it has written (`change`) and which wallets
it has locked; others see the former, and are freed of the latter, at its commit.
It locks the row of the post, then wallets in the order the code pays them, so
two transactions may wait in a circle: `Stuck` is PostgreSQL's deadlock detector,
which rolls back one that has waited for long enough. A refund reads the balance,
then locks and debits it (`ReadAuthorBalance`, `DebitAuthor`, `RepayGiver`).

**Members.** One user, days as the unit of time. A handler takes the time, reads
the hash, asks the limiter, compares and acts (`Ask`, `ReadHash`, `Gate`,
`ComparePin`, then the operation). The renewer is a list read before and a charge
per entry (`Renew`). The account and the posts service (a tip) compare the same PIN, each
with a limiter of its own in memory, which `Restart` empties; `ledger.wrong` counts the
wrong entries since each last forgot them.

**Tasks.** One user. The handler's clock is `day`, the database's `at`, and
`NextDay` may come between any two steps. The user row has two kinds of locks,
the key share an INSERT takes through its foreign key and the update lock a
check-in and a reward take; the one a reward inserts under is what two rewards
may deadlock on.

**Calls.** A request holds the call it loaded; the row may have moved on. `End`
is the conditional update that one of several racers wins; reading the
participants, writing the history message and publishing follow as steps of
their own, each of which may fail. `PurgeUser` deletes an account: the calls it
started, and its rows in the rosters of others. `deserted` remembers the calls whose last
participant declined after having accepted or was erased, the two ways the code leaves a
call empty; whoever joins takes it back. `scope` bounds a behaviour: a pair or a group,
one call or two, with or without failing statements or an erasure.

**Groups.** One group and its requests. Each handler is `Ask...` (the rights of the
caller as read), `CheckTarget` (the row of the target as read), a write. The join
lock is the advisory lock of `member_limits.go`; a rotation holds the row of the
conversation from `LockConversation` to `CommitKeys`, and everything that has a
foreign key to it waits. `mark` remembers which version was the last before a
member came, went or published a key. `EraseUser` is `DELETE FROM users` with its cascade:
memberships, requests and envelopes go, and the owner of the group becomes nobody. It
waits for the rows a rotation holds; when a rotation waits for the user row in turn,
PostgreSQL ends one of the two, which is a `Fault` or an erasure that does not happen.
`LockConversation` reads `MAX(version)` of the envelopes that are left, so when every
addressee of the last version has been erased its number is given out again.

**Messages.** No locks. `req[p]` is a sequence of looks and one conditional UPDATE,
then the event; `armTold` and `goneTold` count events. Countdowns run (`Tick`), the sweeper deletes
by one UPDATE and tells from memory, `Restart` loses that memory.

**Posts.** No locks either, but foreign keys: a row refers to nothing that is gone,
so an INSERT after a deletion fails. `Update` writes the row, then deletes the links,
then inserts them one by one, and any of these may fail and end the request
(`LinksFail`): an INSERT does when the attachment has no row, as one that was deleted,
burned or recycled (`DeleteAttachment`, whose links cascade) or one the client made up,
for nothing checks the ids. `mixed` marks posts two edits have written at the same time,
`lost` the notifications, views and links whose statement failed.

**Sessions.** A refresh is three statements: validate, load the user, rotate.
The rotation is a transaction whose outcome depends on the one row it deletes,
so it is one step. `refresh[t].session` is the token a session began with and is
not in the code: it is how the model tells that two tokens belong to one session.
Access tokens are stateless, so a user who once signed in may call at any time.
The purge is two steps per user (sessions, then the row and what cascades) over a
list read before. Time passes by `Expire`, `LapseQrLogin` and `GraceElapses`.

**Identities.** Every handler is a chain of single statements: consume the nonce or
ticket, find accounts of the identity or of its address, count, insert or update.
`ledger` remembers who signed in by which proof. What the provider answers is any
identity; the hundred usernames tried are one step. What `SignedInAsOwn` says of the
registration gate is said of the tokens of this sign-in: `Login` (auth.go:221) and
`ApproveQrLogin` (auth.go:1139) mint tokens that pass the gate whatever the account's
state, and are not in the module.

**Uploads.** The store and PostgreSQL share no transaction, so each call to either
is a step: `StatChunks`, `CheckQuotaForActualBytes`, `AssembleChunks`, `GetByHash`,
`LockUserUsage`, `CreateWithinQuota`, `ClearChunks`, `DeleteUploadSession` are the
calls `ChunkComplete` makes in that order, and `req[p]` is what it has in hand. A
direct `Upload` joins them at `GetByHash`. Avatars and banners come from the account
service, which sums without the lock, not at all when the quota is not positive, stores,
and inserts by `AttachmentRepository.Create` (`UploadImage`, `StoreUpload`, `CreateImage`).
`slip.request` holds the image requests nothing checked, or during which another row of the
user was inserted, `slip.file` what these, and images under another's lock, inserted. What
the image then is to its account (`UpdateAvatar`) is left out, and one size stands for the
one that is checked and the smaller one stored without metadata. A chunk may be stored at any moment, as
`ChunkUpload` looks at the session only before it reads the body. `row` is an
attachment with its links from posts and burning messages, `row.counted` the
content whose size was measured, which need not be what `row.sha256` was made
from. A listing of the store may omit fresh objects, so `DeleteChunks` leaves any
subset. Each sweeper is the list it read and the key whose object it has deleted
and whose row is next; how old a row or a session is is left open. Left out:
thumbnails and previews, stripping of metadata (a second upload under a new key),
buckets, private visibility (a match by hash is of any user's row), the batch
limit of the sweeps, and the constancy of a quota (it is an administrator's).

## 3. Runs

One run per module. Where a handler offers many operations the instance is a set
of scenarios (`Clients`, `Scopes`, `Settings`): a behaviour picks one at the start,
which says who its clients are and what they ask for, and the run covers them all.

| run | instance | what it shows |
|---|---|---|
| `transfers` | 2 requests, sweeper, 2 users, 1 transfer, 1 fault, 1 purge | lock discipline, refinement of `Escrow`, no coin made or lost, overdue transfers decided |
| `checks` | 2 requests, sweeper, 4 connections, 1 fault; a check of 5 cents in 3 shares attached to a post, or one of 1 or 2 cents in 2 shares and a claimant purged, or one of 1 share attached and sent, whose claimant comes to and goes from both audiences | coins accounted, status and claims agree, each remaining share payable, nobody paid late or who had not found the check in sight, answers come, expired checks close |
| `calls` | a pair with 2 requests and 1 fault; 2 calls in turn that nobody answers; a group of 3 with 2 requests; a group of 3 with 1 request and an erasure; the sweeper | one live call, one report by whoever ended it, ends are final, somebody is in a live call at rest but in the two cases of `deserted`, ringing stops, every end is reported |
| `groups` | 3 users, room for 2, 2 requests, 1 fault: coming and going, private chats, ranks, mutes, key rotations, deletion, erasure | the limit, an owner never muted and lost only with the account, nothing of an erased account, acceptances are carried out, keys reach the members and nobody removed, every request answered |
| `messages` | 3 users, 2 conversations, 3 messages, 2 requests, 1 fault: burning, editing, forwarding, replying, read marks | a deletion and a countdown told by one alone, rows stand, what was read burns |
| `posts` | 3 users, 2 posts, 2 replies, 2 attachments, 2 requests, 1 fault: editing, viewing, replying, quoting, following, attachments that go | views counted, replies nest and are told once, no link but to what exists and a writer named, all of the last writer's but after a failure or two edits at once, nothing left of what is gone |
| `tips` | 2 requests, 3 users, 2 posts, 3 tips, 2 other payments, 1 lost connection: crosswise, two givers, two posts of an author | ledger and fees, no tip escapes a deletion, refunds bounded and full unless spent, waits in a circle end |
| `members` | 2 requests at a time, 3 in all or 6 guesses of the PIN at two services, 5 days, terms of 2, 2 levels, 2 PINs, a grant, a restart | paid days served once, levels paid, wrong PINs lock and are bounded at each service, due renewals settled |
| `tasks` | 2 requests at a time, 3 in all, 3 days, lost completions | check-ins, make-ups and rewards once, streak backed by signed days, both of two blocked rewards end |
| `sessions` | 2 users, 3 tokens, 1 code, 2 requests, 1 fault, a ban and a purge | single use, no fork, revoked is over, a code signs in once |
| `identities` | 3 requests, 4 accounts, 2 identities, 2 nonces, 2 tickets, quota 2; an empty system or one with an administrator | nonces and tickets used once, one first administrator, bounded quota, signed in to an account of one's own |
| `uploads` | 2 chunks, quota for one file of two, 1 fault, every sweeper; 2 requests of a user who may send an image, or 1 of a user with quota 0 who does, or 1 and two attachments that burn | the quota but for images that slip, and its lock, no file with a gap, no row of other bytes, nobody takes back an object that has a row, deadlines stand, what is due is burned |

**Bounds.** `MaxFaults` is one: after one rollback or crash the state is one the
run reaches without it, or one where a step of several is missing, and no code
path looks at more than one such gap. Two concurrent requests and a sweeper are
enough for each race the code guards against (a loser needs one winner), with a
third user where three roles matter (caller, callee, a third member; two readers
and a sender). Identifiers are used once, so a run ends when they are: three
tokens let a session be refreshed and another begun, three messages let a copy of
a copy be answered. Three requests in `identities` are two that race past the
count and one that comes after. `transfers` has one transfer and not a sweep of several, so
that a failed refund leaves the others of its sweep alone is not checked. Room for two and three users make the limit of a
group bite. Six guesses at two services with a budget of two are enough for each limiter
to lock, to be overrun by the one request that is compared besides, and to be asked
again. Shares of 5 by 3 do not divide, 1 by 2 leaves a share
without a cent, and 2 by 2 has one each. Four connections leave the two
claimants and the sweeper one to spare; with fewer all may wait (findings). Five days cover a
term, the window before and after it and a lapse; three midnights a streak, a
hole and a make-up. A tip is of whole coins, so its fee
of 5 % is never rounded; 200 and 100 cents against a balance of 5 leave an author
with all, some or none of a refund. One user is enough for most of `Uploads`, since a
quota, its lock and a session are of one user; the second has the quota of zero that
images do not respect; two keys and a file of two chunks
let two completions of one session meet. Where time has no clock a limit elapses
at any moment, which covers every duration.

`calls`, `groups`, `messages`, `posts`, `members` and `identities` have
`CHECK_DEADLOCK FALSE`: clients stop when their rows, days or asks are used up, or
when the group is deleted. That a *request* never waits for ever is a property of
its own where there is something to wait for (`Answered`, `RequestsEnd`,
`AnsweredAndClosed`, `OverdueDecided`); the others hold no lock between two steps.

**Fairness.** Clients and time are never fair, but for ringing, which ends, and
countdowns, which run out (`Tick`). A request that is running goes on. Where it
waits for a row lock, an advisory lock or a connection (`transfers`, `checks`,
`tips`, `tasks`, `groups`) that is strong fairness: it stands for PostgreSQL's
queue of lock waiters and `database/sql`'s queue of requests for a connection,
without which a request could be overtaken for ever. In `tips` and `tasks` the deadlock
detector is part of a request's step, for it is a timer of each waiting backend.
Sweepers and the renewer are tickers (weak fairness of their next step), in
`transfers`, `checks`, `calls`, `messages`, `members` and the burn sweeper of
`uploads`; failures are bounded by `MaxFaults`, so some run of each meets none.
`sessions`, `posts` and `identities` ask nothing of liveness.

Each property has a mutant in `PROJECT.json`: the definition `of` of the model
replaced by `as`, a mistake one could make in that code, and TLC finds the
property broken.

## 4. Proofs

All are for any constants that satisfy the assumption of the module, so for any
number of users, rows, requests and faults. Where something is counted or summed the
assumption says that the set is finite: the users, rows and chunks of `Transfers`,
`Checks` and `Uploads`, the tips of `Tips`, the users and handlers of `Posts`, the concurrent
requests of `Messages`, `Identities`, `Members` and `Tasks`. The server has no infinite ones.

* *Transfers*. `LockInv` is inductive with `TypeOK`: *Ownership* (a
  transaction that is past `FOR UPDATE` holds the lock), *NothingStale* (what it
  read is still so), *WellFormed* (its parameters fit its statement). Without
  ownership staleness is not inductive, since another commit might come between;
  without well-formedness a credit might be of a negative amount. `EscrowRefined`
  maps each step to a step of `Escrow` or to nothing: reads, locks and rollbacks
  stutter; `Commit` is the atomic operation since nothing it read is stale.
  `MoneyKept` goes on from there: an atomic operation moves one amount between
  one wallet and one transfer, and a sum changes by what its one term changes.
* `SumLemmas`. The sum of the community modules folds a set, taking one element after the
  other. That the fold has a value, and the same one in any order, is an induction
  over the subsets of a finite set; it is proved from the well-foundedness of strict inclusion
  (`WFMin`), with the claim as a set of good subsets, since a claim passed as an
  operator is beyond the provers. From it follow the sum of a changed term (`SumChange`), of
  a term-by-term sum of two functions (`SumPlus`), and that a sum of no negative terms is
  not less than that of a part of them (`SumWithin`).
* *Checks*. `CheckInv` is not inductive by itself. `RowsInv` adds that an active check
  has a share left and, if it had a cent for each, keeps one for each that is left;
  `SnapsInv` that what a claim has summed under the row lock is not less than what is
  still there, since meanwhile a purge may take claims away but nobody adds one;
  `LockedInv` that a transaction past the lock owns the row and finds it as it
  was. While nobody is purged (`Whole`), the sums are exact and no coin is lost.
  `PaidInTimeHolds` adds to `LockedInv` that a claim past `FindCarrier` has found what
  still carries the check, and past `ReadReach` a caller who is admitted there, or is
  `barred`. A step either leaves the caller the sight of the check (`SameSight`) or bars the
  claim; attaching and inserting the message do neither, but they wait for the row
  (`RowFree`), so they do not come between.
* *Calls*. `CallInv` is what the run checks, with what each request in the
  middle of ending a call has already done (`Reporting`, `OneReporter`), without
  which nothing says that the second racer reports nothing. `EndedIsFinal` needs
  that every update of the row is conditional on a live state.
  `LastHangupHolds` is about four statements of several requests: every live call has
  somebody in it, or is `deserted`, or there is a request that has left it and has still
  to count who remains, or to end it (`Attended`). Whoever was alone in a call and marks
  the roster is therefore one of three: a hangup, which then counts; a decline or an
  erasure, which desert it.
* *Groups*. Induction is on `Rows /\ Requests`: the tables, and for each request
  what it has read or locked (`Fits`). Who counted under the advisory lock has room
  (`Joins`), since others only leave; who read a role knows that the target was not the
  owner and cannot become it (`Ranks`); a rotation holds the row of the conversation, so
  its version is the next one and its envelopes are for all who are members
  (`Sealed`). The group may be deleted under any of them, and then whoever goes on
  writes nothing (`NothingLeft` needs it of each). An erasure can come under them too:
  the owner is one of the creators or nobody (`Named`), an INSERT for the erased fails
  (`Forgotten` is part of `Rows`), and a rotation that has written envelopes addresses none
  of the erased (`Rotates`), since the erasure waits for it.
* *Messages*. There is no lock to argue from. `Still` is what every step keeps
  of a row, since each UPDATE repeats its condition; a row that exists keeps its
  conversation, sender and kind, which is all a request relies on between its look
  and its insert (`Relies`). That a deletion is told once is a count: events
  told, requests about to tell, the sweeper's list and events lost add up to one
  exactly when the message is deleted (`Gone`, `Armed`); a step of one request moves
  one unit between two of them (`Balance`).
* *Sessions*. `SessionInv` rests on *Lineage*: the first token of a session
  was stored before any other, so a token not yet used names no session and is
  not revoked; a rotation then takes the session's only token for another.
  `HandshakeInv` needs `ReqInv` (a request about to confirm holds a session of
  its user). Induction is on `TypeOK /\ SignInInv`.
* *Uploads*. Induction is on `ControlInv /\ StoreInv`. `ControlInv` says
  what a request has in hand at each call (`Fits`) and that the lock of a user is
  held by the one request between sum and insert. `StoreInv` says of each key what
  object and row have to do with each other (`Sound`), that a request which has
  stored an object but no row owns its key alone (`Owns`, `OwnsAlone`), and that
  whoever is about to delete or link a key found it in a row (`Named`, `Swept`).
  Without the last a sweeper might delete the object of a completion that has yet
  to insert its row, without the second two completions could record one object.
  `DeadlinesStand` needs that a row is inserted only where there was none.
  `QuotaHolds` adds that the sum a request has made under its user's lock still fits:
  nobody else inserts for that user but images, which slip when they do, and rows that go
  only lower it; and that an image whose check nothing overtook fits as well (`ImagesFit`).
  What slipped is left out of the sum (`Kept`), so it disturbs neither.

* *Tips*. The ledger is not inductive as it stands: a transaction that has written and not
  committed has moved coins nobody else sees. `Backed` says what each has moved in each
  wallet (the tip and its net, or the refunds done so far with the one at hand half
  done), and that it holds the wallets it has written to; `Accounted` says what a row of
  `post_tips` has moved in the wallet of a user, and the balance is what there was at first
  and the sum of that over all tips. No tip is dropped since whoever deletes a post
  has listed every tip that is paid on it (`FitReq`), and no other can be added while
  it holds the row. `InFull` says that the refunds of an author who has paid for nothing
  are not cut short.
* *Posts*. There is no lock and no transaction, so a request knows only what no step
  takes back: a post, once there, keeps its author, and a reply its post, its parent
  and its author (`Place`, `Nests`, `Tells`). A view
  is counted by the one request between its two statements (`ViewsCounted`: the count, and
  the requests about to count, and those lost, are the viewers), a reply is told by the
  request that inserted it and by no other (`OneTeller`). That the attachments are those of
  its last writer needs that, unless the post is marked mixed, one request is at its links
  (`OneWriter`) and how many of what it was to write are still missing (`Writes`); an
  attachment that goes leaves the links and what they are compared with alike, and a
  failure ends the request and marks the post. `RowsStand`
  is proved step by step from the same invariant.
* *Identities*. A nonce or a ticket is consumed by one statement before anything else
  happens, so one request at most holds it (`SingleUse`), and each request has what its
  next statement needs (`Shape`). Who finds users when it counts them finds an administrator
  as long as none is purged (`AdminSeen`). `QuotaBounded` and `Administered` are inductive
  counts: a request moves from those about to enter to those that have. `TablesAssumption`
  says of the tables a behaviour may start from what the code keeps: accounts have an
  administrator among them, and the two bounds hold at first.
* *Members*. Days are numbers without a bound here, so terms may begin in any future.
  While the entry of a limiter is open it counts the wrong PINs at its service
  (`EntryCounts`), each request past the gate may add one more (`LockBudget`), and with what has been
  served, the terms to come are what has been paid for (`PaidUp`), each entry of the
  ledger being the price of its level (`TermsStand`).
* *Tasks*. The user row serialises check-ins, and a completion is a row under a unique key,
  whose owner nobody else can be (`Distinct`, `Keyed`). The invariant follows a day through the
  three places that may know of it: the bonus that was booked, the completion, and the request
  between them (`DaysFit`, `Marks`, `Past`). Two
  facts tie the streak to those days, and each holds only where the code's exceptions do not
  apply: a streak is never longer than there are backed days while no check-in ran across midnight
  (`StreakBacked`), and until something is made up it is the run of days up to the
  last one (`RunFits`), which is why it agrees with the calendar then. The coins are one sum
  over days and one over rewards.

What these proofs found in the models: `Groups` let a request go on to answer an
invitation whose row had gone with its group, and `Messages` gave what a failure leaves
untold by a case distinction that overlapped. Both are now as the code is. `Members` bounded
how late a term may end by a number that three purchases in a row would have passed with
another price list, and `Identities` let a behaviour start from tables the code never
leaves behind; now a term ends on any day, and the tables are those of `TablesAssumption`.

Every invariant and every action property of the runs is a theorem, and so is the
refinement of `Escrow`. Model-checked only is liveness (`OverdueDecided`, `AnsweredAndClosed`,
`CallsSettle`, `Answered`, `BurnHappens`, `BurnsHappen`, `DueServed`, and `RequestsEnd` of `Tips`
and of `Tasks`), which is out of the prover's reach.

## 5. Where the code departs from its documents

All are listed, with the lines that disagree, under `findings`. They were met while modelling and are
left in the models as the code has them, so no property asks for the contrary;
where a property has an exception, the exception is one of these. In short:

* *Money.* A purge takes pending transfers and paid claims with it. Claims by as
  many clients as there are connections wait for each other for ever; what is
  left of an expired check is not given back; a check may have more shares than cents
  and be sent twice, and a share is paid to who has
  lost sight of the check meanwhile. Tips are refunded net and only as far as the author's
  balance reaches, not at all when a camp or an account goes, and a payment in
  between makes the deletion fail. Renewals leave a gap of a day, and charge whoever was
  on the list.
* *Streaks and PINs.* A make-up of yesterday breaks the streak of today; a
  check-in across midnight is granted twice; two first PINs overwrite each other;
  wrong entries never age; requests that were let through together are all compared, beyond the
  five; and posts and account each give the five.
* *Calls.* A hangup judges by the state it loaded, a join of a group answers success
  after the end, a failed hangup may leave a call with nobody on it, a call
  whose ender fails after `End` is reported to nobody; the last one in a group call who declines it, or
  whose account is deleted, leaves it live and empty.
* *Conversations and messages.* One request accepted twice makes two chats; the
  quota of groups is counted before it is used; leaving lifts a mute; a refused
  forward may be half done; a group outlives the account of its owner and nobody can manage it; what the sweeper had not told when it stopped is never
  told; a burned message is still shown to who asks for it; read marks move back.
* *Posts.* Two edits mix their attachments; an edit that names an attachment there is not fails after
  its text is written; a pure repost of a deleted post is
  empty. A camp that exists cannot be read.
* *Accounts.* The QR poll is answered without tokens; a deletion can be cancelled
  and still be carried out; the grace period needs a token that cannot be had;
  device labels are lost on refresh; adding an account to an identity with an address
  always fails; the quota of accounts can be exceeded by requests that overlap.
* *Storage.* The recycler deletes what has come to use meanwhile, and runs once
  per boot; the lookups by hash and by post fail when they find something; a
  recorded size may be that of other bytes than the recorded hash; chunks may
  outlive every session; what a session reserves is not charged; avatars and banners sum without the
  lock, and not at all for an account that may store nothing.

## 6. Not modelled

* *Camps* (`camp.go` of both layers, a good part of the posts service): every query that loads a
  camp scans one column fewer than it selects and fails, so a camp can be
  created and then neither joined, left, administered nor deleted. What those
  handlers were meant to do is not what they do, and a model of it would be a
  model of another program.
* *Push hub and gateway*: clients, send queues, the cache of bans and the request
  limiters live in one process and touch no row the other modules are about. An
  event is modelled where it is published, not how it is delivered.
* *Single statements*: announcements, todos and files of a group, punishments and
  reports, permissions, notifications, bots, plugins. There is nothing between
  two of their steps.
* *Data*: passwords, signatures and hashes (who holds a token may use it); listings,
  searches and counts shown to users; names, avatars, device labels, tags, titles;
  what the progress of a task is counted from.
* *The outside*: WebRTC, the inside of the object store, Redis, the identity providers,
  e-mail, the admin panel. Configuration, migration and start-up run once.

## 7. Plan

1. `Push`: hub, tickets and queues; the cache of bans and the limiters.
2. An abstract specification of what a check promises, a claim per step, which `Checks` implements
   as `Transfers` implements `Escrow`: `CheckInv` and `PaidInTime` have what its
   refinement needs.
3. Camps, once their queries work.
