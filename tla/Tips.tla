--------------------------------- MODULE Tips ---------------------------------
(***************************************************************************)
(* Tips on posts and what becomes of them when the post is deleted         *)
(* (pkg/repository/tip.go, Delete of post.go, TipPost of                   *)
(* services/posts/internal/handler/post.go).                               *)
(*                                                                         *)
(* Both are transactions of several statements.  They lock the row of the  *)
(* post, then one wallet after the other in the order of the payments, and *)
(* what they write is seen by others only at the commit.  PostgreSQL rolls *)
(* back a transaction that waits in a circle.                              *)
(***************************************************************************)
EXTENDS Integers, FiniteSets, Functions

CONSTANTS
    TipUsers,      \* accounts
    Posts,         \* posts
    TipIds,        \* rows of post_tips
    TipHandlers,   \* concurrent requests
    TipAmounts,    \* what a tip costs: whole coins, in cents
    Start,         \* what is in the wallets at first
    Clients,       \* bound: authors of the posts, users, amounts, operations of one behaviour
    MaxSpends,     \* bound: purchases of other things
    MaxTipFaults,  \* bound: connections lost
    Absent

ASSUME TipsAssumption ==
    /\ Absent \notin TipUsers \cup Posts \cup TipIds /\ IsFiniteSet(TipIds)
    /\ TipAmounts \subseteq Nat \ {0} /\ \A a \in TipAmounts : a % 100 = 0
    /\ Start \in [TipUsers -> Nat]
    /\ Clients \subseteq [author : [Posts -> TipUsers], users : SUBSET TipUsers, posts : SUBSET Posts,
                         amounts : SUBSET TipAmounts, tips : SUBSET TipIds]
    /\ MaxSpends \in Nat /\ MaxTipFaults \in Nat

VARIABLES
    post,    \* rows of posts
    tip,     \* rows of post_tips; a row that the cascade removed stays as history
    bal,     \* wallets.balance, committed
    fees,    \* history: what the platform has kept
    spent,   \* history: what each user has paid for other things
    req,     \* the request each handler serves, with its transaction
    client,  \* who does what in this behaviour
    spends, tipsFaults

(* paid: refunded_at is NULL.  When its post is deleted a tip has been     *)
(* refunded (back says how much), or kept because the author had nothing,  *)
(* or dropped: the deletion never looked at it.                            *)
Tip == [state : {"none", "paid", "refunded", "kept", "dropped"}, post : Posts \cup {Absent},
        giver : TipUsers \cup {Absent}, amount : Nat, back : Nat]

NoTip == [state |-> "none", post |-> Absent, giver |-> Absent, amount |-> 0, back |-> 0]
PaidTip(x, u, a) == [state |-> "paid", post |-> x, giver |-> u, amount |-> a, back |-> 0]

Pc == {"idle", "lock", "charge", "credit", "commit", "refund", "debit", "repay"}

(* change: what the transaction has written to wallets, locks: the wallets *)
(* it has locked, todo: tips to look at, seen: the refund decided on for   *)
(* the tip at hand, back: the refunds so far.                              *)
Req == [op : {"none", "tip", "delete"}, pc : Pc, user : TipUsers \cup {Absent}, post : Posts \cup {Absent},
        tip : TipIds \cup {Absent}, amount : Nat, change : [TipUsers -> Int], locks : SUBSET TipUsers,
        todo : SUBSET TipIds, listed : SUBSET TipIds, seen : Nat, back : [TipIds -> Nat]]

NewReq(op, pc, u, x, t, a) ==
    [op |-> op, pc |-> pc, user |-> u, post |-> x, tip |-> t, amount |-> a,
     change |-> [v \in TipUsers |-> 0], locks |-> {}, todo |-> {}, listed |-> {}, seen |-> 0,
     back |-> [s \in TipIds |-> 0]]

NoReq == NewReq("none", "idle", Absent, Absent, Absent, 0)

ledger == <<post, tip, bal, fees, spent>>
tipsVars == <<post, tip, bal, fees, spent, req, client, spends, tipsFaults>>

TipsTypeOK ==
    /\ post \in [Posts -> {"live", "gone"}]
    /\ tip \in [TipIds -> Tip]
    /\ \A t \in TipIds : tip[t].state # "none" => tip[t].post \in Posts /\ tip[t].giver \in TipUsers
    /\ bal \in [TipUsers -> Nat]
    /\ fees \in Nat /\ spent \in [TipUsers -> Nat]
    /\ req \in [TipHandlers -> Req]
    /\ client \in Clients
    /\ spends \in Nat /\ tipsFaults \in Nat

TipsInit ==
    /\ client \in Clients
    /\ post = [x \in Posts |-> IF x \in client.posts THEN "live" ELSE "gone"]
    /\ tip = [t \in TipIds |-> NoTip]
    /\ bal = Start
    /\ fees = 0 /\ spent = [u \in TipUsers |-> 0]
    /\ req = [p \in TipHandlers |-> NoReq]
    /\ spends = 0 /\ tipsFaults = 0

----------------------------------------------------------------------------
Author(x) == client.author[x]

(* netTipAmount: the author gets 95 %, rounded down.                       *)
Net(a) == (a * 95) \div 100
NetOf(t) == Net(tip[t].amount)

Go(p, pc) == req' = [req EXCEPT ![p].pc = pc]
Done(p) == req' = [req EXCEPT ![p] = NoReq]

FreshTip(t) == t \in client.tips /\ tip[t].state = "none" /\ \A p \in TipHandlers : req[p].tip # t

(* TipPost, up to its transaction: the post is there, somebody else's, and *)
(* the PIN was right.                                                      *)
AskTip(p, u, x, a, t) ==
    /\ req[p].pc = "idle"
    /\ a \in client.amounts /\ FreshTip(t)
    /\ post[x] = "live" /\ Author(x) # u
    /\ req' = [req EXCEPT ![p] = NewReq("tip", "lock", u, x, t, a)]
    /\ UNCHANGED <<ledger, client, spends, tipsFaults>>

AskDelete(p, u, x) ==
    /\ req[p].pc = "idle" /\ x \in client.posts
    /\ req' = [req EXCEPT ![p] = NewReq("delete", "lock", u, x, Absent, 0)]
    /\ UNCHANGED <<ledger, client, spends, tipsFaults>>

(* SELECT ... FOR UPDATE of the post.  Mutant: without FOR UPDATE.         *)
HoldsPost(p, x) == req[p].post = x /\ req[p].pc \notin {"idle", "lock"}
MayLockAlways(p) == TRUE
MayLock(p) == \A q \in TipHandlers \ {p} : ~HoldsPost(q, req[p].post)

(* A tip goes on to charge its giver; a deletion lists the tips.           *)
LockPost(p) ==
    LET r == req[p]
        tips == {t \in TipIds : tip[t].state = "paid" /\ tip[t].post = r.post}
    IN  /\ r.pc = "lock" /\ MayLock(p)
        /\ IF post[r.post] = "gone" THEN Done(p)
           ELSE IF r.op = "tip" THEN Go(p, "charge")
           ELSE IF Author(r.post) # r.user THEN Done(p)
           ELSE req' = [req EXCEPT ![p].pc = "refund", ![p].todo = tips, ![p].listed = tips]
        /\ UNCHANGED <<ledger, client, spends, tipsFaults>>

----------------------------------------------------------------------------
(* adjustBalanceTx: the wallet is locked, its balance read, checked and    *)
(* written.                                                                *)
WalletFree(p, u) == \A q \in TipHandlers \ {p} : u \notin req[q].locks
Own(p, u) == bal[u] + req[p].change[u]

(* Mutant: the new balance is not checked.                                 *)
TipsCoversAny(balance, a) == TRUE
TipsCovers(balance, a) == balance >= a

Adjusted(r, u, by) ==
    [r EXCEPT !.change[u] = @ + by, !.locks = @ \cup {u}]

ChargeTipper(p) ==
    LET r == req[p]
    IN  /\ r.pc = "charge" /\ WalletFree(p, r.user)
        /\ IF TipsCovers(Own(p, r.user), r.amount)
           THEN req' = [req EXCEPT ![p] = [Adjusted(r, r.user, -r.amount) EXCEPT !.pc = "credit"]]
           ELSE Done(p)
        /\ UNCHANGED <<ledger, client, spends, tipsFaults>>

CreditAuthor(p) ==
    LET r == req[p]
    IN  /\ r.pc = "credit" /\ WalletFree(p, Author(r.post))
        /\ req' = [req EXCEPT ![p] =
                     [Adjusted(r, Author(r.post), Net(r.amount)) EXCEPT !.pc = "commit"]]
        /\ UNCHANGED <<ledger, client, spends, tipsFaults>>

Committed(p) == [u \in TipUsers |-> Own(p, u)]

CommitTip(p) ==
    LET r == req[p]
    IN  /\ r.pc = "commit"
        /\ bal' = Committed(p)
        /\ fees' = fees + r.amount - Net(r.amount)
        /\ tip' = [tip EXCEPT ![r.tip] = PaidTip(r.post, r.user, r.amount)]
        /\ Done(p)
        /\ UNCHANGED <<post, spent, client, spends, tipsFaults>>

----------------------------------------------------------------------------
(* RefundForPostTx: the author's balance is read without a lock, and as    *)
(* much of the tip as it covers is to be paid back.                        *)
Refund(net, balance) == IF balance < net THEN balance ELSE net

ReadAuthorBalance(p, t) ==
    LET r == req[p]
        refund == Refund(NetOf(t), Own(p, Author(r.post)))
    IN  /\ r.pc = "refund" /\ t \in r.todo
        /\ IF refund <= 0 THEN req' = [req EXCEPT ![p].todo = @ \ {t}]
           ELSE req' = [req EXCEPT ![p].pc = "debit", ![p].tip = t, ![p].seen = refund]
        /\ UNCHANGED <<ledger, client, spends, tipsFaults>>

(* Only now is the wallet locked; when it covers the refund no more, the   *)
(* deletion fails.                                                         *)
DebitAuthor(p) ==
    LET r == req[p]
        u == Author(r.post)
    IN  /\ r.pc = "debit" /\ WalletFree(p, u)
        /\ IF TipsCovers(Own(p, u), r.seen)
           THEN req' = [req EXCEPT ![p] = [Adjusted(r, u, -r.seen) EXCEPT !.pc = "repay"]]
           ELSE Done(p)
        /\ UNCHANGED <<ledger, client, spends, tipsFaults>>

RepayGiver(p) ==
    LET r == req[p]
        u == tip[r.tip].giver
    IN  /\ r.pc = "repay" /\ WalletFree(p, u)
        /\ req' = [req EXCEPT ![p] = [Adjusted(r, u, r.seen) EXCEPT
                     !.pc = "refund", !.back[r.tip] = r.seen, !.todo = @ \ {r.tip}, !.tip = Absent]]
        /\ UNCHANGED <<ledger, client, spends, tipsFaults>>

(* What the deletion of the post makes of a tip on it.                     *)
Settled(r, t) ==
    [tip[t] EXCEPT !.back = r.back[t],
                   !.state = IF r.back[t] > 0 THEN "refunded"
                             ELSE IF t \in r.listed THEN "kept" ELSE "dropped"]

(* The cascade removes the tips.                                           *)
CommitDelete(p) ==
    LET r == req[p]
    IN  /\ r.pc = "refund" /\ r.todo = {}
        /\ bal' = Committed(p)
        /\ post' = [post EXCEPT ![r.post] = "gone"]
        /\ tip' = [t \in TipIds |-> IF tip[t].state = "paid" /\ tip[t].post = r.post
                                    THEN Settled(r, t) ELSE tip[t]]
        /\ Done(p)
        /\ UNCHANGED <<fees, spent, client, spends, tipsFaults>>

----------------------------------------------------------------------------
(* Another payment of the user, in a transaction of its own.               *)
Spend(u, a) ==
    /\ spends < MaxSpends /\ a \in client.amounts
    /\ \A q \in TipHandlers : u \notin req[q].locks
    /\ bal[u] >= a
    /\ bal' = [bal EXCEPT ![u] = @ - a]
    /\ spent' = [spent EXCEPT ![u] = @ + a]
    /\ spends' = spends + 1
    /\ UNCHANGED <<post, tip, fees, req, client, tipsFaults>>

(* The wallet whose lock p waits for.                                      *)
Wanted(p) ==
    LET r == req[p]
    IN  CASE r.pc = "charge" -> r.user
          [] r.pc \in {"credit", "debit"} -> Author(r.post)
          [] r.pc = "repay" -> tip[r.tip].giver
          [] OTHER -> Absent

(* The deadlock detector.  Mutant: there is none.                          *)
NeverStuck(p) == FALSE
Stuck(p) ==
    \E S \in SUBSET TipHandlers :
        /\ p \in S
        /\ \A q \in S : \E o \in S \ {q} : Wanted(q) \in req[o].locks

DetectDeadlock(p) ==
    /\ Stuck(p)
    /\ Done(p)
    /\ UNCHANGED <<ledger, client, spends, tipsFaults>>

(* The connection or the process is lost, and the transaction with it.     *)
LoseConnection(p) ==
    /\ req[p].pc # "idle" /\ tipsFaults < MaxTipFaults
    /\ Done(p)
    /\ tipsFaults' = tipsFaults + 1
    /\ UNCHANGED <<ledger, client, spends>>

Step(p) ==
    \/ LockPost(p) \/ ChargeTipper(p) \/ CreditAuthor(p) \/ CommitTip(p)
    \/ \E t \in TipIds : ReadAuthorBalance(p, t)
    \/ DebitAuthor(p) \/ RepayGiver(p) \/ CommitDelete(p)
    \/ DetectDeadlock(p)

Ask(p, u) ==
    \E x \in Posts :
        \/ AskDelete(p, u, x)
        \/ \E a \in TipAmounts, t \in TipIds : AskTip(p, u, x, a, t)

TipsNext ==
    \/ \E p \in TipHandlers : Step(p) \/ LoseConnection(p)
    \/ \E p \in TipHandlers, u \in TipUsers : u \in client.users /\ Ask(p, u)
    \/ \E u \in TipUsers, a \in TipAmounts : Spend(u, a)

TipsSpec == TipsInit /\ [][TipsNext]_tipsVars

(* A handler that has begun goes on, and one that waits for a lock has it  *)
(* in the end, for PostgreSQL serves the waiters of a row in turn; the     *)
(* detector looks at everyone who has waited for a second.                 *)
TipsFairSpec == TipsSpec /\ \A p \in TipHandlers : SF_tipsVars(Step(p))

----------------------------------------------------------------------------
Tipped == {t \in TipIds : tip[t].state # "none"}
GivenBy(u) == {t \in Tipped : tip[t].giver = u}
EarnedBy(u) == {t \in Tipped : Author(tip[t].post) = u}
PaidFor == [t \in TipIds |-> tip[t].amount]
PaidBack == [t \in TipIds |-> tip[t].back]
Earned == [t \in TipIds |-> NetOf(t)]

(* Every cent of a wallet is accounted for by the tips its owner gave and  *)
(* got, by what was paid back and by other payments: no tip is recorded    *)
(* without its two payments, nor paid without its row (Tip, 57-85), and no *)
(* refund is booked on one side only (RefundForPostTx, 136-158).           *)
LedgerStands ==
    \A u \in TipUsers :
        bal[u] + SumFunctionOnSet(PaidFor, GivenBy(u)) + SumFunctionOnSet(PaidBack, EarnedBy(u)) + spent[u]
          = Start[u] + SumFunctionOnSet(Earned, EarnedBy(u)) + SumFunctionOnSet(PaidBack, GivenBy(u))

(* The platform keeps its share of every tip and nothing else.             *)
FeesStand ==
    fees + SumFunctionOnSet(Earned, Tipped) = SumFunctionOnSet(PaidFor, Tipped)

(* The cascade of a deleted post takes no tip that its deletion has not    *)
(* looked at: that is what both transactions lock the row for.             *)
NoneDropped == \A t \in TipIds : tip[t].state # "dropped"

(* A tip is given back at most once and never beyond what the author got.  *)
RefundBounded ==
    \A t \in TipIds :
        /\ tip[t].back <= NetOf(t)
        /\ tip[t].back > 0 => tip[t].state = "refunded"

(* An author who has spent nothing gives everything back: a refund is only *)
(* cut short for want of money.                                            *)
FullUnlessSpent ==
    \A t \in TipIds :
        (/\ tip[t].state \in {"refunded", "kept"}
         /\ spent[Author(tip[t].post)] = 0
         /\ GivenBy(Author(tip[t].post)) = {})
        => tip[t].back = NetOf(t)

(* Two transactions hold neither the same post nor the same wallet.        *)
LocksHeld ==
    \A p, q \in TipHandlers :
        p # q => /\ req[p].locks \cap req[q].locks = {}
                 /\ \A x \in Posts : ~(HoldsPost(p, x) /\ HoldsPost(q, x))

(* The ledger, the refunds and the locks of tips, together.                *)
TipInv ==
    /\ LedgerStands /\ FeesStand /\ NoneDropped /\ RefundBounded /\ FullUnlessSpent /\ LocksHeld

(* Every tip and every deletion is answered, although two of them may wait *)
(* for each other's wallet: a user who tips a post of another's while that *)
(* other tips one of theirs.                                               *)
RequestsEnd == \A p \in TipHandlers : req[p].pc # "idle" ~> req[p].pc = "idle"
=============================================================================
