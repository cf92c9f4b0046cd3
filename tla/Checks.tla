------------------------------- MODULE Checks -------------------------------
(***************************************************************************)
(* Checks, the red packets of pkg/repository/check.go: money escrowed by   *)
(* Create, paid out share by share by Claim, the rest refunded on expiry   *)
(* by whoever comes first: a claim, a read or the sweeper.                 *)
(*                                                                         *)
(* A claim is several steps on two connections of the account service's    *)
(* pool: its transaction takes one connection and the check's row lock,    *)
(* checkContextVisible finds on another connection what the check travels  *)
(* with and then who may see that, and the transaction reads what was      *)
(* claimed so far and pays on the strength of it all.  Members come and go *)
(* and posts are shown and hidden at any time meanwhile.  The credit of    *)
(* the wallet is one step with COMMIT: Transfers.tla shows that the lock   *)
(* on the wallet row makes it so.                                          *)
(***************************************************************************)
EXTENDS Integers, FiniteSets, Functions

CONSTANTS
    Users, Ids,
    Settings,      \* bound: who there is, what wallets hold, whose row may be
                   \* deleted (purged accounts, deleted bots), who is a member
                   \* of the conversation at first, who may come to and go from
                   \* it and the audience of a post, how checks are shared, and
                   \* the totals in cents and shares of a check
    Handlers,      \* concurrent requests of the account service
    Sweeper,       \* the goroutine of startCheckSweeper
    MaxOpenConns,  \* database.max_open_conns of the account service
    MaxFaults,     \* bound: statements that fail, crashes
    None

ASSUME ChecksAssumption ==
    /\ IsFiniteSet(Users) /\ IsFiniteSet(Ids)
    /\ Settings \subseteq [users : SUBSET Users, fund : [Users -> Nat],
                      doomed : SUBSET Users, members : SUBSET Users, movers : SUBSET Users,
                      ways : SUBSET {"post", "message"},
                      deals : SUBSET ((Nat \ {0}) \X (Nat \ {0}))]
    /\ Sweeper \notin Handlers
    /\ None \notin Users \cup Ids \cup Handlers \cup {Sweeper}
    /\ MaxOpenConns \in Nat \ {0} /\ MaxFaults \in Nat

Procs == Handlers \cup {Sweeper}

VARIABLES
    users,       \* rows of users
    balance,     \* wallets.balance
    check,       \* rows of checks
    claims,      \* check_claims.amount by check and user, 0 when there is no row
    expired,     \* checks whose expires_at has passed
    sent,        \* checks carried by a live message
    sending,     \* sends of the chat service past ValidateOwnedActive
    members,     \* of the conversation checks are sent to
    audience,    \* who may view the post a check is attached to
    barred,      \* history: processes whose caller has lost sight of the check
                 \* since they found what it travels with
    rowLock,     \* transaction holding each checks row
    tx,          \* what each process is doing; not idle = holds a connection
    candidates,  \* ids the running sweep has still to settle
    paid,        \* history: what wallets have been credited from each check
    faults,      \* statements that have failed
    setting      \* of this behaviour

reach == <<members, audience>>
vars == <<users, balance, check, claims, expired, sent, sending, reach, barred, rowLock, tx,
          candidates, paid, faults, setting>>

Modes == {"random", "average"}

Check == [status : {"none", "active", "settled", "refunded", "erased"},
          creator : Users \cup {None}, total : Nat, shares : Nat,
          mode : Modes, posted : BOOLEAN]

NewCheck(status, creator, total, shares, mode) ==
    [status |-> status, creator |-> creator, total |-> total, shares |-> shares,
     mode |-> mode, posted |-> FALSE]

NoCheck == NewCheck("none", None, 0, 0, "random")

Carriers == {"none", "message", "post"}

(* pc "lock": about to lock the checks row; "carrier": about to read, on a *)
(* second connection, what the check travels with; "reach": about to read  *)
(* there whether the caller sees that; "count": about to read count and    *)
(* sum of its claims; "pay": the rest up to COMMIT.                        *)
Tx == [pc : {"idle", "lock", "carrier", "reach", "count", "pay"}, op : {"claim", "refund"},
       caller : Users \cup {None}, id : Ids \cup {None}, via : Carriers,
       count : Nat, sum : Nat]

NewTx(pc, op, u, i) ==
    [pc |-> pc, op |-> op, caller |-> u, id |-> i, via |-> "none", count |-> 0, sum |-> 0]

NoTx == NewTx("idle", "refund", None, None)

TypeOK ==
    /\ users \subseteq Users
    /\ balance \in [Users -> Nat]
    /\ check \in [Ids -> Check]
    /\ claims \in [Ids -> [Users -> Nat]]
    /\ expired \subseteq Ids /\ sent \subseteq Ids
    /\ sending \subseteq Users \X Ids
    /\ members \subseteq Users /\ audience \in [Ids -> SUBSET Users]
    /\ rowLock \in [Ids -> Procs \cup {None}]
    /\ tx \in [Procs -> Tx]
    /\ candidates \subseteq Ids /\ barred \subseteq Procs
    /\ paid \in [Ids -> Nat]
    /\ faults \in Nat
    /\ setting \in Settings

Init ==
    /\ setting \in Settings
    /\ users = setting.users
    /\ balance = setting.fund
    /\ check = [i \in Ids |-> NoCheck]
    /\ claims = [i \in Ids |-> [u \in Users |-> 0]]
    /\ expired = {} /\ sent = {} /\ sending = {}
    /\ members = setting.members /\ barred = {}
    /\ audience = [i \in Ids |-> setting.users]
    /\ rowLock = [i \in Ids |-> None]
    /\ tx = [p \in Procs |-> NoTx]
    /\ candidates = {}
    /\ paid = [i \in Ids |-> 0]
    /\ faults = 0

rows == <<users, balance, check, claims, expired, sent, reach, paid, setting>>

----------------------------------------------------------------------------
FreeConn == Cardinality({p \in Procs : tx[p].pc # "idle"}) < MaxOpenConns

Claimants(i) == {u \in Users : claims[i][u] > 0}

Claimed(i) == SumFunction(claims[i])

(* What an UPDATE, a DELETE, FOR UPDATE or the foreign key of a message    *)
(* waits for.  Mutant: nobody locks.                                       *)
NoLock(i) == TRUE
RowFree(i) == rowLock[i] = None

Claimable(i) == check[i].status = "active" /\ i \notin expired

(* Mutant: the debit is not checked against the balance.                   *)
AnyBalance(u, total) == u \in users
Covers(u, total) == total <= balance[u]

(* Create: debit and insert in one transaction; the wallet covers it all.  *)
Create(i, u, total, shares, mode) ==
    /\ FreeConn
    /\ u \in users /\ check[i].status = "none"
    /\ Covers(u, total)
    /\ balance' = [balance EXCEPT ![u] = @ - total]
    /\ check' = [check EXCEPT ![i] = NewCheck("active", u, total, shares, mode)]
    /\ UNCHANGED <<users, claims, expired, sent, sending, reach, barred, rowLock, tx,
                   candidates, paid, faults, setting>>

(* AttachToPost, called by the creation of a post: one conditional UPDATE. *)
AttachToPost(i) ==
    /\ "post" \in setting.ways
    /\ RowFree(i)
    /\ Claimable(i) /\ ~check[i].posted
    /\ check' = [check EXCEPT ![i].posted = TRUE]
    /\ UNCHANGED <<users, balance, claims, expired, sent, sending, reach, barred, rowLock,
                   tx, candidates, paid, faults, setting>>

(* Sending a message that carries the check: ValidateOwnedActive reads it, *)
(* several reads later the message is inserted.  Its foreign key waits for *)
(* a transaction that holds the checks row.                                *)
ValidateOwnedActive(u, i) ==
    /\ "message" \in setting.ways
    /\ check[i].creator = u /\ Claimable(i)
    /\ u \in members
    /\ sending' = sending \cup {<<u, i>>}
    /\ UNCHANGED <<rows, barred, rowLock, tx, candidates, faults>>

(* Mutant: Claim locks FOR NO KEY UPDATE, which lets the message in.       *)
InsertUnlocked(u, i) ==
    /\ <<u, i>> \in sending
    /\ sending' = sending \ {<<u, i>>}
    /\ sent' = IF check[i].status = "erased" THEN sent ELSE sent \cup {i}
    /\ UNCHANGED <<users, balance, check, claims, expired, reach, barred, rowLock, tx,
                   candidates, paid, faults, setting>>

InsertMessage(u, i) ==
    /\ <<u, i>> \in sending
    /\ RowFree(i)
    /\ sending' = sending \ {<<u, i>>}
    /\ sent' = IF check[i].status = "erased" THEN sent ELSE sent \cup {i}
    /\ UNCHANGED <<users, balance, check, claims, expired, reach, barred, rowLock, tx,
                   candidates, paid, faults, setting>>

(* Who of those claims the check and has found what it travels with.       *)
Claimers(us, i) ==
    {p \in Procs : /\ tx[p].op = "claim" /\ tx[p].pc \in {"reach", "count", "pay"}
                   /\ tx[p].id = i /\ tx[p].caller \in us}

(* The check is left to the post it may be attached to as well.            *)
DeleteMessage(i) ==
    /\ i \in sent
    /\ sent' = sent \ {i}
    /\ barred' = barred \cup Claimers(Users, i)
    /\ UNCHANGED <<users, balance, check, claims, expired, sending, members, audience, rowLock,
                   tx, candidates, paid, faults, setting>>

----------------------------------------------------------------------------
(* What a check travels with: the message that carries it, else the post   *)
(* it is attached to, else nothing.                                        *)
Carrier(i) == IF i \in sent THEN "message" ELSE IF check[i].posted THEN "post" ELSE "none"

Admits(via, u, i) ==
    /\ via = "message" => u \in members
    /\ via = "post" => u \in audience[i]

(* checkContextVisible, both reads at one moment.                          *)
Visible(u, i) ==
    /\ check[i].status \notin {"none", "erased"}
    /\ Admits(Carrier(i), u, i)

(* Members join, leave and are removed; and the audience of a post is      *)
(* another one when it is edited or deleted, or when its author follows or *)
(* drops somebody (canViewPost asks for both).                             *)
EnterConversation(u) ==
    /\ u \in (users \cap setting.movers) \ members
    /\ members' = members \cup {u}
    /\ UNCHANGED <<users, balance, check, claims, expired, sent, sending, audience, barred,
                   rowLock, tx, candidates, paid, faults, setting>>

LeaveConversation(u) ==
    /\ u \in members \cap setting.movers
    /\ members' = members \ {u}
    /\ barred' = barred \cup UNION {Claimers({u}, i) : i \in sent}
    /\ UNCHANGED <<users, balance, check, claims, expired, sent, sending, audience, rowLock, tx,
                   candidates, paid, faults, setting>>

ChangeAudience(i, viewers) ==
    /\ check[i].posted /\ viewers # audience[i]
    /\ audience' = [audience EXCEPT ![i] = viewers]
    /\ barred' = IF Carrier(i) = "post" THEN barred \cup Claimers(Users \ viewers, i) ELSE barred
    /\ UNCHANGED <<users, balance, check, claims, expired, sent, sending, members, rowLock, tx,
                   candidates, paid, faults, setting>>

----------------------------------------------------------------------------

(* database.DB.Begin waits for a connection of the pool.                   *)
Begin(p, op, u, i) ==
    /\ tx[p].pc = "idle" /\ FreeConn
    /\ tx' = [tx EXCEPT ![p] = NewTx("lock", op, u, i)]
    /\ UNCHANGED <<rows, sending, barred, rowLock, candidates, faults>>

(* Claim, and the refundIfExpired of GetByID.                              *)
BeginClaim(p, u, i) == u \in users /\ Begin(p, "claim", u, i)

BeginRead(p, u, i) == u \in users /\ Visible(u, i) /\ Begin(p, "refund", u, i)

(* RefundExpired reads the overdue ids, then settles each on its own.      *)
SweepScan ==
    /\ tx[Sweeper].pc = "idle" /\ candidates = {} /\ FreeConn
    /\ candidates' = {i \in expired : check[i].status = "active"}
    /\ UNCHANGED <<rows, sending, barred, rowLock, tx, faults>>

BeginSweep(i) == i \in candidates /\ Begin(Sweeper, "refund", None, i)

(* Mutant: the transaction is left open.                                   *)
EndUnreleased(p) ==
    /\ tx' = [tx EXCEPT ![p] = NoTx]
    /\ candidates' = IF p = Sweeper THEN candidates \ {tx[p].id} ELSE candidates
    /\ barred' = barred \ {p}
    /\ UNCHANGED <<sending, rowLock>>

(* COMMIT and ROLLBACK release the row lock and the connection.            *)
End(p) ==
    /\ rowLock' = [i \in Ids |-> IF rowLock[i] = p THEN None ELSE rowLock[i]]
    /\ tx' = [tx EXCEPT ![p] = NoTx]
    /\ candidates' = IF p = Sweeper THEN candidates \ {tx[p].id} ELSE candidates
    /\ barred' = barred \ {p}
    /\ UNCHANGED sending

Rollback(p) == End(p) /\ UNCHANGED rows

(* SELECT ... FROM checks WHERE id = $1 FOR UPDATE; refundIfExpired then   *)
(* re-validates status and expiry.                                         *)
LockRow(p) ==
    LET t == tx[p]
        found == IF t.op = "refund" THEN check[t.id].status = "active" /\ t.id \in expired
                                    ELSE check[t.id].status \notin {"none", "erased"}
    IN  /\ t.pc = "lock"
        /\ RowFree(t.id)
        /\ \/ ~found /\ Rollback(p)
           \/ /\ found
              /\ rowLock' = [rowLock EXCEPT ![t.id] = p]
              /\ tx' = [tx EXCEPT ![p].pc = IF t.op = "claim" THEN "carrier" ELSE "count"]
              /\ UNCHANGED <<rows, sending, barred, candidates>>
        /\ UNCHANGED faults

(* The context is read with database.DB, not with the transaction: first   *)
(* what carries the check, then whether the caller sees that.              *)
FindCarrier(p) ==
    LET t == tx[p]
        via == Carrier(t.id)
    IN  /\ t.pc = "carrier"
        /\ FreeConn
        /\ tx' = [tx EXCEPT ![p].pc = IF via = "none" THEN "count" ELSE "reach", ![p].via = via]
        /\ UNCHANGED <<rows, sending, barred, rowLock, candidates, faults>>

ReadReach(p) ==
    LET t == tx[p]
    IN  /\ t.pc = "reach"
        /\ FreeConn
        /\ \/ ~Admits(t.via, t.caller, t.id) /\ Rollback(p)
           \/ /\ Admits(t.via, t.caller, t.id)
              /\ tx' = [tx EXCEPT ![p].pc = "count"]
              /\ UNCHANGED <<rows, sending, barred, rowLock, candidates>>
        /\ UNCHANGED faults

(* SELECT the count and the sum of check_claims.                           *)
CountClaims(p) ==
    LET i == tx[p].id
    IN  /\ tx[p].pc = "count"
        /\ tx' = [tx EXCEPT ![p].pc = "pay", ![p].sum = Claimed(i),
                            ![p].count = Cardinality(Claimants(i))]
        /\ UNCHANGED <<rows, sending, barred, rowLock, candidates, faults>>

----------------------------------------------------------------------------
AtLeastOne(n) == IF n < 1 THEN 1 ELSE n

(* The amounts a claim may draw when sum has been claimed in count shares. *)
Draw(c, sum, count) ==
    LET remaining == c.total - sum
        left == c.shares - count
        upper == AtLeastOne(2 * (remaining \div left) - 1)
        maxForSolvent == AtLeastOne(remaining - (left - 1))
    IN  CASE left = 1 -> {remaining}
          [] left # 1 /\ c.mode = "average" -> {c.total \div c.shares}
          [] OTHER -> {IF a > maxForSolvent THEN maxForSolvent ELSE a : a \in 1..upper}

Credit(u, i, amount) ==
    /\ balance' = [balance EXCEPT ![u] = @ + amount]
    /\ paid' = [paid EXCEPT ![i] = @ + amount]

Close(i, status) == check' = [check EXCEPT ![i].status = status]

Remaining(total, sum) == IF total - sum > 0 THEN total - sum ELSE 0

(* Both refunds pay the creator what remains of total, when it is          *)
(* positive, and mark the check refunded.                                  *)
Refund(p, total) ==
    LET i == tx[p].id
    IN  /\ Credit(check[i].creator, i, Remaining(total, tx[p].sum))
        /\ Close(i, "refunded")
        /\ End(p)
        /\ UNCHANGED <<users, claims, expired, sent, reach, faults, setting>>

(* refundIfExpired does not select total: its Check holds Go's zero value. *)
RefundIfExpired(p) ==
    /\ tx[p].pc = "pay" /\ tx[p].op = "refund"
    /\ Refund(p, 0)

ClaimExpired(p) ==
    LET i == tx[p].id
    IN  /\ tx[p].pc = "pay" /\ tx[p].op = "claim"
        /\ check[i].status = "active" /\ i \in expired
        /\ Refund(p, check[i].total)

HasShare(t) ==
    /\ Claimable(t.id)
    /\ t.count < check[t.id].shares
    /\ t.caller \notin Claimants(t.id)

Amounts(t) == Draw(check[t.id], t.sum, t.count)

Payable(t, a) == 1 <= a /\ a <= check[t.id].total - t.sum

ClaimRefused(p) ==
    LET t == tx[p]
    IN  /\ t.pc = "pay" /\ t.op = "claim"
        /\ ~(check[t.id].status = "active" /\ t.id \in expired)
        /\ \/ ~HasShare(t)
           \/ HasShare(t) /\ \E a \in Amounts(t) : ~Payable(t, a)
           \/ t.caller \notin users   \* EnsureWallet's foreign key
        /\ Rollback(p)
        /\ UNCHANGED faults

PayShare(p) ==
    LET t == tx[p]
    IN  /\ t.pc = "pay" /\ t.op = "claim"
        /\ t.caller \in users /\ HasShare(t)
        /\ \E a \in Amounts(t) :
             /\ Payable(t, a)
             /\ Credit(t.caller, t.id, a)
             /\ claims' = [claims EXCEPT ![t.id][t.caller] = a]
        /\ IF t.count + 1 >= check[t.id].shares THEN Close(t.id, "settled") ELSE UNCHANGED check
        /\ End(p)
        /\ UNCHANGED <<users, expired, sent, reach, faults, setting>>

----------------------------------------------------------------------------
Fault(p) ==
    /\ tx[p].pc # "idle" /\ faults < MaxFaults
    /\ Rollback(p)
    /\ faults' = faults + 1

(* The account service dies; the database rolls its transactions back.     *)
Crash ==
    /\ faults < MaxFaults
    /\ faults' = faults + 1
    /\ rowLock' = [i \in Ids |-> None]
    /\ tx' = [p \in Procs |-> NoTx]
    /\ candidates' = {} /\ barred' = {}
    /\ UNCHANGED <<rows, sending>>

Expire(i) ==
    /\ check[i].status = "active" /\ i \notin expired
    /\ expired' = expired \cup {i}
    /\ UNCHANGED <<users, balance, check, claims, sent, sending, reach, barred, rowLock, tx,
                   candidates, paid, faults, setting>>

(* PurgeUserData and DeleteBot: the cascade of DELETE FROM users removes   *)
(* the wallet, the claims, the memberships and the checks of the user, and *)
(* waits for the locks on those checks.                                    *)
PurgeUser(u) ==
    LET own == {i \in Ids : check[i].creator = u}
    IN  /\ u \in users \cap setting.doomed
        /\ \A i \in own : RowFree(i)
        /\ users' = users \ {u}
        /\ balance' = [balance EXCEPT ![u] = 0]
        /\ check' = [i \in Ids |-> IF i \in own THEN NewCheck("erased", None, 0, 0, "random")
                                                ELSE check[i]]
        /\ claims' = [i \in Ids |-> IF i \in own THEN [v \in Users |-> 0]
                                                 ELSE [claims[i] EXCEPT ![u] = 0]]
        /\ paid' = [i \in Ids |-> IF i \in own THEN 0 ELSE paid[i]]
        /\ sent' = sent \ own
        /\ members' = members \ {u}
        /\ audience' = [i \in Ids |-> audience[i] \ {u}]
        /\ barred' = barred \cup UNION {Claimers({u}, i) : i \in Ids}
        /\ UNCHANGED <<expired, sending, rowLock, tx, candidates, faults, setting>>

----------------------------------------------------------------------------
Share ==
    \/ \E i \in Ids, u \in Users, d \in setting.deals, m \in Modes :
         Create(i, u, d[1], d[2], m)
    \/ \E i \in Ids : AttachToPost(i)
    \/ \E u \in Users, i \in Ids : ValidateOwnedActive(u, i) \/ InsertMessage(u, i)
    \/ \E i \in Ids : DeleteMessage(i)

Meanwhile ==
    \/ \E u \in Users : EnterConversation(u) \/ LeaveConversation(u)
    \/ \E i \in Ids, s \in SUBSET setting.movers :
         ChangeAudience(i, (audience[i] \ setting.movers) \cup (s \cap users))

Arrive(p) == \E u \in Users, i \in Ids : BeginClaim(p, u, i) \/ BeginRead(p, u, i)

Proceed(p) ==
    LockRow(p) \/ FindCarrier(p) \/ ReadReach(p) \/ CountClaims(p) \/ RefundIfExpired(p)
      \/ ClaimExpired(p) \/ ClaimRefused(p) \/ PayShare(p)

Sweep == SweepScan \/ \E i \in Ids : BeginSweep(i)

Next ==
    \/ Share
    \/ Meanwhile
    \/ \E p \in Handlers : Arrive(p)
    \/ \E p \in Procs : Proceed(p)
    \/ Sweep
    \/ \E p \in Procs : Fault(p)
    \/ Crash
    \/ \E i \in Ids : Expire(i)
    \/ \E u \in Users : PurgeUser(u)

Spec == Init /\ [][Next]_vars

(* Clients and time are not fair.  Row locks are granted in the order of   *)
(* the waiters, and the pool serves its waiters, so neither is denied for  *)
(* ever to a process that it is offered again and again; the ticker fires. *)
Fairness ==
    /\ \A p \in Procs : SF_vars(Proceed(p))
    /\ WF_vars(Sweep)

FairSpec == Spec /\ Fairness

----------------------------------------------------------------------------
(* The status of a check and its claims agree: an active check has a share *)
(* left and can pay every remaining share at least a cent when it had one  *)
(* for each to begin with; a settled one has paid out exactly its total    *)
(* (Claim's closing UPDATE against its count and sum).                     *)
RowsAgree ==
    \A i \in Ids :
      LET c == check[i]
          left == c.shares - Cardinality(Claimants(i))
      IN  /\ Claimed(i) <= c.total
          /\ c.status = "active" => left > 0
          /\ c.status = "active" /\ c.total >= c.shares => c.total - Claimed(i) >= left
          /\ c.status = "settled" => left = 0 /\ Claimed(i) = c.total

(* A claim of a check that escrowed at least a cent per share can be paid  *)
(* whatever it draws: it is never refused with ErrInvalidCheck (the bounds *)
(* Claim puts on amount).                                                  *)
FundedCheckPays ==
    \A p \in Procs :
      LET t == tx[p]
      IN  t.pc = "pay" /\ t.op = "claim" /\ HasShare(t)
            /\ check[t.id].total >= check[t.id].shares =>
          \A a \in Amounts(t) : Payable(t, a)

(* No interleaving of claims, refunds and faults makes or loses a coin: it *)
(* is in a wallet or was never paid out of its check.                      *)
CoinsAccounted ==
    SumFunction(balance) + SumFunction([i \in Ids |-> check[i].total - paid[i]])
      = SumFunction(setting.fund)

(* A check never pays out more than it escrowed: "a divisible amount of    *)
(* money escrowed from the creator's wallet" (docs/checks.md).             *)
NeverOverpaid == \A i \in Ids : paid[i] <= check[i].total

(* The first three as long as no user is purged, whose claims go with the  *)
(* row while what they were paid is gone.                                  *)
CheckInv ==
    /\ users = setting.users => RowsAgree /\ CoinsAccounted /\ NeverOverpaid
    /\ FundedCheckPays

(* A closed check is never touched again: no late claim, no second refund  *)
(* (the re-validation under the row lock in Claim and refundIfExpired).    *)
(* And a share goes to somebody who sees the check at that moment, or has  *)
(* lost sight of it since the claim found what it travels with: by leaving *)
(* the conversation, by a change of the post's audience, or because the    *)
(* message was deleted.  No sharing can come in between and shut out the   *)
(* caller, since attaching and sending wait for the row.                   *)
PaidInTime ==
    [][\A i \in Ids :
         /\ check[i].status \in {"settled", "refunded"} =>
              check'[i].status \in {check[i].status, "erased"} /\ paid'[i] <= paid[i]
         /\ \A u \in Users :
              claims'[i][u] > claims[i][u] =>
                Visible(u, i) \/ \E p \in barred : tx[p].caller = u /\ tx[p].id = i]_vars

(* Every request that was started is answered, though a claim waits for a  *)
(* row lock and for a second connection; and an expired check does not     *)
(* stay open: the sweeper or a caller closes it.                           *)
AnsweredAndClosed ==
    /\ \A p \in Handlers : tx[p].pc # "idle" ~> tx[p].pc = "idle"
    /\ \A i \in Ids : i \in expired ~> check[i].status # "active"
=============================================================================
