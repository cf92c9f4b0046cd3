----------------------------- MODULE Transfers -----------------------------
(***************************************************************************)
(* User-to-user transfers (pkg/repository/transfer.go, wallet.go) as the   *)
(* statements of concurrent PostgreSQL transactions.                       *)
(*                                                                         *)
(* Request handlers and the refund sweeper each run one transaction at a   *)
(* time.  SELECT ... FOR UPDATE is a step of its own: it waits while       *)
(* another transaction holds the row, and what it reads is what the        *)
(* transaction later acts on.  Writes become visible, and locks are        *)
(* released, at COMMIT; a failed statement, a refusal or a dead process    *)
(* rolls everything back.                                                  *)
(***************************************************************************)
EXTENDS Integers, FiniteSets

CONSTANTS
    Users, Ids, Amounts, Grants, InitBalance, MaxBalance,  \* as in Escrow
    Handlers,   \* concurrent requests
    Sweeper,    \* the goroutine of startTransferSweeper
    Doomed,     \* users whose row is deleted (purged accounts, deleted bots)
    MaxFaults,  \* bound: statements that fail
    None        \* no user, no row, no lock holder

ASSUME TransfersAssumption ==
    /\ IsFiniteSet(Users) /\ IsFiniteSet(Ids)
    /\ Amounts \subseteq Nat \ {0}
    /\ Grants \subseteq Int
    /\ InitBalance \in Nat
    /\ MaxBalance \in Nat
    /\ None \notin Users \cup Ids \cup Handlers \cup {Sweeper}
    /\ Sweeper \notin Handlers
    /\ MaxFaults \in Nat

Procs == Handlers \cup {Sweeper}

VARIABLES
    users,       \* rows of users
    balance,     \* wallets.balance, committed
    transfer,    \* rows of transfers, committed
    overdue,     \* pending rows created more than transferSettleTTL ago
    rowLock,     \* transaction holding each transfers row
    walletLock,  \* transaction holding each wallets row
    tx,          \* the transaction each process is running
    candidates,  \* ids the running sweep has still to settle
    faults       \* statements that have failed

vars == <<users, balance, transfer, overdue, rowLock, walletLock, tx, candidates, faults>>

Outcome == {"accepted", "declined", "refunded"}

Row == [status : {"none", "pending", "erased"} \cup Outcome,
        from : Users \cup {None}, to : Users \cup {None}, amount : Nat]

NoRow == [status |-> "none", from |-> None, to |-> None, amount |-> 0]

(* pc "row": about to lock the transfers row; "wallet": about to lock the  *)
(* wallet; "commit": every write computed, newBalance to be stored.        *)
Tx == [pc : {"idle", "row", "wallet", "commit"},
       op : {"adjust", "create"} \cup Outcome,
       caller : Users \cup {None},
       id : Ids \cup {None},
       wallet : Users \cup {None},
       peer : Users \cup {None},
       delta : Int,
       newBalance : Nat]

NewTx(pc, op, caller, id, wallet, peer, delta) ==
    [pc |-> pc, op |-> op, caller |-> caller, id |-> id, wallet |-> wallet,
     peer |-> peer, delta |-> delta, newBalance |-> 0]

NoTx == NewTx("idle", "adjust", None, None, None, None, 0)

TypeOK ==
    /\ users \subseteq Users
    /\ balance \in [Users -> Nat]
    /\ transfer \in [Ids -> Row]
    /\ overdue \subseteq Ids
    /\ rowLock \in [Ids -> Procs \cup {None}]
    /\ walletLock \in [Users -> Procs \cup {None}]
    /\ tx \in [Procs -> Tx]
    /\ candidates \subseteq Ids
    /\ faults \in Nat

Init ==
    /\ users = Users
    /\ balance = [u \in Users |-> InitBalance]
    /\ transfer = [i \in Ids |-> NoRow]
    /\ overdue = {}
    /\ rowLock = [i \in Ids |-> None]
    /\ walletLock = [u \in Users |-> None]
    /\ tx = [p \in Procs |-> NoTx]
    /\ candidates = {}
    /\ faults = 0

----------------------------------------------------------------------------
(* The request arrives; its transaction has begun and locked nothing.      *)
Begin(p, t) ==
    /\ tx[p].pc = "idle"
    /\ tx' = [tx EXCEPT ![p] = t]
    /\ UNCHANGED <<users, balance, transfer, overdue, rowLock, walletLock, candidates, faults>>

(* AdjustBalance: an operator recharges or deducts d.                      *)
BeginAdjust(p, u, d) ==
    Begin(p, NewTx("wallet", "adjust", None, None, u, None, d))

(* CreateTransfer: the recipient must exist when the handler looks, amount *)
(* and parties are checked before the transaction begins.                  *)
BeginCreate(p, s, r, a) ==
    /\ r \in users /\ s # r
    /\ Begin(p, NewTx("wallet", "create", s, None, s, r, -a))

(* AcceptTransfer and DeclineTransfer: any user names any id.              *)
BeginDecide(p, op, u, i) ==
    Begin(p, NewTx("row", op, u, i, None, None, 0))

(* Mutant: the query compares created_at the wrong way round.              *)
SweepScanEarly ==
    /\ tx[Sweeper].pc = "idle" /\ candidates = {}
    /\ candidates' = {i \in Ids \ overdue : transfer[i].status = "pending"}
    /\ UNCHANGED <<users, balance, transfer, overdue, rowLock, walletLock, tx, faults>>

(* RefundExpired reads the overdue ids without locking them...             *)
SweepScan ==
    /\ tx[Sweeper].pc = "idle" /\ candidates = {}
    /\ candidates' = {i \in overdue : transfer[i].status = "pending"}
    /\ UNCHANGED <<users, balance, transfer, overdue, rowLock, walletLock, tx, faults>>

(* ... and settles each in a transaction of its own.                       *)
BeginRefund(i) ==
    /\ i \in candidates
    /\ Begin(Sweeper, NewTx("row", "refunded", None, i, None, None, 0))

(* COMMIT and ROLLBACK release every lock.  The sweep goes on to the next  *)
(* candidate either way.                                                   *)
End(p) ==
    /\ rowLock' = [i \in Ids |-> IF rowLock[i] = p THEN None ELSE rowLock[i]]
    /\ walletLock' = [u \in Users |-> IF walletLock[u] = p THEN None ELSE walletLock[u]]
    /\ tx' = [tx EXCEPT ![p] = NoTx]
    /\ candidates' = IF p = Sweeper THEN candidates \ {tx[p].id} ELSE candidates

Rollback(p) ==
    /\ End(p)
    /\ UNCHANGED <<users, balance, transfer, overdue>>

(* Mutant: the status is not looked at.                                    *)
MaySettleAgain(t, row) ==
    /\ row.from \in users
    /\ t.op \in {"accepted", "declined"} => row.to = t.caller

(* What lockTransferTx's caller checks in the row it locked.               *)
MaySettle(t, row) ==
    /\ row.status = "pending"
    /\ t.op \in {"accepted", "declined"} => row.to = t.caller

(* Whose wallet a settlement credits.                                      *)
Credited(t, row) == IF t.op = "accepted" THEN row.to ELSE row.from

(* SELECT ... FROM transfers WHERE id = $1 FOR UPDATE, and the checks on   *)
(* what it returned.                                                       *)
LockRow(p) ==
    LET t == tx[p]
        row == transfer[t.id]
    IN  /\ t.pc = "row"
        /\ rowLock[t.id] = None
        /\ \/ /\ ~MaySettle(t, row)
              /\ Rollback(p)
           \/ /\ MaySettle(t, row)
              /\ rowLock' = [rowLock EXCEPT ![t.id] = p]
              /\ tx' = [tx EXCEPT ![p].pc = "wallet", ![p].wallet = Credited(t, row),
                                  ![p].delta = row.amount]
              /\ UNCHANGED <<users, balance, transfer, overdue, walletLock, candidates>>
        /\ UNCHANGED faults

(* Mutant: an overdraft is possible.                                       *)
CoversAny(t) == t.wallet \in users

(* The new balance must not be negative; an operator's grant is bounded.   *)
Covers(t) ==
    /\ t.wallet \in users
    /\ balance[t.wallet] + t.delta >= 0
    /\ t.op = "adjust" => balance[t.wallet] + t.delta <= MaxBalance

(* Mutant: SELECT balance without FOR UPDATE.                              *)
ReadWallet(p) ==
    LET t == tx[p]
    IN  /\ t.pc = "wallet"
        /\ \/ ~Covers(t) /\ Rollback(p)
           \/ /\ Covers(t)
              /\ walletLock' = [walletLock EXCEPT ![t.wallet] = p]
              /\ tx' = [tx EXCEPT ![p].pc = "commit",
                                  ![p].newBalance = balance[t.wallet] + t.delta]
              /\ UNCHANGED <<users, balance, transfer, overdue, rowLock, candidates>>
        /\ UNCHANGED faults

(* SELECT balance ... FOR UPDATE: the balance read here is the one the     *)
(* UPDATE will replace by newBalance.                                      *)
LockWallet(p) ==
    LET t == tx[p]
    IN  /\ t.pc = "wallet"
        /\ walletLock[t.wallet] = None
        /\ \/ /\ ~Covers(t)
              /\ Rollback(p)
           \/ /\ Covers(t)
              /\ walletLock' = [walletLock EXCEPT ![t.wallet] = p]
              /\ tx' = [tx EXCEPT ![p].pc = "commit",
                                  ![p].newBalance = balance[t.wallet] + t.delta]
              /\ UNCHANGED <<users, balance, transfer, overdue, rowLock, candidates>>
        /\ UNCHANGED faults

(* The rows a transaction leaves behind: a fresh pending row, or the new   *)
(* status of the row it locked.                                            *)
CommitCreate(p) ==
    LET t == tx[p]
    IN  /\ t.op = "create" /\ t.peer \in users
        /\ \E i \in Ids :
             /\ transfer[i].status = "none"
             /\ transfer' = [transfer EXCEPT ![i] =
                   [status |-> "pending", from |-> t.caller, to |-> t.peer, amount |-> -t.delta]]

CommitSettle(p) ==
    LET t == tx[p]
    IN  /\ t.op \in Outcome
        /\ transfer' = [transfer EXCEPT ![t.id].status = t.op]

Commit(p) ==
    LET t == tx[p]
    IN  /\ t.pc = "commit"
        /\ \/ CommitCreate(p)
           \/ CommitSettle(p)
           \/ t.op = "adjust" /\ UNCHANGED transfer
        /\ balance' = [balance EXCEPT ![t.wallet] = t.newBalance]
        /\ End(p)
        /\ UNCHANGED <<users, overdue, faults>>

(* The insert violates a foreign key (the recipient was purged meanwhile); *)
(* also taken when the model has no row id left.                           *)
CommitRefused(p) ==
    /\ tx[p].pc = "commit" /\ tx[p].op = "create"
    /\ tx[p].peer \notin users \/ \A i \in Ids : transfer[i].status # "none"
    /\ Rollback(p)
    /\ UNCHANGED faults

----------------------------------------------------------------------------
(* A statement fails: the handler answers an error, the sweeper continues. *)
Fault(p) ==
    /\ tx[p].pc # "idle" /\ faults < MaxFaults
    /\ Rollback(p)
    /\ faults' = faults + 1

(* Begin fails in the middle of a sweep: the rest waits for the next tick. *)
BeginFails ==
    /\ tx[Sweeper].pc = "idle" /\ candidates # {} /\ faults < MaxFaults
    /\ candidates' = {}
    /\ faults' = faults + 1
    /\ UNCHANGED <<users, balance, transfer, overdue, rowLock, walletLock, tx>>

(* The account service dies: the database rolls every transaction back.    *)
Crash ==
    /\ faults < MaxFaults
    /\ faults' = faults + 1
    /\ rowLock' = [i \in Ids |-> None]
    /\ walletLock' = [u \in Users |-> None]
    /\ tx' = [p \in Procs |-> NoTx]
    /\ candidates' = {}
    /\ UNCHANGED <<users, balance, transfer, overdue>>

(* 24 hours pass over a pending transfer.                                  *)
Expire(i) ==
    /\ transfer[i].status = "pending" /\ i \notin overdue
    /\ overdue' = overdue \cup {i}
    /\ UNCHANGED <<users, balance, transfer, rowLock, walletLock, tx, candidates, faults>>

Involves(i, u) == u \in {transfer[i].from, transfer[i].to}

(* DELETE FROM users by PurgeUserData or DeleteBot: the cascade removes    *)
(* the wallet and every transfer of the user, and waits for the locks on   *)
(* those rows.                                                             *)
PurgeUser(u) ==
    /\ u \in users \cap Doomed
    /\ walletLock[u] = None
    /\ \A i \in Ids : Involves(i, u) => rowLock[i] = None
    /\ users' = users \ {u}
    /\ balance' = [balance EXCEPT ![u] = 0]
    /\ transfer' = [i \in Ids |-> IF Involves(i, u)
                                  THEN [transfer[i] EXCEPT !.status = "erased"]
                                  ELSE transfer[i]]
    /\ UNCHANGED <<overdue, rowLock, walletLock, tx, candidates, faults>>

----------------------------------------------------------------------------
Arrive(p) ==
    \/ \E u \in Users, d \in Grants : BeginAdjust(p, u, d)
    \/ \E s, r \in Users, a \in Amounts : BeginCreate(p, s, r, a)
    \/ \E u \in Users, i \in Ids, op \in {"accepted", "declined"} : BeginDecide(p, op, u, i)

Proceed(p) == LockRow(p) \/ LockWallet(p) \/ Commit(p) \/ CommitRefused(p)

Sweep == SweepScan \/ \E i \in Ids : BeginRefund(i)

Next ==
    \/ \E p \in Handlers : Arrive(p)
    \/ \E p \in Procs : Proceed(p)
    \/ Sweep
    \/ \E p \in Procs : Fault(p)
    \/ BeginFails
    \/ Crash
    \/ \E i \in Ids : Expire(i)
    \/ \E u \in Users : PurgeUser(u)

Spec == Init /\ [][Next]_vars

(* Clients and the passage of time are not fair.  A transaction that runs  *)
(* goes on; the sweeper's ticker fires again; PostgreSQL queues the        *)
(* waiters of a row lock, so a waiter is not overtaken for ever.           *)
Fairness ==
    /\ \A p \in Procs :
         /\ SF_vars(LockRow(p) \/ LockWallet(p))
         /\ WF_vars(Commit(p) \/ CommitRefused(p))
    /\ WF_vars(Sweep)

FairSpec == Spec /\ Fairness

----------------------------------------------------------------------------
(* A transaction owns every row it is about to write: the wallet once its  *)
(* balance was read, the transfers row once its status was read.           *)
OwnsRow(p) == tx[p].op \in Outcome /\ tx[p].pc \in {"wallet", "commit"}
OwnsWallet(p) == tx[p].pc = "commit"

Ownership ==
    /\ \A p \in Procs, i \in Ids : rowLock[i] = p <=> OwnsRow(p) /\ tx[p].id = i
    /\ \A p \in Procs, u \in Users : walletLock[u] = p <=> OwnsWallet(p) /\ tx[p].wallet = u

(* What a transaction read is still so when it commits: the status and the *)
(* amount of the row, the balance newBalance was computed from.  This is   *)
(* what makes UPDATE wallets SET balance = newBalance safe under READ      *)
(* COMMITTED (adjustBalanceTx, lockTransferTx).                            *)
NothingStale ==
    \A p \in Procs :
      /\ OwnsRow(p) =>
           LET row == transfer[tx[p].id]
           IN  /\ MaySettle(tx[p], row)
               /\ tx[p].delta = row.amount
               /\ tx[p].wallet = Credited(tx[p], row)
      /\ OwnsWallet(p) =>
           /\ tx[p].wallet \in users
           /\ tx[p].newBalance = balance[tx[p].wallet] + tx[p].delta

(* What a transaction is about fits its statement, and never changes after *)
(* it began.                                                               *)
WellFormed ==
    \A p \in Procs :
      LET t == tx[p]
      IN  /\ t.pc = "row" => t.op \in Outcome
          /\ t.pc # "idle" /\ t.op \in Outcome => t.id \in Ids
          /\ t.pc # "idle" /\ t.op = "adjust" => t.delta \in Grants
          /\ t.pc # "idle" /\ t.op = "create" =>
               /\ -t.delta \in Amounts
               /\ {t.caller, t.peer} \subseteq Users /\ t.caller # t.peer
               /\ t.wallet = t.caller
          /\ t.pc = "commit" /\ t.op = "adjust" => t.newBalance <= MaxBalance

LockInv == Ownership /\ NothingStale /\ WellFormed

(* The interleaved transactions do what the atomic ones of Escrow.tla do.  *)
Atomic == INSTANCE Escrow WITH NoUser <- None

ImplementsEscrow == Atomic!Spec

(* However the transactions interleave, die or lose their user, no coin is *)
(* made or lost: lockTransferTx and adjustBalanceTx move a held amount once *)
(* and together with the status that says so.                              *)
MoneyConserved == Atomic!MoneyConserved

(* A transfer left unanswered is eventually decided: the sweeper gets to   *)
(* it whatever the handlers do (RefundExpired).                            *)
OverdueDecided ==
    \A i \in Ids : i \in overdue ~> transfer[i].status \in Outcome \cup {"erased"}
=============================================================================
