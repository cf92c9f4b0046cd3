------------------------- MODULE TransfersTipsProofs -------------------------
(* Proofs about Transfers, and then about Tips: two components that share no *)
(* variable and no definition, only the sets that their constants name. No   *)
(* proof of the one cites an assumption of the other.                        *)
EXTENDS Transfers, Tips, SumLemmas

(***************************************************************************)
(* Proofs about Transfers, for any users, rows, amounts and handlers.      *)
(*                                                                         *)
(*   TypeCorrect      Spec => []TypeOK                                     *)
(*   LocksProtect     Spec => []LockInv                                    *)
(*   EscrowRefined    Spec => Escrow's Spec                                *)
(*   MoneyKept        Spec => MoneyConserved                               *)
(*                                                                         *)
(* TypeOK /\ LockInv is the inductive invariant: a transaction that owns a *)
(* row is the only one that can change it, so what it read there is still  *)
(* true when it commits, and its commit is one atomic step of Escrow.      *)
(***************************************************************************)

USE TransfersAssumption DEF Procs

LEMMA TxType ==
  ASSUME NEW pc \in {"idle", "row", "wallet", "commit"},
         NEW op \in {"adjust", "create", "accepted", "declined", "refunded"},
         NEW c \in Users \cup {None}, NEW i \in Ids \cup {None},
         NEW w \in Users \cup {None}, NEW r \in Users \cup {None}, NEW d \in Int
  PROVE  NewTx(pc, op, c, i, w, r, d) \in Tx
  BY DEF NewTx, Tx, Outcome

LEMMA NoTxType == NoTx \in Tx
  BY TxType DEF NoTx

LEMMA InitType == Init => TypeOK
  BY NoTxType DEF Init, TypeOK, NoRow, Row, Outcome

(* A rollback or commit keeps the bookkeeping well typed.                  *)
LEMMA EndType ==
  ASSUME TypeOK, NEW p \in Procs, End(p)
  PROVE  /\ rowLock' \in [Ids -> Procs \cup {None}]
         /\ walletLock' \in [Users -> Procs \cup {None}]
         /\ tx' \in [Procs -> Tx]
         /\ candidates' \subseteq Ids
  BY NoTxType DEF TypeOK, End

LEMMA RollbackType ==
  ASSUME TypeOK, NEW p \in Procs, Rollback(p), faults' \in Nat
  PROVE  TypeOK'
  BY EndType DEF TypeOK, Rollback

LEMMA BeginType ==
  ASSUME TypeOK, NEW p \in Procs, NEW t \in Tx, Begin(p, t)
  PROVE  TypeOK'
  BY DEF TypeOK, Begin

LEMMA NextType == TypeOK /\ LockInv /\ [Next]_vars => TypeOK'
<1> SUFFICES ASSUME TypeOK, LockInv, [Next]_vars PROVE TypeOK'
  OBVIOUS
<1>1. ASSUME NEW p \in Handlers, Arrive(p) PROVE TypeOK'
  <2>1. ASSUME NEW u \in Users, NEW d \in Grants, BeginAdjust(p, u, d) PROVE TypeOK'
    <3>1. NewTx("wallet", "adjust", None, None, u, None, d) \in Tx  BY TxType
    <3> QED  BY <2>1, <3>1, BeginType DEF BeginAdjust
  <2>2. ASSUME NEW s \in Users, NEW r \in Users, NEW a \in Amounts, BeginCreate(p, s, r, a)
        PROVE  TypeOK'
    <3>1. -a \in Int  OBVIOUS
    <3>2. NewTx("wallet", "create", s, None, s, r, -a) \in Tx  BY <3>1, TxType
    <3> QED  BY <2>2, <3>2, BeginType DEF BeginCreate
  <2>3. ASSUME NEW u \in Users, NEW i \in Ids, NEW op \in {"accepted", "declined"},
               BeginDecide(p, op, u, i)
        PROVE  TypeOK'
    <3>1. NewTx("row", op, u, i, None, None, 0) \in Tx  BY TxType
    <3> QED  BY <2>3, <3>1, BeginType DEF BeginDecide
  <2> QED  BY <1>1, <2>1, <2>2, <2>3 DEF Arrive
<1>2. ASSUME NEW p \in Procs, LockRow(p) PROVE TypeOK'
  <2>1. CASE Rollback(p)
    BY <1>2, <2>1, RollbackType DEF LockRow, TypeOK
  <2>2. CASE ~Rollback(p)
    <3>1. tx[p].id \in Ids  BY <1>2 DEF LockRow, LockInv, WellFormed
    <3>2. /\ Credited(tx[p], transfer[tx[p].id]) \in Users \cup {None}
          /\ transfer[tx[p].id].amount \in Int
      BY <3>1 DEF TypeOK, Row, Credited
    <3> QED  BY <1>2, <2>2, <3>1, <3>2 DEF LockRow, TypeOK, Tx
  <2> QED  BY <2>1, <2>2
<1>3. ASSUME NEW p \in Procs, LockWallet(p) PROVE TypeOK'
  <2>1. CASE Rollback(p)
    BY <1>3, <2>1, RollbackType DEF LockWallet, TypeOK
  <2>2. CASE ~Rollback(p)
    <3>1. /\ tx[p].wallet \in Users
          /\ balance[tx[p].wallet] + tx[p].delta \in Nat
      BY <1>3, <2>2 DEF LockWallet, Covers, TypeOK, Tx
    <3> QED  BY <1>3, <2>2, <3>1 DEF LockWallet, TypeOK, Tx
  <2> QED  BY <2>1, <2>2
<1>4. ASSUME NEW p \in Procs, Commit(p) PROVE TypeOK'
  <2>1. tx[p].pc = "commit" /\ End(p) /\ UNCHANGED <<users, overdue, faults>>
    BY <1>4 DEF Commit
  <2>2. balance' \in [Users -> Nat]
    BY <1>4 DEF Commit, TypeOK, Tx
  <2>3. transfer' \in [Ids -> Row]
    <3>1. CASE CommitCreate(p)
      <4> PICK i \in Ids :
             transfer' = [transfer EXCEPT ![i] =
               [status |-> "pending", from |-> tx[p].caller, to |-> tx[p].peer, amount |-> -tx[p].delta]]
        BY <3>1 DEF CommitCreate
      <4>1. -tx[p].delta \in Nat /\ {tx[p].caller, tx[p].peer} \subseteq Users
        BY <2>1, <3>1 DEF CommitCreate, LockInv, WellFormed
      <4> QED  BY <4>1 DEF TypeOK, Row
    <3>2. CASE CommitSettle(p)
      <4>1. tx[p].op \in {"none", "pending", "erased"} \cup Outcome
        BY <3>2 DEF CommitSettle
      <4>2. ASSUME NEW i \in Ids, NEW o \in {"none", "pending", "erased"} \cup Outcome
            PROVE  [transfer[i] EXCEPT !.status = o] \in Row
        BY DEF TypeOK, Row
      <4>3. ASSUME NEW i \in Ids PROVE transfer'[i] \in Row
        BY <3>2, <4>1, <4>2 DEF CommitSettle, TypeOK
      <4> QED  BY <3>2, <4>3 DEF CommitSettle, TypeOK
    <3>3. CASE UNCHANGED transfer
      BY <3>3 DEF TypeOK
    <3> QED  BY <1>4, <3>1, <3>2, <3>3 DEF Commit
  <2> QED  BY <2>1, <2>2, <2>3, EndType DEF TypeOK
<1>5. ASSUME NEW p \in Procs, CommitRefused(p) PROVE TypeOK'
  BY <1>5, RollbackType DEF CommitRefused, TypeOK
<1>6. CASE Sweep
  <2>1. ASSUME SweepScan PROVE TypeOK'
    BY <2>1 DEF SweepScan, TypeOK
  <2>2. ASSUME NEW i \in Ids, BeginRefund(i) PROVE TypeOK'
    <3>1. NewTx("row", "refunded", None, i, None, None, 0) \in Tx  BY TxType
    <3> QED  BY <2>2, <3>1, BeginType DEF BeginRefund
  <2> QED  BY <1>6, <2>1, <2>2 DEF Sweep
<1>7. ASSUME NEW p \in Procs, Fault(p) PROVE TypeOK'
  BY <1>7, RollbackType DEF Fault, TypeOK
<1>8. CASE BeginFails
  BY <1>8 DEF BeginFails, TypeOK
<1>9. CASE Crash
  BY <1>9, NoTxType DEF Crash, TypeOK
<1>10. ASSUME NEW i \in Ids, Expire(i) PROVE TypeOK'
  BY <1>10 DEF Expire, TypeOK
<1>11. ASSUME NEW u \in Users, PurgeUser(u) PROVE TypeOK'
  <2>1. \A r \in Row : [r EXCEPT !.status = "erased"] \in Row
    BY DEF Row
  <2>2. transfer' \in [Ids -> Row]
    BY <1>11, <2>1 DEF PurgeUser, TypeOK
  <2> QED  BY <1>11, <2>2 DEF PurgeUser, TypeOK
<1>12. CASE UNCHANGED vars
  BY <1>12 DEF vars, TypeOK
<1> QED
  BY <1>1, <1>2, <1>3, <1>4, <1>5, <1>6, <1>7, <1>8, <1>9, <1>10, <1>11, <1>12
     DEF Next, Proceed

----------------------------------------------------------------------------
(* A process that is idle, or that has just begun, owns nothing.           *)
LEMMA InitInv == Init => LockInv
<1> SUFFICES ASSUME Init PROVE LockInv
  OBVIOUS
<1>1. \A p \in Procs : tx[p].pc = "idle"
  BY DEF Init, NoTx, NewTx
<1>2. Ownership
  BY <1>1 DEF Init, Ownership, OwnsRow, OwnsWallet
<1>3. NothingStale
  BY <1>1 DEF NothingStale, OwnsRow, OwnsWallet
<1>4. WellFormed
  BY <1>1 DEF WellFormed
<1> QED  BY <1>2, <1>3, <1>4 DEF LockInv

(* Beginning a transaction disturbs no other one.                          *)
LEMMA BeginInv ==
  ASSUME TypeOK, LockInv, NEW p \in Procs, NEW t \in Tx, Begin(p, t),
         t.pc \in {"row", "wallet"}, t.pc = "wallet" => t.op \notin Outcome,
         t.pc = "row" => t.op \in Outcome /\ t.id \in Ids,
         t.op = "adjust" => t.delta \in Grants,
         t.op = "create" => /\ -t.delta \in Amounts
                            /\ {t.caller, t.peer} \subseteq Users /\ t.caller # t.peer
                            /\ t.wallet = t.caller
  PROVE  LockInv'
<1>1. \A q \in Procs : tx'[q] = IF q = p THEN t ELSE tx[q]
  BY DEF Begin, TypeOK
<1>2. tx[p].pc = "idle" /\ UNCHANGED <<users, balance, transfer, rowLock, walletLock>>
  BY DEF Begin
<1>3. Ownership'
  BY <1>1, <1>2 DEF LockInv, Ownership, OwnsRow, OwnsWallet
<1>4. NothingStale'
  BY <1>1, <1>2 DEF LockInv, NothingStale, OwnsRow, OwnsWallet, MaySettle, Credited
<1>5. WellFormed'
  BY <1>1, <1>2 DEF LockInv, WellFormed
<1> QED  BY <1>3, <1>4, <1>5 DEF LockInv

(* Ending one is harmless when the writes hit no row another one owns.     *)
LEMMA EndInv ==
  ASSUME TypeOK, LockInv, NEW p \in Procs, End(p), users' = users,
         \A i \in Ids : rowLock[i] \in Procs \ {p} => transfer'[i] = transfer[i],
         \A u \in Users : walletLock[u] \in Procs \ {p} => balance'[u] = balance[u]
  PROVE  LockInv'
<1>1. \A q \in Procs : tx'[q] = IF q = p THEN NoTx ELSE tx[q]
  BY DEF End, TypeOK
<1>2. NoTx.pc = "idle"
  BY DEF NoTx, NewTx
<1>3. Ownership'
  BY <1>1, <1>2 DEF End, LockInv, Ownership, OwnsRow, OwnsWallet, TypeOK
<1>4. NothingStale'
  <2> SUFFICES ASSUME NEW q \in Procs, q # p
               PROVE  NothingStale!(q)'
    BY <1>1, <1>2 DEF NothingStale, OwnsRow, OwnsWallet
  <2>1. tx'[q] = tx[q]
    BY <1>1
  <2>2. ASSUME OwnsRow(q) PROVE transfer'[tx[q].id] = transfer[tx[q].id]
    <3>1. tx[q].id \in Ids  BY <2>2 DEF OwnsRow, LockInv, WellFormed
    <3>2. rowLock[tx[q].id] = q  BY <2>2, <3>1 DEF LockInv, Ownership
    <3> QED  BY <3>1, <3>2
  <2>3. ASSUME OwnsWallet(q) PROVE tx[q].wallet \in Users /\ balance'[tx[q].wallet] = balance[tx[q].wallet]
    <3>1. tx[q].wallet \in Users  BY <2>3 DEF LockInv, NothingStale, TypeOK
    <3>2. walletLock[tx[q].wallet] = q  BY <2>3, <3>1 DEF LockInv, Ownership
    <3> QED  BY <3>1, <3>2
  <2> QED
    BY <2>1, <2>2, <2>3 DEF LockInv, NothingStale, OwnsRow, OwnsWallet, MaySettle, Credited
<1>5. WellFormed'
  BY <1>1, <1>2 DEF LockInv, WellFormed
<1> QED  BY <1>3, <1>4, <1>5 DEF LockInv

LEMMA RollbackInv ==
  ASSUME TypeOK, LockInv, NEW p \in Procs, Rollback(p)
  PROVE  LockInv'
  BY EndInv DEF Rollback

(* Reading a row under its lock makes the transaction its owner.           *)
LEMMA LockRowInv ==
  ASSUME TypeOK, LockInv, NEW p \in Procs, LockRow(p)
  PROVE  LockInv'
<1> DEFINE t == tx[p]
           row == transfer[t.id]
<1>1. CASE ~MaySettle(t, row)
  BY <1>1, RollbackInv DEF LockRow
<1>2. CASE MaySettle(t, row)
  <2>1. /\ t.pc = "row" /\ rowLock[t.id] = None
        /\ rowLock' = [rowLock EXCEPT ![t.id] = p]
        /\ tx' = [tx EXCEPT ![p].pc = "wallet", ![p].wallet = Credited(t, row),
                            ![p].delta = row.amount]
        /\ UNCHANGED <<users, balance, transfer, walletLock>>
    BY <1>2 DEF LockRow
  <2>2. t.id \in Ids /\ t.op \in Outcome
    BY <2>1 DEF LockInv, WellFormed
  <2>3. /\ tx'[p].pc = "wallet" /\ tx'[p].op = t.op /\ tx'[p].id = t.id
        /\ tx'[p].caller = t.caller /\ tx'[p].wallet = Credited(t, row)
        /\ tx'[p].delta = row.amount
    BY <2>1 DEF TypeOK, Tx
  <2>4. \A q \in Procs \ {p} : tx'[q] = tx[q]
    BY <2>1 DEF TypeOK
  <2>5. Ownership'
    <3>1. ASSUME NEW q \in Procs, NEW j \in Ids
          PROVE  rowLock'[j] = q <=> OwnsRow(q)' /\ tx'[q].id = j
      <4>1. CASE q = p
        BY <2>1, <2>2, <2>3, <4>1 DEF LockInv, Ownership, OwnsRow, TypeOK, Outcome
      <4>2. CASE q # p
        BY <2>1, <2>2, <2>4, <4>2 DEF LockInv, Ownership, OwnsRow, TypeOK, Outcome
      <4> QED  BY <4>1, <4>2
    <3>2. ASSUME NEW q \in Procs, NEW u \in Users
          PROVE  walletLock'[u] = q <=> OwnsWallet(q)' /\ tx'[q].wallet = u
      BY <2>1, <2>2, <2>3, <2>4 DEF LockInv, Ownership, OwnsWallet, TypeOK
    <3> QED  BY <3>1, <3>2 DEF Ownership
  <2>6. NothingStale'
    <3>1. ASSUME NEW q \in Procs \ {p} PROVE NothingStale!(q)'
      <4>1. tx'[q] = tx[q] /\ UNCHANGED <<users, balance, transfer>>
        BY <2>1, <2>4
      <4>2. NothingStale!(q)
        BY DEF LockInv, NothingStale
      <4> QED  BY <4>1, <4>2 DEF OwnsRow, OwnsWallet
    <3>2. MaySettle(tx'[p], row) /\ Credited(tx'[p], row) = Credited(t, row)
      BY <1>2, <2>3 DEF MaySettle, Credited
    <3>3. NothingStale!(p)'
      BY <2>1, <2>3, <3>2 DEF OwnsRow, OwnsWallet, MaySettle, Credited
    <3> QED  BY <3>1, <3>3 DEF NothingStale
  <2>7. WellFormed'
    BY <2>2, <2>3, <2>4 DEF LockInv, WellFormed, Outcome
  <2> QED  BY <2>5, <2>6, <2>7 DEF LockInv
<1> QED  BY <1>1, <1>2

LEMMA LockWalletInv ==
  ASSUME TypeOK, LockInv, NEW p \in Procs, LockWallet(p)
  PROVE  LockInv'
<1> DEFINE t == tx[p]
           row == transfer[t.id]
<1>1. CASE ~Covers(t)
  BY <1>1, RollbackInv DEF LockWallet
<1>2. CASE Covers(t)
  <2>1. /\ t.pc = "wallet" /\ walletLock[t.wallet] = None
        /\ walletLock' = [walletLock EXCEPT ![t.wallet] = p]
        /\ tx' = [tx EXCEPT ![p].pc = "commit", ![p].newBalance = balance[t.wallet] + t.delta]
        /\ UNCHANGED <<users, balance, transfer, rowLock>>
    BY <1>2 DEF LockWallet
  <2>2. t.wallet \in users /\ t.wallet \in Users
    BY <1>2 DEF Covers, TypeOK
  <2>3. /\ tx'[p].pc = "commit" /\ tx'[p].op = t.op /\ tx'[p].id = t.id
        /\ tx'[p].caller = t.caller /\ tx'[p].peer = t.peer /\ tx'[p].wallet = t.wallet
        /\ tx'[p].delta = t.delta /\ tx'[p].newBalance = balance[t.wallet] + t.delta
    BY <2>1 DEF TypeOK, Tx
  <2>4. \A q \in Procs \ {p} : tx'[q] = tx[q]
    BY <2>1 DEF TypeOK
  <2>5. Ownership'
    BY <2>1, <2>2, <2>3, <2>4 DEF LockInv, Ownership, OwnsRow, OwnsWallet, TypeOK, Outcome
  <2>6. NothingStale'
    <3>1. ASSUME NEW q \in Procs \ {p} PROVE NothingStale!(q)'
      <4>1. tx'[q] = tx[q] /\ UNCHANGED <<users, balance, transfer>>
        BY <2>1, <2>4
      <4>2. NothingStale!(q)
        BY DEF LockInv, NothingStale
      <4> QED  BY <4>1, <4>2 DEF OwnsRow, OwnsWallet
    <3>2. OwnsRow(p)' => OwnsRow(p)
      BY <2>1, <2>3 DEF OwnsRow
    <3>3. OwnsRow(p) => /\ MaySettle(t, row) /\ t.delta = row.amount /\ t.wallet = Credited(t, row)
      BY DEF LockInv, NothingStale
    <3>4. MaySettle(tx'[p], row) = MaySettle(t, row) /\ Credited(tx'[p], row) = Credited(t, row)
      BY <2>3 DEF MaySettle, Credited
    <3>5. NothingStale!(p)'
      BY <2>1, <2>2, <2>3, <3>2, <3>3, <3>4 DEF OwnsWallet, MaySettle, Credited
    <3> QED  BY <3>1, <3>5 DEF NothingStale
  <2>7. WellFormed'
    <3>1. ASSUME NEW q \in Procs \ {p} PROVE WellFormed!(q)'
      BY <2>4 DEF LockInv, WellFormed
    <3>2. WellFormed!(p)
      BY DEF LockInv, WellFormed
    <3>3. t.op = "adjust" => balance[t.wallet] + t.delta <= MaxBalance
      BY <1>2 DEF Covers
    <3>4. WellFormed!(p)'
      BY <2>1, <2>3, <3>2, <3>3
    <3> QED  BY <3>1, <3>4 DEF WellFormed
  <2> QED  BY <2>5, <2>6, <2>7 DEF LockInv
<1> QED  BY <1>1, <1>2

(* A commit writes only the wallet and the row its transaction owns.       *)
LEMMA CommitInv ==
  ASSUME TypeOK, LockInv, NEW p \in Procs, Commit(p)
  PROVE  LockInv'
<1>1. tx[p].pc = "commit" /\ End(p) /\ users' = users
      /\ balance' = [balance EXCEPT ![tx[p].wallet] = tx[p].newBalance]
  BY DEF Commit
<1>2. tx[p].wallet \in Users /\ walletLock[tx[p].wallet] = p
  BY <1>1 DEF LockInv, NothingStale, Ownership, OwnsWallet, TypeOK
<1>3. \A u \in Users : walletLock[u] \in Procs \ {p} => balance'[u] = balance[u]
  BY <1>1, <1>2 DEF TypeOK
<1>4. \A i \in Ids : rowLock[i] \in Procs \ {p} => transfer'[i] = transfer[i]
  <2>1. CASE CommitCreate(p)
    <3>1. PICK j \in Ids :
            /\ transfer[j].status = "none"
            /\ transfer' = [transfer EXCEPT ![j] =
                 [status |-> "pending", from |-> tx[p].caller, to |-> tx[p].peer, amount |-> -tx[p].delta]]
      BY <2>1 DEF CommitCreate
    <3>2. rowLock[j] \notin Procs
      <4> SUFFICES ASSUME rowLock[j] \in Procs PROVE FALSE
        OBVIOUS
      <4>1. OwnsRow(rowLock[j]) /\ tx[rowLock[j]].id = j
        BY DEF LockInv, Ownership
      <4>2. transfer[j].status = "pending"
        BY <4>1 DEF LockInv, NothingStale, MaySettle
      <4> QED  BY <3>1, <4>2
    <3> QED  BY <3>1, <3>2 DEF TypeOK
  <2>2. CASE CommitSettle(p)
    <3>1. OwnsRow(p) /\ tx[p].id \in Ids
      BY <1>1, <2>2 DEF CommitSettle, OwnsRow, LockInv, WellFormed
    <3>2. rowLock[tx[p].id] = p
      BY <3>1 DEF LockInv, Ownership
    <3> QED  BY <2>2, <3>1, <3>2 DEF CommitSettle, TypeOK
  <2>3. CASE UNCHANGED transfer
    BY <2>3
  <2> QED  BY <2>1, <2>2, <2>3 DEF Commit
<1> QED  BY <1>1, <1>3, <1>4, EndInv

(* A purge waits for every lock on the rows it removes.                    *)
LEMMA PurgeInv ==
  ASSUME TypeOK, LockInv, NEW u \in Users, PurgeUser(u)
  PROVE  LockInv'
<1>1. UNCHANGED <<rowLock, walletLock, tx>>
  BY DEF PurgeUser
<1>2. Ownership' /\ WellFormed'
  BY <1>1 DEF LockInv, Ownership, OwnsRow, OwnsWallet, WellFormed
<1>3. NothingStale'
  <2> SUFFICES ASSUME NEW q \in Procs PROVE NothingStale!(q)'
    BY DEF NothingStale
  <2>1. ASSUME OwnsRow(q) PROVE transfer'[tx[q].id] = transfer[tx[q].id]
    <3>1. tx[q].id \in Ids  BY <2>1 DEF OwnsRow, LockInv, WellFormed
    <3>2. rowLock[tx[q].id] = q  BY <2>1, <3>1 DEF LockInv, Ownership
    <3>3. ~Involves(tx[q].id, u)  BY <3>1, <3>2 DEF PurgeUser
    <3> QED  BY <3>1, <3>3 DEF PurgeUser
  <2>2. ASSUME OwnsWallet(q)
        PROVE  tx[q].wallet \in users' /\ balance'[tx[q].wallet] = balance[tx[q].wallet]
    <3>1. tx[q].wallet \in users /\ tx[q].wallet \in Users
      BY <2>2 DEF LockInv, NothingStale, TypeOK
    <3>2. walletLock[tx[q].wallet] = q  BY <2>2, <3>1 DEF LockInv, Ownership
    <3> QED  BY <3>1, <3>2 DEF PurgeUser, TypeOK
  <2> QED
    BY <1>1, <2>1, <2>2 DEF LockInv, NothingStale, OwnsRow, OwnsWallet, MaySettle, Credited
<1> QED  BY <1>2, <1>3 DEF LockInv

LEMMA CrashInv == TypeOK /\ LockInv /\ Crash => LockInv'
<1> SUFFICES ASSUME TypeOK, LockInv, Crash PROVE LockInv'
  OBVIOUS
<1>1. \A q \in Procs : tx'[q].pc = "idle"
  BY DEF Crash, NoTx, NewTx
<1>2. Ownership'
  BY <1>1 DEF Crash, Ownership, OwnsRow, OwnsWallet
<1>3. NothingStale' /\ WellFormed'
  BY <1>1 DEF NothingStale, WellFormed, OwnsRow, OwnsWallet
<1> QED  BY <1>2, <1>3 DEF LockInv

(* Nothing LockInv speaks of changes.                                      *)
LEMMA FrameInv ==
  ASSUME LockInv, UNCHANGED <<users, balance, transfer, rowLock, walletLock, tx>>
  PROVE  LockInv'
  BY DEF LockInv, Ownership, NothingStale, WellFormed, OwnsRow, OwnsWallet, MaySettle, Credited

LEMMA NextInv == TypeOK /\ LockInv /\ [Next]_vars => LockInv'
<1> SUFFICES ASSUME TypeOK, LockInv, [Next]_vars PROVE LockInv'
  OBVIOUS
<1>1. ASSUME NEW p \in Handlers, Arrive(p) PROVE LockInv'
  <2>1. ASSUME NEW u \in Users, NEW d \in Grants, BeginAdjust(p, u, d) PROVE LockInv'
    <3> DEFINE t == NewTx("wallet", "adjust", None, None, u, None, d)
    <3>1. t \in Tx  BY TxType
    <3>2. t.pc = "wallet" /\ t.op = "adjust" /\ t.delta = d  BY DEF NewTx
    <3> HIDE DEF t
    <3>3. Begin(p, t)  BY <2>1 DEF BeginAdjust, t
    <3> QED  BY <3>1, <3>2, <3>3, BeginInv DEF Outcome
  <2>2. ASSUME NEW s \in Users, NEW r \in Users, NEW a \in Amounts, BeginCreate(p, s, r, a)
        PROVE  LockInv'
    <3> DEFINE t == NewTx("wallet", "create", s, None, s, r, -a)
    <3>1. -a \in Int /\ -(-a) = a  OBVIOUS
    <3>2. t \in Tx  BY <3>1, TxType
    <3>3. t.pc = "wallet" /\ t.op = "create" /\ t.delta = -a /\ t.caller = s
          /\ t.peer = r /\ t.wallet = s
      BY DEF NewTx
    <3> HIDE DEF t
    <3>4. Begin(p, t) /\ s # r  BY <2>2 DEF BeginCreate, t
    <3> QED  BY <3>1, <3>2, <3>3, <3>4, BeginInv DEF Outcome
  <2>3. ASSUME NEW u \in Users, NEW i \in Ids, NEW op \in {"accepted", "declined"},
               BeginDecide(p, op, u, i)
        PROVE  LockInv'
    <3> DEFINE t == NewTx("row", op, u, i, None, None, 0)
    <3>1. t \in Tx  BY TxType
    <3>2. t.pc = "row" /\ t.op = op /\ t.id = i  BY DEF NewTx
    <3> HIDE DEF t
    <3>3. Begin(p, t)  BY <2>3 DEF BeginDecide, t
    <3> QED  BY <3>1, <3>2, <3>3, BeginInv DEF Outcome
  <2> QED  BY <1>1, <2>1, <2>2, <2>3 DEF Arrive
<1>2. ASSUME NEW p \in Procs, Proceed(p) PROVE LockInv'
  <2>1. CASE CommitRefused(p)
    BY <2>1, RollbackInv DEF CommitRefused
  <2> QED  BY <1>2, <2>1, LockRowInv, LockWalletInv, CommitInv DEF Proceed
<1>3. ASSUME NEW i \in Ids, BeginRefund(i) PROVE LockInv'
  <2> DEFINE t == NewTx("row", "refunded", None, i, None, None, 0)
  <2>1. t \in Tx  BY TxType
  <2>2. t.pc = "row" /\ t.op = "refunded" /\ t.id = i  BY DEF NewTx
  <2> HIDE DEF t
  <2>3. Begin(Sweeper, t)  BY <1>3 DEF BeginRefund, t
  <2> QED  BY <2>1, <2>2, <2>3, BeginInv DEF Outcome
<1>4. ASSUME NEW p \in Procs, Fault(p) PROVE LockInv'
  BY <1>4, RollbackInv DEF Fault
<1>5. ASSUME NEW u \in Users, PurgeUser(u) PROVE LockInv'
  BY <1>5, PurgeInv
<1>6. CASE Crash
  BY <1>6, CrashInv
<1>7. ASSUME SweepScan \/ BeginFails \/ (\E i \in Ids : Expire(i)) \/ UNCHANGED vars
      PROVE  LockInv'
  BY <1>7, FrameInv DEF SweepScan, BeginFails, Expire, vars
<1> QED  BY <1>1, <1>2, <1>3, <1>4, <1>5, <1>6, <1>7 DEF Next, Sweep

----------------------------------------------------------------------------
(* Every reachable state is well typed: no balance is ever negative, no    *)
(* lock belongs to anything but a running process (adjustBalanceTx's check *)
(* and the wallets_balance_non_negative constraint behind it).             *)
THEOREM TypeCorrect == Spec => []TypeOK
<1>1. Init => TypeOK /\ LockInv
  BY InitType, InitInv
<1>2. TypeOK /\ LockInv /\ [Next]_vars => (TypeOK /\ LockInv)'
  BY NextType, NextInv
<1> QED  BY <1>1, <1>2, PTL DEF Spec

(* What a transaction read under its locks holds until it commits, however *)
(* the requests, the sweeper, purges, failures and crashes interleave.     *)
THEOREM LocksProtect == Spec => []LockInv
<1>1. Init => TypeOK /\ LockInv
  BY InitType, InitInv
<1>2. TypeOK /\ LockInv /\ [Next]_vars => (TypeOK /\ LockInv)'
  BY NextType, NextInv
<1> QED  BY <1>1, <1>2, PTL DEF Spec

----------------------------------------------------------------------------
(* The commit of a transaction is one step of the atomic specification.    *)
LEMMA CommitRefines ==
  ASSUME TypeOK, LockInv, NEW p \in Procs, Commit(p)
  PROVE  Atomic!Next
<1> DEFINE t == tx[p]
<1>1. /\ t.pc = "commit" /\ users' = users
      /\ balance' = [balance EXCEPT ![t.wallet] = t.newBalance]
  BY DEF Commit
<1>2. /\ t.wallet \in users /\ t.wallet \in Users
      /\ t.newBalance = balance[t.wallet] + t.delta /\ t.newBalance \in Nat
      /\ balance[t.wallet] \in Nat /\ t.delta \in Int
  BY <1>1 DEF LockInv, NothingStale, OwnsWallet, TypeOK, Tx
<1>3. CASE t.op = "adjust" /\ UNCHANGED transfer
  <2>1. t.delta \in Grants /\ t.newBalance <= MaxBalance
    BY <1>1, <1>3 DEF LockInv, WellFormed
  <2>2. Atomic!Adjust(t.wallet, t.delta)
    BY <1>1, <1>2, <1>3, <2>1 DEF Atomic!Adjust
  <2> QED  BY <1>2, <2>1, <2>2 DEF Atomic!Next
<1>4. CASE CommitCreate(p)
  <2>1. PICK j \in Ids :
          /\ transfer[j].status = "none"
          /\ transfer' = [transfer EXCEPT ![j] =
               [status |-> "pending", from |-> t.caller, to |-> t.peer, amount |-> -t.delta]]
    BY <1>4 DEF CommitCreate
  <2>2. /\ -t.delta \in Amounts /\ t.caller # t.peer /\ t.wallet = t.caller
        /\ t.peer \in users /\ t.peer \in Users
    BY <1>1, <1>4 DEF CommitCreate, LockInv, WellFormed
  <2>3. balance[t.caller] - (-t.delta) = t.newBalance /\ balance[t.caller] >= -t.delta
    BY <1>2, <2>2
  <2>4. Atomic!Hold(j, t.caller, t.peer, -t.delta)
    BY <1>1, <1>2, <2>1, <2>2, <2>3 DEF Atomic!Hold
  <2> QED  BY <1>2, <2>1, <2>2, <2>4 DEF Atomic!Next
<1>5. CASE CommitSettle(p)
  <2>1. t.op \in Outcome /\ t.id \in Ids /\ OwnsRow(p)
    BY <1>1, <1>5 DEF CommitSettle, LockInv, WellFormed, OwnsRow
  <2>2. /\ transfer[t.id].status = "pending" /\ t.delta = transfer[t.id].amount
        /\ t.wallet = Credited(t, transfer[t.id])
    BY <2>1 DEF LockInv, NothingStale, MaySettle
  <2>3. Atomic!Settle(t.id, t.op)
    BY <1>1, <1>2, <1>5, <2>1, <2>2 DEF Atomic!Settle, CommitSettle, Credited
  <2> QED  BY <2>1, <2>3 DEF Atomic!Next, Atomic!Outcome, Outcome
<1> QED  BY <1>3, <1>4, <1>5 DEF Commit

LEMMA StepRefines ==
  TypeOK /\ LockInv /\ [Next]_vars => [Atomic!Next]_<<users, balance, transfer>>
<1> SUFFICES ASSUME TypeOK, LockInv, [Next]_vars
             PROVE  Atomic!Next \/ UNCHANGED <<users, balance, transfer>>
  OBVIOUS
<1>1. ASSUME NEW p \in Procs, Commit(p) PROVE Atomic!Next
  BY <1>1, CommitRefines
<1>2. ASSUME NEW u \in Users, PurgeUser(u) PROVE Atomic!Next
  <2>1. Atomic!Close(u)
    BY <1>2 DEF PurgeUser, Atomic!Close, Involves
  <2> QED  BY <2>1 DEF Atomic!Next
<1>3. ASSUME NEW p \in Handlers, Arrive(p) PROVE UNCHANGED <<users, balance, transfer>>
  BY <1>3 DEF Arrive, BeginAdjust, BeginCreate, BeginDecide, Begin
<1>4. ASSUME NEW p \in Procs, LockRow(p) \/ LockWallet(p) \/ CommitRefused(p) \/ Fault(p)
      PROVE  UNCHANGED <<users, balance, transfer>>
  BY <1>4 DEF LockRow, LockWallet, CommitRefused, Fault, Rollback
<1>5. ASSUME Sweep \/ BeginFails \/ Crash \/ (\E i \in Ids : Expire(i)) \/ UNCHANGED vars
      PROVE  UNCHANGED <<users, balance, transfer>>
  BY <1>5 DEF Sweep, SweepScan, BeginRefund, Begin, BeginFails, Crash, Expire, vars
<1> QED  BY <1>1, <1>2, <1>3, <1>4, <1>5 DEF Next, Proceed

(* The transactions of Transfers, statement by statement under row locks,  *)
(* do exactly what the one-step operations of Escrow do: money leaves a    *)
(* wallet only into escrow, and escrow is paid out once.                   *)
THEOREM EscrowRefined == Spec => ImplementsEscrow
<1>1. Init => Atomic!Init
  BY DEF Init, Atomic!Init, NoRow, Atomic!NoRow
<1>2. TypeOK /\ LockInv /\ [Next]_vars => [Atomic!Next]_(Atomic!vars)
  BY StepRefines DEF Atomic!vars
<1> QED
  BY <1>1, <1>2, TypeCorrect, LocksProtect, PTL DEF Spec, ImplementsEscrow, Atomic!Spec

----------------------------------------------------------------------------
(* The sum Escrow takes is the one SumLemmas is about.                     *)
LEMMA SameSum == ASSUME NEW f PROVE Atomic!SumFunction(f) = SumFunctionOnSet(f, DOMAIN f)
  BY DEF Atomic!SumFunction, Atomic!SumFunctionOnSet, Atomic!FoldFunctionOnSet,
         Atomic!MapThenFoldSet, SumFunctionOnSet, FoldFunctionOnSet, MapThenFoldSet

(* Wallets and escrow are sums over finitely many wallets and rows.        *)
LEMMA TotalIs ==
  ASSUME TypeOK
  PROVE  /\ balance \in [Users -> Int] /\ Atomic!Held \in [Ids -> Int]
         /\ SumFunctionOnSet(balance, Users) \in Int /\ SumFunctionOnSet(Atomic!Held, Ids) \in Int
         /\ Atomic!Total = SumFunctionOnSet(balance, Users) + SumFunctionOnSet(Atomic!Held, Ids)
<1>1. balance \in [Users -> Int]
  BY DEF TypeOK
<1>2. Atomic!Held \in [Ids -> Int]
  BY DEF TypeOK, Row, Atomic!Held
<1>3. DOMAIN balance = Users /\ DOMAIN Atomic!Held = Ids
  BY <1>1, <1>2
<1>4. /\ \A u \in Users : balance[u] \in Int
      /\ \A i \in Ids : Atomic!Held[i] \in Int
  BY <1>1, <1>2
<1>5. SumFunctionOnSet(balance, Users) \in Int /\ SumFunctionOnSet(Atomic!Held, Ids) \in Int
  BY <1>4, SumInt
<1> QED  BY <1>1, <1>2, <1>3, <1>5, SameSum DEF Atomic!Total

(* The escrow of one row changes with it.                                  *)
LEMMA HeldUpdate ==
  ASSUME TypeOK, NEW i \in Ids, NEW row \in Row, transfer' = [transfer EXCEPT ![i] = row]
  PROVE  Atomic!Held' = [Atomic!Held EXCEPT ![i] = IF row.status = "pending" THEN row.amount ELSE 0]
  BY DEF TypeOK, Atomic!Held

(* A commit moves money between wallet and escrow, or is a grant.          *)
LEMMA CommitConserves ==
  ASSUME TypeOK, TypeOK', LockInv, NEW p \in Procs, Commit(p)
  PROVE  \/ Atomic!Total' = Atomic!Total
         \/ UNCHANGED transfer /\ Atomic!Total' - Atomic!Total \in Grants
<1> DEFINE t == tx[p]
<1>1. /\ t.pc = "commit" /\ users' = users
      /\ balance' = [balance EXCEPT ![t.wallet] = t.newBalance]
  BY DEF Commit
<1>2. /\ t.wallet \in users /\ t.wallet \in Users
      /\ t.newBalance = balance[t.wallet] + t.delta /\ t.newBalance \in Nat
      /\ balance[t.wallet] \in Nat /\ t.delta \in Int
  BY <1>1 DEF LockInv, NothingStale, OwnsWallet, TypeOK, Tx
<1>3. SumFunctionOnSet(balance', Users) = SumFunctionOnSet(balance, Users) + t.delta
  <2> DEFINE w == t.wallet
             v == t.newBalance
  <2>1. balance \in [Users -> Int] /\ w \in Users /\ v \in Int
    BY <1>2, TotalIs
  <2>2. balance' = [balance EXCEPT ![w] = v] /\ v = balance[w] + t.delta
    BY <1>1, <1>2
  <2> HIDE DEF w, v
  <2>3. /\ \A u \in Users : balance[u] \in Int /\ balance'[u] \in Int
        /\ \A u \in Users \ {w} : balance[u] = balance'[u]
        /\ balance'[w] = v
    BY <2>1, <2>2
  <2>4. SumFunctionOnSet(balance', Users) = SumFunctionOnSet(balance, Users) + balance'[w] - balance[w]
    BY <2>1, <2>3, SumChange
  <2> QED  BY <1>2, <2>1, <2>2, <2>3, <2>4, TotalIs
<1>4. /\ Atomic!Total = SumFunctionOnSet(balance, Users) + SumFunctionOnSet(Atomic!Held, Ids)
      /\ Atomic!Total' = SumFunctionOnSet(balance', Users) + SumFunctionOnSet(Atomic!Held', Ids)
      /\ SumFunctionOnSet(balance, Users) \in Int /\ SumFunctionOnSet(Atomic!Held, Ids) \in Int
      /\ Atomic!Held \in [Ids -> Int]
  <2>1. /\ SumFunctionOnSet(balance, Users) \in Int /\ SumFunctionOnSet(Atomic!Held, Ids) \in Int
        /\ Atomic!Total = SumFunctionOnSet(balance, Users) + SumFunctionOnSet(Atomic!Held, Ids)
        /\ Atomic!Held \in [Ids -> Int]
    BY TotalIs
  <2>2. Atomic!Total' = SumFunctionOnSet(balance', Users) + SumFunctionOnSet(Atomic!Held', Ids)
    <3>1. balance' \in [Users -> Int] /\ Atomic!Held' \in [Ids -> Int]
      BY DEF TypeOK, Row, Atomic!Held
    <3>2. DOMAIN balance' = Users /\ DOMAIN Atomic!Held' = Ids
      BY <3>1
    <3> QED  BY <3>2, SameSum DEF Atomic!Total
  <2> QED  BY <2>1, <2>2
<1>5. CASE t.op = "adjust" /\ UNCHANGED transfer
  <2>1. t.delta \in Grants
    BY <1>1, <1>5 DEF LockInv, WellFormed
  <2>2. Atomic!Held' = Atomic!Held
    BY <1>5 DEF Atomic!Held
  <2>3. Atomic!Total' - Atomic!Total = t.delta
    BY <1>2, <1>3, <1>4, <2>2
  <2> QED  BY <1>5, <2>1, <2>3
<1>6. ASSUME NEW i \in Ids, NEW a \in Int, Atomic!Held' = [Atomic!Held EXCEPT ![i] = a],
             a = Atomic!Held[i] - t.delta
      PROVE  Atomic!Total' = Atomic!Total
  <2> DEFINE h == Atomic!Held
             k == Atomic!Held'
  <2>1. /\ \A j \in Ids : h[j] \in Int /\ k[j] \in Int
        /\ \A j \in Ids \ {i} : h[j] = k[j]
        /\ k[i] = a
    BY <1>4, <1>6
  <2> HIDE DEF h, k
  <2>2. SumFunctionOnSet(k, Ids) = SumFunctionOnSet(h, Ids) + k[i] - h[i]
    BY <2>1, SumChange
  <2>3. SumFunctionOnSet(Atomic!Held', Ids) = SumFunctionOnSet(Atomic!Held, Ids) - t.delta
    <3>1. a = h[i] - t.delta /\ h[i] \in Int /\ SumFunctionOnSet(h, Ids) \in Int
      BY <1>4, <1>6, <2>1 DEF h
    <3>2. SumFunctionOnSet(k, Ids) = SumFunctionOnSet(h, Ids) - t.delta
      BY <1>2, <2>1, <2>2, <3>1
    <3> QED  BY <3>2 DEF h, k
  <2> QED  BY <1>2, <1>3, <1>4, <2>3
<1>7. CASE CommitCreate(p)
  <2> DEFINE row == [status |-> "pending", from |-> t.caller, to |-> t.peer, amount |-> -t.delta]
  <2>1. PICK j \in Ids : transfer[j].status = "none" /\ transfer' = [transfer EXCEPT ![j] = row]
    BY <1>7 DEF CommitCreate
  <2>2. row \in Row /\ row.status = "pending" /\ row.amount = -t.delta
    BY <1>1, <1>7 DEF CommitCreate, LockInv, WellFormed, Row
  <2> HIDE DEF row
  <2>3. Atomic!Held' = [Atomic!Held EXCEPT ![j] = -t.delta]
    BY <2>1, <2>2, HeldUpdate
  <2>4. Atomic!Held[j] = 0 /\ -t.delta \in Int /\ -t.delta = 0 - t.delta
    BY <1>2, <2>1 DEF Atomic!Held
  <2> QED  BY <1>6, <2>3, <2>4
<1>8. CASE CommitSettle(p)
  <2>1. t.op \in Outcome /\ t.id \in Ids /\ OwnsRow(p)
    BY <1>1, <1>8 DEF CommitSettle, LockInv, WellFormed, OwnsRow
  <2>2. transfer[t.id].status = "pending" /\ t.delta = transfer[t.id].amount
    BY <2>1 DEF LockInv, NothingStale, MaySettle
  <2> DEFINE row == [transfer[t.id] EXCEPT !.status = t.op]
  <2>3. transfer' = [transfer EXCEPT ![t.id] = row]
    BY <1>8 DEF CommitSettle
  <2>4. row \in Row /\ row.status # "pending"
    <3>1. transfer[t.id] \in Row /\ t.op \in Outcome
      BY <2>1 DEF TypeOK
    <3> QED  BY <3>1 DEF Row, Outcome
  <2> HIDE DEF row
  <2>5. Atomic!Held' = [Atomic!Held EXCEPT ![t.id] = 0]
    BY <2>1, <2>3, <2>4, HeldUpdate
  <2>6. Atomic!Held[t.id] = t.delta
    BY <2>1, <2>2 DEF Atomic!Held
  <2>7. 0 \in Int /\ 0 = Atomic!Held[t.id] - t.delta
    BY <1>2, <2>6
  <2>8. Atomic!Total' = Atomic!Total
    BY <1>6, <2>1, <2>5, <2>7, Zenon
  <2> QED  BY <2>8
<1> QED  BY <1>5, <1>7, <1>8 DEF Commit

LEMMA StepConserves ==
  ASSUME TypeOK, TypeOK', LockInv, [Next]_vars, users' = users
  PROVE  \/ UNCHANGED <<users, balance, transfer>>
         \/ Atomic!Total' = Atomic!Total
         \/ UNCHANGED transfer /\ Atomic!Total' - Atomic!Total \in Grants
<1>1. ASSUME NEW p \in Procs, Commit(p)
      PROVE  \/ Atomic!Total' = Atomic!Total
             \/ UNCHANGED transfer /\ Atomic!Total' - Atomic!Total \in Grants
  BY <1>1, CommitConserves
<1>2. ASSUME NEW u \in Users, PurgeUser(u) PROVE FALSE
  BY <1>2 DEF PurgeUser
<1>3. ASSUME NEW p \in Handlers, Arrive(p) PROVE UNCHANGED <<users, balance, transfer>>
  BY <1>3 DEF Arrive, BeginAdjust, BeginCreate, BeginDecide, Begin
<1>4. ASSUME NEW p \in Procs, LockRow(p) \/ LockWallet(p) \/ CommitRefused(p) \/ Fault(p)
      PROVE  UNCHANGED <<users, balance, transfer>>
  BY <1>4 DEF LockRow, LockWallet, CommitRefused, Fault, Rollback
<1>5. ASSUME Sweep \/ BeginFails \/ Crash \/ (\E i \in Ids : Expire(i)) \/ UNCHANGED vars
      PROVE  UNCHANGED <<users, balance, transfer>>
  BY <1>5 DEF Sweep, SweepScan, BeginRefund, Begin, BeginFails, Crash, Expire, vars
<1> QED  BY <1>1, <1>2, <1>3, <1>4, <1>5 DEF Next, Proceed

(* No interleaving of requests, sweeps, failures and crashes makes or      *)
(* loses a coin: while no account is erased, wallets and escrow together   *)
(* change by exactly what an operator grants (adjustBalanceTx,             *)
(* lockTransferTx).                                                        *)
THEOREM MoneyKept == Spec => MoneyConserved
<1> DEFINE Kept == users' = users =>
                     \/ Atomic!Total' = Atomic!Total
                     \/ UNCHANGED transfer /\ Atomic!Total' - Atomic!Total \in Grants
<1>1. TypeOK /\ TypeOK' /\ LockInv /\ [Next]_vars => [Kept]_<<users, balance, transfer>>
  BY StepConserves
<1>2. Spec => [][Kept]_<<users, balance, transfer>>
  BY <1>1, TypeCorrect, LocksProtect, PTL DEF Spec
<1> QED  BY <1>2 DEF MoneyConserved, Atomic!MoneyConserved, Atomic!vars

-----------------------------------------------------------------------------
(* Why the tips and the wallets agree after any number of tips and         *)
(* deletions.                                                              *)

Refunding == {"refund", "debit", "repay"}
PaidOn(x) == {t \in TipIds : tip[t].state = "paid" /\ tip[t].post = x}

(* Why: what a transaction does is decided by the post that it holds.      *)
FitReq(r) ==
    /\ r.pc = "idle" => r.op = "none" /\ r.tip = Absent
    /\ r.pc # "idle" => r.user \in TipUsers /\ r.post \in Posts
    /\ r.pc = "lock" => r.op \in {"tip", "delete"} /\ \A t \in TipIds : r.back[t] = 0
    /\ r.pc \in {"charge", "credit", "commit"} => r.op = "tip"
    /\ r.op = "tip" => r.tip \in TipIds /\ tip[r.tip].state = "none"
    /\ r.pc \in Refunding =>
         /\ r.op = "delete" /\ r.listed = PaidOn(r.post) /\ r.todo \subseteq r.listed
         /\ \A t \in TipIds : /\ r.back[t] <= NetOf(t)
                              /\ r.back[t] > 0 => t \in r.listed \ r.todo
    /\ r.op = "delete" /\ r.pc \in {"lock", "refund"} => r.tip = Absent
    /\ r.pc \in {"debit", "repay"} => r.tip \in r.todo /\ r.seen > 0 /\ r.seen <= NetOf(r.tip)

(* What a transaction has moved by now in the wallet of u: the tip and its *)
(* net, or the refunds, the one at hand on the author's side only.         *)
Given(r, u) ==
    [t \in TipIds |-> (IF tip[t].giver = u THEN r.back[t] ELSE 0)
                        - (IF Author(r.post) = u THEN r.back[t] ELSE 0)]
Debit(r, u) == IF r.user = u THEN r.amount ELSE 0
Credit(r, u) == IF Author(r.post) = u THEN Net(r.amount) ELSE 0
AtHand(r, u) == IF Author(r.post) = u THEN r.seen ELSE 0
Refunds(r, u) == SumFunctionOnSet(Given(r, u), TipIds)
ChangeOf(r, u) ==
    IF r.pc = "credit" THEN -Debit(r, u)
    ELSE IF r.pc = "commit" THEN Credit(r, u) - Debit(r, u)
    ELSE IF r.pc \in {"refund", "debit"} THEN Refunds(r, u)
    ELSE IF r.pc = "repay" THEN Refunds(r, u) - AtHand(r, u)
    ELSE 0

Backed(r) ==
    \A u \in TipUsers : r.change[u] = ChangeOf(r, u) /\ (r.change[u] # 0 => u \in r.locks)

(* Why: the refunds of an author who has paid for nothing else are never   *)
(* cut short.                                                              *)
Untouched(u) == spent[u] = 0 /\ GivenBy(u) = {}
InFull(r) ==
    r.pc \in Refunding /\ Untouched(Author(r.post)) =>
        /\ \A t \in r.listed \ r.todo : r.back[t] = NetOf(t)
        /\ r.pc \in {"debit", "repay"} => r.seen = NetOf(r.tip)

Covered(r) == \A u \in TipUsers : bal[u] + r.change[u] >= 0

Good(r) == FitReq(r) /\ Backed(r) /\ InFull(r) /\ Covered(r)

(* What a tip has moved in the wallet of u.                                *)
FlowOf(row, u) ==
    IF row.state = "none" THEN 0
    ELSE (IF Author(row.post) = u THEN Net(row.amount) - row.back ELSE 0)
           - (IF row.giver = u THEN row.amount - row.back ELSE 0)
Flow(u) == [t \in TipIds |-> FlowOf(tip[t], u)]
Accounted ==
    \A u \in TipUsers : bal[u] + spent[u] = Start[u] + SumFunctionOnSet(Flow(u), TipIds)
Kept == fees + SumFunctionOnSet(Earned, TipIds) = SumFunctionOnSet(PaidFor, TipIds)

FitTip(row) ==
    /\ row.state = "none" => row.amount = 0
    /\ row.back <= Net(row.amount)
    /\ row.back > 0 => row.state = "refunded"
    /\ row.state # "dropped"
TipsFit == \A t \in TipIds : FitTip(tip[t])

OneTip ==
    \A p, q \in TipHandlers :
        p # q /\ req[p].op = "tip" /\ req[q].op = "tip" => req[p].tip # req[q].tip

IInv ==
    /\ TipsTypeOK /\ (\A p \in TipHandlers : Good(req[p]))
    /\ OneTip /\ LocksHeld /\ Accounted /\ Kept /\ TipsFit /\ FullUnlessSpent

----------------------------------------------------------------------------
(* Numbers.                                                                *)
LEMMA NetIs == \A a \in Nat : Net(a) \in Nat /\ Net(a) <= a
BY DEF Net

LEMMA Zero == Net(0) = 0
BY DEF Net

LEMMA Basics ==
    /\ Absent \notin TipUsers /\ Absent \notin Posts /\ Absent \notin TipIds /\ IsFiniteSet(TipIds)
    /\ TipAmounts \subseteq Nat /\ Start \in [TipUsers -> Nat] /\ MaxSpends \in Nat /\ MaxTipFaults \in Nat
BY TipsAssumption

LEMMA AuthorIs == ASSUME client \in Clients, NEW x \in Posts PROVE Author(x) \in TipUsers
<1>1. client \in [author : [Posts -> TipUsers], users : SUBSET TipUsers, posts : SUBSET Posts,
                  amounts : SUBSET TipAmounts, tips : SUBSET TipIds]
  BY TipsAssumption
<1> QED
  BY <1>1 DEF Author

LEMMA NewReqType ==
    ASSUME NEW op \in {"none", "tip", "delete"}, NEW pc \in Pc, NEW u \in TipUsers \cup {Absent},
           NEW x \in Posts \cup {Absent}, NEW t \in TipIds \cup {Absent}, NEW a \in Nat
    PROVE  NewReq(op, pc, u, x, t, a) \in Req
BY DEF NewReq, Req

LEMMA NoReqType == NoReq \in Req
BY NewReqType DEF NoReq, Pc

LEMMA AdjustedIs ==
    ASSUME NEW r \in Req, NEW u \in TipUsers, NEW by \in Int, NEW q, q = Adjusted(r, u, by)
    PROVE  /\ q \in Req /\ q.locks = r.locks \cup {u}
           /\ q.change[u] = r.change[u] + by /\ \A v \in TipUsers \ {u} : q.change[v] = r.change[v]
           /\ q.op = r.op /\ q.pc = r.pc /\ q.user = r.user /\ q.post = r.post /\ q.tip = r.tip
           /\ q.amount = r.amount /\ q.todo = r.todo /\ q.listed = r.listed /\ q.seen = r.seen
           /\ q.back = r.back
<1>1. r.change \in [TipUsers -> Int] /\ r.locks \in SUBSET TipUsers
  BY DEF Req
<1>2. q = [r EXCEPT !.change = [r.change EXCEPT ![u] = @ + by], !.locks = r.locks \cup {u}]
  BY DEF Adjusted
<1>3. [r.change EXCEPT ![u] = @ + by] \in [TipUsers -> Int]
  BY <1>1
<1>5. r.locks \cup {u} \in SUBSET TipUsers
  BY <1>1
<1>6. q \in Req
  BY <1>2, <1>3, <1>5 DEF Req
<1>4. /\ q.change = [r.change EXCEPT ![u] = @ + by] /\ q.locks = r.locks \cup {u}
      /\ q.op = r.op /\ q.pc = r.pc /\ q.user = r.user /\ q.post = r.post /\ q.tip = r.tip
      /\ q.amount = r.amount /\ q.todo = r.todo /\ q.listed = r.listed /\ q.seen = r.seen
      /\ q.back = r.back
  BY <1>2 DEF Req
<1> QED
  BY <1>1, <1>4, <1>6

----------------------------------------------------------------------------
(* Requests that nothing happens to.                                       *)
LEMMA GoodKept ==
    ASSUME UNCHANGED <<ledger, client>>, NEW r
    PROVE  /\ FitReq(r)' <=> FitReq(r)
           /\ Backed(r)' <=> Backed(r)
           /\ InFull(r)' <=> InFull(r)
           /\ Covered(r)' <=> Covered(r)
<1> USE DEF ledger
<1>1. \A x : Author(x)' = Author(x) /\ PaidOn(x)' = PaidOn(x)
  BY DEF Author, PaidOn
<1>2. \A t : NetOf(t)' = NetOf(t)
  BY DEF NetOf
<1>3. FitReq(r)' <=> FitReq(r)
  BY <1>1, <1>2 DEF FitReq
<1>4. \A u : Untouched(u)' <=> Untouched(u)
  BY DEF Untouched, GivenBy, Tipped
<1>5. InFull(r)' <=> InFull(r)
  BY <1>1, <1>2, <1>4 DEF InFull
<1>6. Covered(r)' <=> Covered(r)
  BY DEF Covered
<1>7. \A u : ChangeOf(r, u)' = ChangeOf(r, u)
  BY DEF ChangeOf, Refunds, Given, Debit, Credit, AtHand, Author
<1>8. Backed(r)' <=> Backed(r)
  BY <1>7 DEF Backed
<1> QED
  BY <1>3, <1>5, <1>6, <1>8

LEMMA LedgerKept ==
    ASSUME UNCHANGED <<ledger, client>>, IInv
    PROVE  Accounted' /\ Kept' /\ TipsFit' /\ FullUnlessSpent'
<1> USE DEF ledger
<1>1. Accounted'
  BY DEF Accounted, Flow, FlowOf, Author, IInv
<1>2. Kept'
  BY DEF Kept, Earned, PaidFor, NetOf, IInv
<1>3. TipsFit'
  BY DEF TipsFit, FitTip, IInv
<1>4. FullUnlessSpent'
  BY DEF FullUnlessSpent, GivenBy, Tipped, NetOf, Author, IInv
<1> QED
  BY <1>1, <1>2, <1>3, <1>4

(* A step of one request that writes nothing yet.                          *)
Apart(p, q) ==
    \A o \in TipHandlers \ {p} :
        /\ q.locks \cap req[o].locks = {}
        /\ q.pc \notin {"idle", "lock"} => ~HoldsPost(o, q.post)
        /\ q.op = "tip" /\ req[o].op = "tip" => q.tip # req[o].tip

LEMMA Quiet ==
    ASSUME IInv, UNCHANGED <<ledger, client>>, spends' \in Nat, tipsFaults' \in Nat,
           NEW p \in TipHandlers, NEW q \in Req, req' = [req EXCEPT ![p] = q],
           Good(q), Apart(p, q)
    PROVE  IInv'
<1>0. TipsTypeOK /\ OneTip /\ LocksHeld /\ \A o \in TipHandlers : Good(req[o])
  BY DEF IInv
<1>1. req'[p] = q /\ \A o \in TipHandlers \ {p} : req'[o] = req[o]
  BY <1>0 DEF TipsTypeOK
<1>2. TipsTypeOK'
  BY <1>0 DEF TipsTypeOK, ledger
<1>3. ASSUME NEW o \in TipHandlers PROVE Good(req[o])'
  <2>1. PICK r : r = req'[o]
    OBVIOUS
  <2>2. Good(r)
    BY <1>0, <1>1, <2>1
  <2>3. Good(r)'
    BY <2>2, GoodKept DEF Good
  <2> QED
    BY <2>1, <2>3
<1>4. OneTip'
  BY <1>0, <1>1 DEF OneTip, Apart
<1>5. LocksHeld'
  BY <1>0, <1>1 DEF LocksHeld, HoldsPost, Apart
<1> QED
  BY <1>2, <1>3, <1>4, <1>5, LedgerKept DEF IInv

(* A transaction that is over, or rolled back.                             *)
LEMMA NoReqGood ==
    ASSUME TipsTypeOK, NEW p \in TipHandlers PROVE Good(NoReq) /\ Apart(p, NoReq)
<1>1. PICK q \in Req : q = NoReq
  BY NoReqType
<1>2. /\ q.op = "none" /\ q.pc = "idle" /\ q.tip = Absent /\ q.locks = {}
      /\ \A u \in TipUsers : q.change[u] = 0
  BY <1>1 DEF NoReq, NewReq
<1>3. FitReq(q)
  BY <1>2 DEF FitReq, Refunding
<1>4. Backed(q)
  BY <1>2 DEF Backed, ChangeOf
<1>5. InFull(q)
  BY <1>2 DEF InFull, Refunding
<1>6. Covered(q)
  BY <1>2 DEF Covered, TipsTypeOK
<1>7. Apart(p, q)
  BY <1>2 DEF Apart
<1> QED
  BY <1>1, <1>3, <1>4, <1>5, <1>6, <1>7 DEF Good

LEMMA DoneGood ==
    ASSUME IInv, UNCHANGED <<ledger, client>>, spends' \in Nat, tipsFaults' \in Nat,
           NEW p \in TipHandlers, Done(p)
    PROVE  IInv'
<1>1. TipsTypeOK
  BY DEF IInv
<1>2. req' = [req EXCEPT ![p] = NoReq]
  BY DEF Done
<1> QED
  BY <1>1, <1>2, NoReqGood, NoReqType, Quiet

LEMMA Others ==
    ASSUME IInv, NEW p \in TipHandlers
    PROVE  Good(req[p]) /\ Apart(p, req[p]) /\ req[p] \in Req /\ TipsTypeOK /\ client \in Clients
<1>1. OneTip /\ LocksHeld /\ TipsTypeOK /\ Good(req[p]) /\ req[p] \in Req
  BY DEF IInv, TipsTypeOK
<1>2. FitReq(req[p])
  BY <1>1 DEF Good
<1>3. Apart(p, req[p])
  BY <1>1, <1>2 DEF Apart, OneTip, LocksHeld, HoldsPost, FitReq
<1> QED
  BY <1>1, <1>3 DEF TipsTypeOK

(* A transaction that waits has moved nothing.                             *)
LEMMA UnchangedGood ==
    ASSUME TipsTypeOK, NEW r \in Req, \A u \in TipUsers : r.change[u] = 0
    PROVE  /\ Covered(r)
           /\ r.pc \in {"idle", "lock", "charge"} => Backed(r)
BY DEF Covered, TipsTypeOK, Backed, ChangeOf

LEMMA AskGood ==
    ASSUME IInv, NEW p \in TipHandlers, NEW u \in TipUsers,
           \E x \in Posts :
             \/ AskDelete(p, u, x)
             \/ \E a \in TipAmounts, t \in TipIds : AskTip(p, u, x, a, t)
    PROVE  IInv'
<1>0. TipsTypeOK
  BY DEF IInv
<1>1. ASSUME NEW x \in Posts, NEW op \in {"tip", "delete"}, NEW t \in TipIds \cup {Absent}, NEW a \in Nat,
             req' = [req EXCEPT ![p] = NewReq(op, "lock", u, x, t, a)],
             UNCHANGED <<ledger, client, spends, tipsFaults>>,
             op = "tip" => t \in TipIds /\ tip[t].state = "none" /\ \A o \in TipHandlers : req[o].tip # t,
             op = "delete" => t = Absent
      PROVE  IInv'
  <2>1. PICK q \in Req : q = NewReq(op, "lock", u, x, t, a)
    BY NewReqType DEF Pc
  <2>2. /\ q.op = op /\ q.pc = "lock" /\ q.user = u /\ q.post = x /\ q.tip = t /\ q.locks = {}
        /\ \A v \in TipUsers : q.change[v] = 0
        /\ \A s \in TipIds : q.back[s] = 0
    BY <2>1 DEF NewReq
  <2>3. FitReq(q)
    BY <1>1, <2>2 DEF FitReq, Refunding
  <2>4. Backed(q) /\ Covered(q)
    BY <1>0, <2>2, UnchangedGood
  <2>5. InFull(q)
    BY <2>2 DEF InFull, Refunding
  <2>6. Apart(p, q)
    BY <1>1, <2>2 DEF Apart
  <2> QED
    BY <1>0, <1>1, <2>1, <2>3, <2>4, <2>5, <2>6, Quiet DEF Good, TipsTypeOK
<1>2. ASSUME NEW x \in Posts, AskDelete(p, u, x) PROVE IInv'
  BY <1>1, <1>2 DEF AskDelete
<1>3. ASSUME NEW x \in Posts, NEW a \in TipAmounts, NEW t \in TipIds, AskTip(p, u, x, a, t) PROVE IInv'
  <2>1. a \in Nat
    BY Basics
  <2>2. /\ req' = [req EXCEPT ![p] = NewReq("tip", "lock", u, x, t, a)]
        /\ UNCHANGED <<ledger, client, spends, tipsFaults>>
        /\ tip[t].state = "none" /\ \A o \in TipHandlers : req[o].tip # t
    BY <1>3 DEF AskTip, FreshTip
  <2> QED
    BY <1>1, <2>1, <2>2
<1> QED
  BY <1>2, <1>3

LEMMA LockPostGood ==
    ASSUME IInv, NEW p \in TipHandlers, LockPost(p)
    PROVE  IInv'
<1>0. UNCHANGED <<ledger, client, spends, tipsFaults>> /\ TipsTypeOK /\ spends \in Nat /\ tipsFaults \in Nat
  BY DEF LockPost, IInv, TipsTypeOK
<1>1. PICK r \in Req : r = req[p] /\ Good(r) /\ Apart(p, r)
  BY Others
<1>2. /\ r.pc = "lock" /\ FitReq(r) /\ Backed(r) /\ Covered(r)
  BY <1>1 DEF LockPost, Good
<1>3. \A u \in TipUsers : r.change[u] = 0
  BY <1>2 DEF Backed, ChangeOf
<1>4. \A o \in TipHandlers \ {p} : ~HoldsPost(o, r.post)
  BY <1>1 DEF LockPost, MayLock
<1>5. CASE Done(p)
  BY <1>0, <1>5, DoneGood
<1>6. CASE r.op = "tip" /\ Go(p, "charge")
  <2>1. PICK q \in Req : q = [r EXCEPT !.pc = "charge"]
    BY DEF Req, Pc
  <2>2. /\ q.op = "tip" /\ q.pc = "charge" /\ q.user = r.user /\ q.post = r.post /\ q.tip = r.tip
        /\ q.locks = r.locks /\ q.change = r.change /\ q.back = r.back
    BY <2>1, <1>6 DEF Req
  <2>3. FitReq(q)
    BY <1>2, <1>6, <2>2 DEF FitReq, Refunding
  <2>4. Backed(q) /\ Covered(q)
    BY <1>0, <1>3, <2>2, UnchangedGood
  <2>5. InFull(q)
    BY <2>2 DEF InFull, Refunding
  <2>6. Apart(p, q)
    BY <1>1, <1>4, <1>6, <2>2 DEF Apart
  <2>7. req' = [req EXCEPT ![p] = q]
    BY <1>1, <1>6, <2>1 DEF Go
  <2> QED
    BY <1>0, <2>3, <2>4, <2>5, <2>6, <2>7, Quiet DEF Good
<1>7. CASE /\ r.op # "tip"
           /\ req' = [req EXCEPT ![p].pc = "refund", ![p].todo = PaidOn(r.post), ![p].listed = PaidOn(r.post)]
  <2>1. PICK q \in Req : q = [r EXCEPT !.pc = "refund", !.todo = PaidOn(r.post), !.listed = PaidOn(r.post)]
    BY DEF Req, Pc, PaidOn
  <2>2. /\ q.op = r.op /\ q.pc = "refund" /\ q.user = r.user /\ q.post = r.post /\ q.tip = r.tip
        /\ q.locks = r.locks /\ q.change = r.change /\ q.back = r.back
        /\ q.todo = PaidOn(r.post) /\ q.listed = PaidOn(r.post)
    BY <2>1 DEF Req
  <2>3. FitReq(q)
    <3>1. \A t \in TipIds : 0 <= NetOf(t)
      BY <1>0, NetIs DEF NetOf, TipsTypeOK, Tip
    <3>2. q.op = "delete" /\ q.tip = Absent /\ \A t \in TipIds : q.back[t] = 0
      BY <1>2, <1>7, <2>2 DEF FitReq
    <3> QED
      BY <1>2, <2>2, <3>1, <3>2 DEF FitReq, Refunding
  <2>4. Backed(q)
    <3>1. ASSUME NEW u \in TipUsers PROVE Refunds(q, u) = 0
      <4>1. \A t \in TipIds : Given(q, u)[t] = 0
        BY <1>2, <2>2 DEF Given, FitReq
      <4> QED
        BY <4>1, SumZero, Basics DEF Refunds
    <3> QED
      BY <1>3, <2>2, <3>1 DEF Backed, ChangeOf
  <2>5. InFull(q)
    BY <2>2 DEF InFull
  <2>6. Apart(p, q)
    BY <1>1, <1>4, <1>7, <2>2 DEF Apart
  <2>7. req' = [req EXCEPT ![p] = q]
    BY <1>1, <1>7, <2>1
  <2>8. Covered(q)
    BY <1>2, <2>2 DEF Covered
  <2> QED
    BY <1>0, <2>3, <2>4, <2>5, <2>6, <2>7, <2>8, Quiet DEF Good
<1> QED
  BY <1>1, <1>5, <1>6, <1>7 DEF LockPost, PaidOn

----------------------------------------------------------------------------
(* The two sides of a tip.                                                 *)
LEMMA ApartKept ==
    ASSUME NEW p \in TipHandlers, NEW r, NEW q, Apart(p, r),
           r.pc \notin {"idle", "lock"}, q.post = r.post, q.op = r.op, q.tip = r.tip \/ q.op # "tip",
           NEW u, q.locks = r.locks \cup {u} \/ q.locks = r.locks, WalletFree(p, u) \/ q.locks = r.locks
    PROVE  Apart(p, q)
BY DEF Apart, WalletFree

LEMMA ChargeGood ==
    ASSUME IInv, NEW p \in TipHandlers, ChargeTipper(p)
    PROVE  IInv'
<1>0. UNCHANGED <<ledger, client, spends, tipsFaults>> /\ TipsTypeOK /\ spends \in Nat /\ tipsFaults \in Nat
  BY DEF ChargeTipper, IInv, TipsTypeOK
<1>1. PICK r \in Req : r = req[p] /\ Good(r) /\ Apart(p, r)
  BY Others
<1>2. /\ r.pc = "charge" /\ FitReq(r) /\ Backed(r) /\ Covered(r) /\ WalletFree(p, r.user)
      /\ r.user \in TipUsers /\ r.op = "tip" /\ r.amount \in Nat /\ r.change \in [TipUsers -> Int]
      /\ bal \in [TipUsers -> Nat]
  BY <1>0, <1>1 DEF ChargeTipper, Good, FitReq, Req, TipsTypeOK
<1>3. \A u \in TipUsers : r.change[u] = 0
  BY <1>2 DEF Backed, ChangeOf
<1>4. CASE Done(p)
  BY <1>0, <1>4, DoneGood
<1>5. CASE /\ TipsCovers(Own(p, r.user), r.amount)
           /\ req' = [req EXCEPT ![p] = [Adjusted(r, r.user, -r.amount) EXCEPT !.pc = "credit"]]
  <2>1. PICK w \in Req : /\ w = Adjusted(r, r.user, -r.amount) /\ w.locks = r.locks \cup {r.user}
                         /\ w.change[r.user] = r.change[r.user] - r.amount
                         /\ \A v \in TipUsers \ {r.user} : w.change[v] = r.change[v]
                         /\ w.op = r.op /\ w.user = r.user /\ w.post = r.post /\ w.tip = r.tip
                         /\ w.amount = r.amount
    <3>1. PICK by \in Int : by = -r.amount
      BY <1>2
    <3>2. PICK u \in TipUsers : u = r.user
      BY <1>2
    <3>3. PICK w : w = Adjusted(r, u, by)
      OBVIOUS
    <3>4. /\ w \in Req /\ w.locks = r.locks \cup {u} /\ w.change[u] = r.change[u] + by
          /\ \A v \in TipUsers \ {u} : w.change[v] = r.change[v]
          /\ w.op = r.op /\ w.user = r.user /\ w.post = r.post /\ w.tip = r.tip
          /\ w.amount = r.amount
      BY <3>3, AdjustedIs
    <3>5. w.change[r.user] = r.change[r.user] - r.amount
      BY <1>2, <3>1, <3>2, <3>4
    <3> QED
      BY <3>1, <3>2, <3>3, <3>4, <3>5
  <2>2. PICK q \in Req : q = [w EXCEPT !.pc = "credit"]
    BY DEF Req, Pc
  <2>3. /\ q.op = "tip" /\ q.pc = "credit" /\ q.user = r.user /\ q.post = r.post /\ q.tip = r.tip
        /\ q.amount = r.amount /\ q.locks = r.locks \cup {r.user} /\ q.change = w.change
    BY <1>2, <2>1, <2>2 DEF Req
  <2>4. FitReq(q)
    BY <1>2, <2>3 DEF FitReq, Refunding
  <2>5. Backed(q)
    <3> SUFFICES ASSUME NEW u \in TipUsers
                 PROVE  q.change[u] = -Debit(q, u) /\ (q.change[u] # 0 => u \in q.locks)
      BY <2>3 DEF Backed, ChangeOf
    <3>1. CASE u = r.user
      BY <1>2, <1>3, <2>1, <2>3, <3>1 DEF Debit
    <3>2. CASE u # r.user
      BY <1>3, <2>1, <2>3, <3>2 DEF Debit
    <3> QED
      BY <3>1, <3>2
  <2>6. Covered(q)
    <3> SUFFICES ASSUME NEW u \in TipUsers PROVE bal[u] + q.change[u] >= 0
      BY DEF Covered
    <3>1. CASE u = r.user
      BY <1>1, <1>2, <1>5, <2>1, <2>3, <3>1 DEF TipsCovers, Own
    <3>2. CASE u # r.user
      BY <1>2, <2>1, <2>3, <3>2 DEF Covered
    <3> QED
      BY <3>1, <3>2
  <2>7. InFull(q)
    BY <2>3 DEF InFull, Refunding
  <2>8. Apart(p, q)
    BY <1>1, <1>2, <2>3, ApartKept
  <2>9. req' = [req EXCEPT ![p] = q]
    BY <1>5, <2>1, <2>2
  <2> QED
    BY <1>0, <2>4, <2>5, <2>6, <2>7, <2>8, <2>9, Quiet DEF Good
<1> QED
  BY <1>1, <1>4, <1>5 DEF ChargeTipper

LEMMA CreditGood ==
    ASSUME IInv, NEW p \in TipHandlers, CreditAuthor(p)
    PROVE  IInv'
<1>0. /\ UNCHANGED <<ledger, client, spends, tipsFaults>> /\ TipsTypeOK /\ spends \in Nat /\ tipsFaults \in Nat
      /\ client \in Clients
  BY DEF CreditAuthor, IInv, TipsTypeOK
<1>1. PICK r \in Req : r = req[p] /\ Good(r) /\ Apart(p, r)
  BY Others
<1>2. /\ r.pc = "credit" /\ FitReq(r) /\ Backed(r) /\ Covered(r)
      /\ r.post \in Posts /\ r.op = "tip" /\ r.amount \in Nat /\ r.change \in [TipUsers -> Int]
      /\ bal \in [TipUsers -> Nat]
  BY <1>0, <1>1 DEF CreditAuthor, Good, FitReq, Req, TipsTypeOK
<1>3. PICK a \in TipUsers : a = Author(r.post) /\ WalletFree(p, a)
  BY <1>0, <1>1, <1>2, AuthorIs DEF CreditAuthor
<1>4. PICK n \in Nat : n = Net(r.amount)
  BY <1>2, NetIs
<1>5. PICK w \in Req : /\ w = Adjusted(r, a, n) /\ w.locks = r.locks \cup {a}
                       /\ w.change[a] = r.change[a] + n
                       /\ \A v \in TipUsers \ {a} : w.change[v] = r.change[v]
                       /\ w.op = r.op /\ w.user = r.user /\ w.post = r.post /\ w.tip = r.tip
                       /\ w.amount = r.amount
  BY AdjustedIs
<1>6. PICK q \in Req : q = [w EXCEPT !.pc = "commit"]
  BY DEF Req, Pc
<1>7. /\ q.op = "tip" /\ q.pc = "commit" /\ q.user = r.user /\ q.post = r.post /\ q.tip = r.tip
      /\ q.amount = r.amount /\ q.locks = r.locks \cup {a} /\ q.change = w.change
  BY <1>2, <1>5, <1>6 DEF Req
<1>8. FitReq(q)
  BY <1>2, <1>7 DEF FitReq, Refunding
<1>9. Backed(q)
  <2> SUFFICES ASSUME NEW u \in TipUsers
               PROVE  q.change[u] = Credit(q, u) - Debit(q, u) /\ (q.change[u] # 0 => u \in q.locks)
    BY <1>7 DEF Backed, ChangeOf
  <2>1. r.change[u] = -Debit(r, u) /\ (r.change[u] # 0 => u \in r.locks)
    BY <1>2 DEF Backed, ChangeOf
  <2>2. Debit(q, u) = Debit(r, u) /\ Debit(r, u) \in Int
    BY <1>2, <1>7 DEF Debit
  <2>3. Credit(q, u) = IF a = u THEN n ELSE 0
    BY <1>3, <1>4, <1>7 DEF Credit
  <2> QED
    BY <1>5, <1>7, <2>1, <2>2, <2>3
<1>10. Covered(q)
  BY <1>2, <1>5, <1>7 DEF Covered
<1>11. InFull(q)
  BY <1>7 DEF InFull, Refunding
<1>12. Apart(p, q)
  BY <1>1, <1>2, <1>3, <1>7, ApartKept
<1>13. req' = [req EXCEPT ![p] = q]
  BY <1>1, <1>3, <1>4, <1>5, <1>6 DEF CreditAuthor
<1> QED
  BY <1>0, <1>8, <1>9, <1>10, <1>11, <1>12, <1>13, Quiet DEF Good

----------------------------------------------------------------------------
(* The refunds.                                                            *)
LEMMA Rows ==
    ASSUME TipsTypeOK, NEW t \in TipIds
    PROVE  /\ tip[t] \in Tip /\ tip[t].amount \in Nat /\ tip[t].back \in Nat
           /\ NetOf(t) \in Nat /\ NetOf(t) <= tip[t].amount /\ NetOf(t) = Net(tip[t].amount)
BY NetIs DEF TipsTypeOK, Tip, NetOf

LEMMA FlowType ==
    ASSUME TipsTypeOK, NEW u, NEW t \in TipIds
    PROVE  /\ Flow(u)[t] \in Int /\ Flow(u)[t] = FlowOf(tip[t], u)
           /\ Flow(u)[t] = IF tip[t].state = "none" THEN 0
                           ELSE (IF Author(tip[t].post) = u THEN NetOf(t) - tip[t].back ELSE 0)
                                  - (IF tip[t].giver = u THEN tip[t].amount - tip[t].back ELSE 0)
<1>1. tip[t].amount \in Nat /\ tip[t].back \in Nat /\ NetOf(t) \in Nat /\ NetOf(t) = Net(tip[t].amount)
  BY Rows
<1> QED
  BY <1>1 DEF Flow, FlowOf

LEMMA GivenType ==
    ASSUME NEW r \in Req, NEW u, NEW t \in TipIds
    PROVE  /\ Given(r, u)[t] \in Int
           /\ Given(r, u)[t] = (IF tip[t].giver = u THEN r.back[t] ELSE 0)
                                 - (IF Author(r.post) = u THEN r.back[t] ELSE 0)
BY DEF Given, Req

(* An author who has paid for nothing else can give back all that is left. *)
LEMMA OwnCovers ==
    ASSUME IInv, NEW p \in TipHandlers, NEW r \in Req, r = req[p], r.pc = "refund",
           NEW a \in TipUsers, a = Author(r.post), Untouched(a), NEW t \in r.todo
    PROVE  bal[a] + r.change[a] >= NetOf(t)
<1>1. /\ TipsTypeOK /\ Accounted /\ TipsFit /\ FitReq(r) /\ Backed(r) /\ Start[a] \in Nat
      /\ bal[a] \in Nat /\ spent[a] = 0 /\ GivenBy(a) = {} /\ IsFiniteSet(TipIds)
  BY Basics DEF IInv, Good, Untouched, TipsTypeOK
<1>2. /\ t \in TipIds /\ tip[t].state = "paid" /\ tip[t].post = r.post /\ r.back[t] = 0
      /\ tip[t].back = 0
  <2>1. t \in TipIds /\ tip[t].state = "paid" /\ tip[t].post = r.post /\ ~(r.back[t] > 0)
    BY <1>1 DEF FitReq, Refunding, PaidOn
  <2>2. ~(tip[t].back > 0)
    BY <1>1, <2>1 DEF TipsFit, FitTip
  <2>3. r.back[t] \in Nat /\ tip[t].back \in Nat
    BY <1>1, <2>1, Rows DEF Req
  <2> QED
    BY <2>1, <2>2, <2>3
<1> DEFINE h == [s \in TipIds |-> Flow(a)[s] + Given(r, a)[s]]
<1>3. ASSUME NEW s \in TipIds PROVE h[s] \in Nat
  <2>0. /\ h[s] = Flow(a)[s] + Given(r, a)[s]
        /\ r.back[s] \in Nat /\ tip[s].back \in Nat /\ NetOf(s) \in Nat /\ NetOf(s) = Net(tip[s].amount)
    BY <1>1, Rows DEF Req
  <2>1. CASE tip[s].state = "none"
    <3>1. r.back[s] = 0
      BY <1>1, <2>0, <2>1 DEF FitReq, Refunding, PaidOn
    <3>2. Flow(a)[s] = 0
      BY <1>1, <2>1, FlowType
    <3>3. Given(r, a)[s] = 0
      BY <3>1, GivenType
    <3> QED
      BY <2>0, <3>2, <3>3
  <2>2. CASE tip[s].state # "none"
    <3>1. tip[s].giver # a
      BY <1>1, <2>2 DEF GivenBy, Tipped
    <3>2. Flow(a)[s] = IF Author(tip[s].post) = a THEN NetOf(s) - tip[s].back ELSE 0
      BY <1>1, <2>0, <2>2, <3>1, FlowType
    <3>3. Given(r, a)[s] = - r.back[s]
      BY <2>0, <3>1, GivenType
    <3>4. tip[s].back <= NetOf(s) /\ (tip[s].back > 0 => tip[s].state = "refunded")
      BY <1>1, <2>0 DEF TipsFit, FitTip
    <3>5. CASE r.back[s] > 0
      <4>1. tip[s].state = "paid" /\ tip[s].post = r.post /\ r.back[s] <= NetOf(s)
        BY <1>1, <3>5 DEF FitReq, Refunding, PaidOn
      <4> QED
        BY <2>0, <3>2, <3>3, <3>4, <4>1
    <3>6. CASE r.back[s] = 0
      BY <2>0, <3>2, <3>3, <3>4, <3>6
    <3> QED
      BY <2>0, <3>5, <3>6
  <2> QED
    BY <2>1, <2>2
<1>4. h[t] = NetOf(t)
  <2>1. tip[t].giver # a
    BY <1>1, <1>2 DEF GivenBy, Tipped
  <2>2. Flow(a)[t] = NetOf(t) - 0 - 0
    BY <1>1, <1>2, <2>1, FlowType
  <2>3. Given(r, a)[t] = 0
    BY <1>2, GivenType
  <2>4. NetOf(t) \in Nat /\ h[t] = Flow(a)[t] + Given(r, a)[t]
    BY <1>1, <1>2, Rows
  <2> QED
    BY <2>2, <2>3, <2>4
<1>5. h[t] <= SumFunctionOnSet(h, TipIds)
  <2> HIDE DEF h
  <2> QED
    BY <1>1, <1>2, <1>3, SumNat
<1>6. SumFunctionOnSet(h, TipIds) = SumFunctionOnSet(Flow(a), TipIds) + SumFunctionOnSet(Given(r, a), TipIds)
  <2>1. \A s \in TipIds : Flow(a)[s] \in Int /\ Given(r, a)[s] \in Int /\ h[s] = Flow(a)[s] + Given(r, a)[s]
    BY <1>1, FlowType, GivenType
  <2> HIDE DEF h
  <2> QED
    BY <1>1, <2>1, SumPlus
<1>7. bal[a] = Start[a] + SumFunctionOnSet(Flow(a), TipIds)
  BY <1>1 DEF Accounted
<1>8. r.change[a] = SumFunctionOnSet(Given(r, a), TipIds)
  BY <1>1 DEF Backed, ChangeOf, Refunds
<1>9. SumFunctionOnSet(Flow(a), TipIds) \in Int /\ SumFunctionOnSet(Given(r, a), TipIds) \in Int
  BY <1>1, FlowType, GivenType, SumInt
<1>10. NetOf(t) \in Nat
  BY <1>1, <1>2, Rows
<1> HIDE DEF h
<1> QED
  BY <1>1, <1>4, <1>5, <1>6, <1>7, <1>8, <1>9, <1>10

(* What a request that refunds keeps, whatever tip it looks at.            *)
Carries(r, q) ==
    /\ q.op = r.op /\ q.user = r.user /\ q.post = r.post /\ q.listed = r.listed

LEMMA RefundsSame ==
    ASSUME NEW r, NEW q, q.post = r.post, q.back = r.back, NEW u
    PROVE  Refunds(q, u) = Refunds(r, u) /\ (q.seen = r.seen => AtHand(q, u) = AtHand(r, u))
BY DEF Refunds, Given, AtHand

LEMMA ReadGood ==
    ASSUME IInv, NEW p \in TipHandlers, NEW t \in TipIds, ReadAuthorBalance(p, t)
    PROVE  IInv'
<1>0. /\ UNCHANGED <<ledger, client, spends, tipsFaults>> /\ TipsTypeOK /\ spends \in Nat /\ tipsFaults \in Nat
      /\ client \in Clients
  BY DEF ReadAuthorBalance, IInv, TipsTypeOK
<1>1. PICK r \in Req : r = req[p] /\ Good(r) /\ Apart(p, r)
  BY Others
<1>2. /\ r.pc = "refund" /\ FitReq(r) /\ Backed(r) /\ Covered(r) /\ InFull(r)
      /\ r.post \in Posts /\ r.op = "delete" /\ r.change \in [TipUsers -> Int]
      /\ bal \in [TipUsers -> Nat] /\ t \in r.todo /\ r.todo \in SUBSET TipIds
      /\ r.tip = Absent /\ r.back[t] = 0 /\ r.back \in [TipIds -> Nat]
  <2>1. r.pc = "refund" /\ FitReq(r) /\ Backed(r) /\ Covered(r) /\ InFull(r) /\ t \in r.todo
    BY <1>1 DEF ReadAuthorBalance, Good
  <2>2. r.op = "delete" /\ r.post \in Posts /\ r.tip = Absent /\ ~(r.back[t] > 0)
    BY <2>1 DEF FitReq, Refunding
  <2>3. r.back \in [TipIds -> Nat] /\ r.change \in [TipUsers -> Int] /\ r.todo \in SUBSET TipIds
    BY DEF Req
  <2> QED
    BY <1>0, <2>1, <2>2, <2>3 DEF TipsTypeOK
<1>3. PICK a \in TipUsers : a = Author(r.post)
  BY <1>0, <1>2, AuthorIs
<1>4. PICK n \in Int : n = Refund(NetOf(t), Own(p, a)) /\ n <= NetOf(t)
  <2>1. NetOf(t) \in Nat /\ Own(p, a) \in Int
    BY <1>0, <1>1, <1>2, Rows DEF Own
  <2>2. Refund(NetOf(t), Own(p, a)) \in Int /\ Refund(NetOf(t), Own(p, a)) <= NetOf(t)
    BY <2>1 DEF Refund
  <2> QED
    BY <2>2
<1>5. Untouched(a) => n = NetOf(t)
  <2> SUFFICES ASSUME Untouched(a) PROVE n = NetOf(t)
    OBVIOUS
  <2>1. Own(p, a) >= NetOf(t)
    BY <1>1, <1>2, <1>3, OwnCovers DEF Own
  <2>2. NetOf(t) \in Nat /\ Own(p, a) \in Int
    BY <1>0, <1>1, <1>2, Rows DEF Own
  <2> QED
    BY <1>4, <2>1, <2>2 DEF Refund
<1>6. CASE n <= 0
  <2>1. PICK q \in Req : q = [r EXCEPT !.todo = @ \ {t}]
    BY <1>2 DEF Req
  <2>2. /\ Carries(r, q) /\ q.pc = "refund" /\ q.tip = r.tip
        /\ q.locks = r.locks /\ q.change = r.change /\ q.back = r.back /\ q.todo = r.todo \ {t}
    BY <1>2, <2>1 DEF Req, Carries
  <2>3. FitReq(q)
    BY <1>2, <2>2 DEF FitReq, Refunding, Carries
  <2>4. Backed(q)
    BY <1>2, <2>2, RefundsSame DEF Backed, ChangeOf, Carries
  <2>5. InFull(q)
    <3> SUFFICES ASSUME Untouched(a), NEW s \in r.listed \ (r.todo \ {t})
                 PROVE  q.back[s] = NetOf(s)
      BY <1>3, <2>2 DEF InFull, Carries
    <3>1. CASE s = t
      <4>1. NetOf(t) \in Nat
        BY <1>0, Rows
      <4> QED
        BY <1>2, <1>5, <1>6, <2>2, <3>1, <4>1
    <3>2. CASE s # t
      BY <1>2, <1>3, <2>2, <3>2 DEF InFull, Refunding
    <3> QED
      BY <3>1, <3>2
  <2>6. Apart(p, q)
    BY <1>1, <1>2, <2>2, ApartKept DEF Carries
  <2>7. Covered(q)
    BY <1>2, <2>2 DEF Covered
  <2>8. req' = [req EXCEPT ![p] = q]
    BY <1>1, <1>3, <1>4, <1>6, <2>1 DEF ReadAuthorBalance
  <2> QED
    BY <1>0, <2>3, <2>4, <2>5, <2>6, <2>7, <2>8, Quiet DEF Good
<1>7. CASE ~(n <= 0)
  <2>1. PICK q \in Req : q = [r EXCEPT !.pc = "debit", !.tip = t, !.seen = n]
    <3>1. n \in Nat /\ t \in TipIds \cup {Absent} /\ "debit" \in Pc
      BY <1>4, <1>7 DEF Pc
    <3> QED
      BY <3>1 DEF Req
  <2>2. /\ Carries(r, q) /\ q.pc = "debit" /\ q.tip = t /\ q.seen = n
        /\ q.locks = r.locks /\ q.change = r.change /\ q.back = r.back /\ q.todo = r.todo
    BY <1>2, <2>1 DEF Req, Carries
  <2>3. FitReq(q)
    BY <1>2, <1>4, <1>7, <2>2 DEF FitReq, Refunding, Carries
  <2>4. Backed(q)
    BY <1>2, <2>2, RefundsSame DEF Backed, ChangeOf, Carries
  <2>5. InFull(q)
    BY <1>2, <1>3, <1>5, <2>2 DEF InFull, Refunding, Carries
  <2>6. Apart(p, q)
    BY <1>1, <1>2, <2>2, ApartKept DEF Carries
  <2>7. Covered(q)
    BY <1>2, <2>2 DEF Covered
  <2>8. req' = [req EXCEPT ![p] = q]
    BY <1>1, <1>3, <1>4, <1>7, <2>1 DEF ReadAuthorBalance
  <2> QED
    BY <1>0, <2>3, <2>4, <2>5, <2>6, <2>7, <2>8, Quiet DEF Good
<1> QED
  BY <1>6, <1>7

LEMMA DebitGood ==
    ASSUME IInv, NEW p \in TipHandlers, DebitAuthor(p)
    PROVE  IInv'
<1>0. /\ UNCHANGED <<ledger, client, spends, tipsFaults>> /\ TipsTypeOK /\ spends \in Nat /\ tipsFaults \in Nat
      /\ client \in Clients
  BY DEF DebitAuthor, IInv, TipsTypeOK
<1>1. PICK r \in Req : r = req[p] /\ Good(r) /\ Apart(p, r)
  BY Others
<1>2. /\ r.pc = "debit" /\ FitReq(r) /\ Backed(r) /\ Covered(r) /\ InFull(r)
      /\ r.post \in Posts /\ r.op = "delete" /\ r.change \in [TipUsers -> Int]
      /\ bal \in [TipUsers -> Nat] /\ r.seen \in Nat
  BY <1>0, <1>1 DEF DebitAuthor, Good, FitReq, Refunding, Req, TipsTypeOK
<1>3. PICK a \in TipUsers : a = Author(r.post) /\ WalletFree(p, a)
  BY <1>0, <1>1, <1>2, AuthorIs DEF DebitAuthor
<1>4. CASE Done(p)
  BY <1>0, <1>4, DoneGood
<1>5. CASE /\ TipsCovers(Own(p, a), r.seen)
           /\ req' = [req EXCEPT ![p] = [Adjusted(r, a, -r.seen) EXCEPT !.pc = "repay"]]
  <2>1. PICK by \in Int : by = -r.seen
    BY <1>2
  <2>2. PICK w \in Req : /\ w = Adjusted(r, a, by) /\ w.locks = r.locks \cup {a}
                         /\ w.change[a] = r.change[a] + by
                         /\ \A v \in TipUsers \ {a} : w.change[v] = r.change[v]
                         /\ w.op = r.op /\ w.user = r.user /\ w.post = r.post /\ w.tip = r.tip
                         /\ w.todo = r.todo /\ w.listed = r.listed /\ w.seen = r.seen
                         /\ w.back = r.back
    BY AdjustedIs
  <2>3. PICK q \in Req : q = [w EXCEPT !.pc = "repay"]
    BY DEF Req, Pc
  <2>4. /\ Carries(r, q) /\ q.pc = "repay" /\ q.tip = r.tip /\ q.seen = r.seen
        /\ q.locks = r.locks \cup {a} /\ q.change = w.change /\ q.back = r.back /\ q.todo = r.todo
    BY <2>2, <2>3 DEF Req, Carries
  <2>5. FitReq(q)
    BY <1>2, <2>4 DEF FitReq, Refunding, Carries
  <2>6. Backed(q)
    <3> SUFFICES ASSUME NEW u \in TipUsers
                 PROVE  /\ q.change[u] = Refunds(q, u) - AtHand(q, u)
                        /\ q.change[u] # 0 => u \in q.locks
      BY <2>4 DEF Backed, ChangeOf
    <3>1. r.change[u] = Refunds(r, u) /\ (r.change[u] # 0 => u \in r.locks) /\ r.change[u] \in Int
      BY <1>2 DEF Backed, ChangeOf
    <3>2. Refunds(q, u) = Refunds(r, u)
      BY <2>4, RefundsSame DEF Carries
    <3>3. AtHand(q, u) = IF a = u THEN r.seen ELSE 0
      BY <1>3, <2>4 DEF AtHand, Carries
    <3> QED
      BY <1>2, <2>1, <2>2, <2>4, <3>1, <3>2, <3>3
  <2>7. Covered(q)
    <3> SUFFICES ASSUME NEW u \in TipUsers PROVE bal[u] + q.change[u] >= 0
      BY DEF Covered
    <3>1. CASE u = a
      BY <1>1, <1>2, <1>5, <2>1, <2>2, <2>4, <3>1 DEF TipsCovers, Own
    <3>2. CASE u # a
      BY <1>2, <2>2, <2>4, <3>2 DEF Covered
    <3> QED
      BY <3>1, <3>2
  <2>8. InFull(q)
    BY <1>2, <2>4 DEF InFull, Refunding, Carries
  <2>9. Apart(p, q)
    BY <1>1, <1>2, <1>3, <2>4, ApartKept DEF Carries
  <2>10. req' = [req EXCEPT ![p] = q]
    BY <1>5, <2>1, <2>2, <2>3
  <2> QED
    BY <1>0, <2>5, <2>6, <2>7, <2>8, <2>9, <2>10, Quiet DEF Good
<1> QED
  BY <1>1, <1>3, <1>4, <1>5 DEF DebitAuthor

LEMMA RepayGood ==
    ASSUME IInv, NEW p \in TipHandlers, RepayGiver(p)
    PROVE  IInv'
<1>0. /\ UNCHANGED <<ledger, client, spends, tipsFaults>> /\ TipsTypeOK /\ spends \in Nat /\ tipsFaults \in Nat
      /\ client \in Clients
  BY DEF RepayGiver, IInv, TipsTypeOK
<1>1. PICK r \in Req : r = req[p] /\ Good(r) /\ Apart(p, r)
  BY Others
<1>2. /\ r.pc = "repay" /\ FitReq(r) /\ Backed(r) /\ Covered(r) /\ InFull(r)
      /\ r.post \in Posts /\ r.op = "delete" /\ r.change \in [TipUsers -> Int]
      /\ bal \in [TipUsers -> Nat] /\ r.seen \in Nat /\ r.back \in [TipIds -> Nat]
  BY <1>0, <1>1 DEF RepayGiver, Good, FitReq, Refunding, Req, TipsTypeOK
<1>3. PICK t \in TipIds : /\ t = r.tip /\ t \in r.todo /\ t \in r.listed /\ t \in PaidOn(r.post)
                          /\ r.back[t] = 0 /\ r.seen <= NetOf(t)
  <2>1. r.tip \in r.todo /\ r.todo \subseteq r.listed /\ r.listed = PaidOn(r.post) /\ r.seen <= NetOf(r.tip)
    BY <1>2 DEF FitReq, Refunding
  <2>2. r.tip \in TipIds /\ ~(r.back[r.tip] > 0)
    BY <1>2, <2>1 DEF FitReq, Refunding, PaidOn
  <2> QED
    BY <1>2, <2>1, <2>2
<1>4. PICK g \in TipUsers : g = tip[t].giver /\ WalletFree(p, g)
  BY <1>0, <1>1, <1>3 DEF RepayGiver, TipsTypeOK, PaidOn
<1>5. PICK w \in Req : /\ w = Adjusted(r, g, r.seen) /\ w.locks = r.locks \cup {g}
                       /\ w.change[g] = r.change[g] + r.seen
                       /\ \A v \in TipUsers \ {g} : w.change[v] = r.change[v]
                       /\ w.op = r.op /\ w.user = r.user /\ w.post = r.post
                       /\ w.todo = r.todo /\ w.listed = r.listed /\ w.back = r.back
  <2>1. PICK by \in Int : by = r.seen
    BY <1>2
  <2>2. PICK w : w = Adjusted(r, g, by)
    OBVIOUS
  <2>3. /\ w \in Req /\ w.locks = r.locks \cup {g} /\ w.change[g] = r.change[g] + by
        /\ \A v \in TipUsers \ {g} : w.change[v] = r.change[v]
        /\ w.op = r.op /\ w.user = r.user /\ w.post = r.post
        /\ w.todo = r.todo /\ w.listed = r.listed /\ w.back = r.back
    BY <2>2, AdjustedIs
  <2> QED
    BY <2>1, <2>2, <2>3
<1>6. PICK q \in Req :
        q = [w EXCEPT !.pc = "refund", !.back[t] = r.seen, !.todo = @ \ {t}, !.tip = Absent]
  <2>1. [w.back EXCEPT ![t] = r.seen] \in [TipIds -> Nat] /\ w.todo \ {t} \in SUBSET TipIds
    BY <1>2, <1>5 DEF Req
  <2> QED
    BY <2>1 DEF Req, Pc
<1>7. /\ Carries(r, q) /\ q.pc = "refund" /\ q.tip = Absent
      /\ q.locks = r.locks \cup {g} /\ q.change = w.change /\ q.todo = r.todo \ {t}
      /\ q.back[t] = r.seen /\ \A s \in TipIds \ {t} : q.back[s] = r.back[s]
  BY <1>2, <1>5, <1>6 DEF Req, Carries
<1>8. FitReq(q)
  <2>1. q.todo \subseteq q.listed /\ q.listed = PaidOn(q.post)
    BY <1>2, <1>7 DEF FitReq, Refunding, Carries
  <2>2. ASSUME NEW s \in TipIds
        PROVE  q.back[s] <= NetOf(s) /\ (q.back[s] > 0 => s \in q.listed \ q.todo)
    <3>1. CASE s = t
      BY <1>3, <1>7, <3>1 DEF Carries
    <3>2. CASE s # t
      BY <1>2, <1>7, <3>2 DEF FitReq, Refunding, Carries
    <3> QED
      BY <3>1, <3>2
  <2>3. q.user \in TipUsers
    BY <1>2, <1>7 DEF FitReq, Carries
  <2> QED
    BY <1>2, <1>7, <2>1, <2>2, <2>3 DEF FitReq, Refunding, Carries
<1>9. Backed(q)
  <2> SUFFICES ASSUME NEW u \in TipUsers
               PROVE  q.change[u] = Refunds(q, u) /\ (q.change[u] # 0 => u \in q.locks)
    BY <1>7 DEF Backed, ChangeOf
  <2>1. /\ r.change[u] = Refunds(r, u) - AtHand(r, u) /\ (r.change[u] # 0 => u \in r.locks)
        /\ r.change[u] \in Int
    BY <1>2 DEF Backed, ChangeOf
  <2>2. Refunds(q, u) = Refunds(r, u) + Given(q, u)[t] - Given(r, u)[t]
    <3>1. \A s \in TipIds : Given(r, u)[s] \in Int /\ Given(q, u)[s] \in Int
      BY GivenType
    <3>2. \A s \in TipIds \ {t} : Given(r, u)[s] = Given(q, u)[s]
      BY <1>7 DEF Given, Carries
    <3> QED
      BY <3>1, <3>2, Basics, SumChange DEF Refunds
  <2>3. Given(r, u)[t] = 0
    BY <1>3, GivenType
  <2>4. Given(q, u)[t] = (IF g = u THEN r.seen ELSE 0) - AtHand(r, u)
    BY <1>4, <1>7, GivenType DEF AtHand, Carries
  <2>5. Refunds(r, u) \in Int /\ AtHand(r, u) \in Int
    BY <1>2, Basics, GivenType, SumInt DEF Refunds, AtHand
  <2> QED
    BY <1>2, <1>5, <1>7, <2>1, <2>2, <2>3, <2>4, <2>5
<1>10. Covered(q)
  BY <1>2, <1>5, <1>7 DEF Covered
<1>11. InFull(q)
  <2> SUFFICES ASSUME Untouched(Author(r.post)), NEW s \in r.listed \ (r.todo \ {t})
               PROVE  q.back[s] = NetOf(s)
    BY <1>7 DEF InFull, Carries
  <2>1. CASE s = t
    BY <1>2, <1>3, <1>7, <2>1 DEF InFull, Refunding
  <2>2. CASE s # t
    <3>1. s \in TipIds
      BY DEF Req
    <3> QED
      BY <1>2, <1>7, <2>2, <3>1 DEF InFull, Refunding
  <2> QED
    BY <2>1, <2>2
<1>12. Apart(p, q)
  BY <1>1, <1>2, <1>4, <1>7, ApartKept DEF Carries
<1>13. req' = [req EXCEPT ![p] = q]
  BY <1>1, <1>3, <1>4, <1>5, <1>6 DEF RepayGiver
<1> QED
  BY <1>0, <1>8, <1>9, <1>10, <1>11, <1>12, <1>13, Quiet DEF Good

----------------------------------------------------------------------------
(* A commit, and the other transactions.                                   *)
LEMMA DoneApart ==
    ASSUME IInv, NEW p \in TipHandlers, Done(p)
    PROVE  /\ OneTip' /\ LocksHeld' /\ req' \in [TipHandlers -> Req] /\ req'[p] = NoReq
           /\ \A o \in TipHandlers \ {p} : req'[o] = req[o]
<1>1. TipsTypeOK /\ OneTip /\ LocksHeld
  BY DEF IInv
<1>2. /\ req' \in [TipHandlers -> Req] /\ req'[p] = NoReq
      /\ \A o \in TipHandlers \ {p} : req'[o] = req[o]
  BY <1>1, NoReqType DEF Done, TipsTypeOK
<1>3. Apart(p, NoReq)
  BY <1>1, NoReqGood
<1>4. OneTip'
  BY <1>1, <1>2, <1>3 DEF OneTip, Apart
<1>5. LocksHeld'
  BY <1>1, <1>2, <1>3 DEF LocksHeld, HoldsPost, Apart
<1> QED
  BY <1>2, <1>4, <1>5

(* What the rows of the tips keep, whoever commits.                        *)
RowsKept ==
    \A s \in TipIds : tip[s].state # "none" =>
        /\ tip'[s].state # "none" /\ tip'[s].giver = tip[s].giver
        /\ tip'[s].amount = tip[s].amount /\ tip'[s].post = tip[s].post

LEMMA StillGood ==
    ASSUME TipsTypeOK, TipsTypeOK', UNCHANGED client, RowsKept, NEW r \in Req, FitReq(r), Backed(r), InFull(r),
           r.op = "tip" => tip'[r.tip].state = "none",
           r.pc \in Refunding => PaidOn(r.post)' = PaidOn(r.post),
           \A u \in TipUsers : spent'[u] = 0 => spent[u] = 0
    PROVE  FitReq(r)' /\ Backed(r)' /\ InFull(r)'
<1>1. \A x : Author(x)' = Author(x)
  BY DEF Author
<1>2. \A s \in TipIds : tip[s].state # "none" => NetOf(s)' = NetOf(s)
  BY DEF RowsKept, NetOf
<1>3. \A s \in TipIds : 0 <= NetOf(s)'
  BY NetIs DEF NetOf, TipsTypeOK, Tip
<1>4. ASSUME r.pc \in Refunding, NEW s \in TipIds, tip[s].state = "none" PROVE r.back[s] = 0
  BY <1>4 DEF FitReq, PaidOn, Req
<1>5. FitReq(r)'
  <2>1. ASSUME r.pc \in Refunding, NEW s \in TipIds PROVE r.back[s] <= NetOf(s)'
    BY <1>2, <1>3, <1>4, <2>1 DEF FitReq
  <2>2. ASSUME r.pc \in {"debit", "repay"} PROVE NetOf(r.tip)' = NetOf(r.tip)
    <3>1. r.tip \in TipIds /\ tip[r.tip].state = "paid"
      BY <2>2 DEF FitReq, Refunding, PaidOn
    <3> QED
      BY <1>2, <3>1
  <2>3. ASSUME r.pc \in Refunding
        PROVE  /\ r.op = "delete" /\ r.listed = PaidOn(r.post)' /\ r.todo \subseteq r.listed
               /\ \A t \in TipIds : r.back[t] <= NetOf(t)' /\ (r.back[t] > 0 => t \in r.listed \ r.todo)
    BY <2>1, <2>3 DEF FitReq
  <2>4. ASSUME r.op = "tip" PROVE r.tip \in TipIds /\ tip'[r.tip].state = "none"
    BY <2>4 DEF FitReq
  <2> QED
    BY <2>2, <2>3, <2>4 DEF FitReq
<1>6. Backed(r)'
  <2> SUFFICES ASSUME NEW u \in TipUsers
               PROVE  r.change[u] = ChangeOf(r, u)' /\ (r.change[u] # 0 => u \in r.locks)
    BY DEF Backed
  <2>1. /\ Debit(r, u)' = Debit(r, u) /\ Credit(r, u)' = Credit(r, u) /\ AtHand(r, u)' = AtHand(r, u)
    BY <1>1 DEF Debit, Credit, AtHand
  <2>2. ASSUME r.pc \in Refunding PROVE Refunds(r, u)' = Refunds(r, u)
    <3>1. PICK f : f = Given(r, u)
      OBVIOUS
    <3>2. PICK g : g = Given(r, u)'
      OBVIOUS
    <3>3. ASSUME NEW s \in TipIds PROVE f[s] = g[s]
      <4>1. CASE tip[s].state = "none"
        BY <1>4, <2>2, <3>1, <3>2, <4>1 DEF Given
      <4>2. CASE tip[s].state # "none"
        BY <1>1, <3>1, <3>2, <4>2 DEF Given, RowsKept
      <4> QED
        BY <4>1, <4>2
    <3>4. SumFunctionOnSet(f, TipIds) = SumFunctionOnSet(g, TipIds)
      BY <3>3, Basics, SumSame
    <3> QED
      BY <3>1, <3>2, <3>4 DEF Refunds
  <2>3. ChangeOf(r, u)' = ChangeOf(r, u)
    BY <2>1, <2>2 DEF ChangeOf, Refunding
  <2> QED
    BY <2>3 DEF Backed
<1>7. InFull(r)'
  <2> SUFFICES ASSUME r.pc \in Refunding, Untouched(Author(r.post))'
               PROVE  /\ \A t \in r.listed \ r.todo : r.back[t] = NetOf(t)'
                      /\ r.pc \in {"debit", "repay"} => r.seen = NetOf(r.tip)'
    BY DEF InFull
  <2>1. r.post \in Posts /\ Author(r.post) \in TipUsers
    BY AuthorIs DEF TipsTypeOK, FitReq, Refunding
  <2>2. GivenBy(Author(r.post)) = {} /\ spent[Author(r.post)] = 0
    BY <1>1, <2>1 DEF Untouched, GivenBy, Tipped, RowsKept
  <2>3. r.listed \subseteq TipIds /\ \A t \in r.listed : tip[t].state = "paid"
    BY DEF FitReq, PaidOn
  <2>4. r.pc \in {"debit", "repay"} => r.tip \in r.listed
    BY DEF FitReq
  <2> QED
    BY <1>2, <2>2, <2>3, <2>4 DEF InFull, Untouched
<1> QED
  BY <1>5, <1>6, <1>7

(* The wallets that a commit writes are locked: nobody else has moved them.*)
LEMMA StillCovered ==
    ASSUME IInv, NEW p \in TipHandlers, bal' = Committed(p)
    PROVE  /\ bal' \in [TipUsers -> Nat]
           /\ \A u \in TipUsers : bal'[u] = bal[u] + req[p].change[u]
           /\ \A o \in TipHandlers \ {p}, u \in TipUsers : bal'[u] + req[o].change[u] >= 0
<1>1. \A u \in TipUsers : bal'[u] = bal[u] + req[p].change[u]
  BY DEF Committed, Own
<1>2. \A o \in TipHandlers : /\ req[o].change \in [TipUsers -> Int] /\ Covered(req[o])
                             /\ \A u \in TipUsers : req[o].change[u] # 0 => u \in req[o].locks
  BY DEF IInv, TipsTypeOK, Req, Good, Backed
<1>3. bal \in [TipUsers -> Nat] /\ LocksHeld
  BY DEF IInv, TipsTypeOK
<1>4. \A u \in TipUsers : bal'[u] \in Nat
  BY <1>1, <1>2, <1>3 DEF Covered
<1>5. ASSUME NEW o \in TipHandlers \ {p}, NEW u \in TipUsers PROVE bal'[u] + req[o].change[u] >= 0
  <2>1. CASE req[o].change[u] = 0
    BY <1>4, <2>1
  <2>2. CASE req[o].change[u] # 0
    <3>1. req[p].change[u] = 0
      BY <1>2, <1>3, <2>2 DEF LocksHeld
    <3> QED
      BY <1>1, <1>2, <1>3, <3>1 DEF Covered
  <2> QED
    BY <2>1, <2>2
<1>6. bal' \in [TipUsers -> Nat]
  BY <1>4 DEF Committed
<1> QED
  BY <1>1, <1>5, <1>6

LEMMA GoodAfter ==
    ASSUME IInv, TipsTypeOK', UNCHANGED client, RowsKept, NEW p \in TipHandlers, Done(p),
           \A o \in TipHandlers \ {p}, u \in TipUsers : bal'[u] + req[o].change[u] >= 0,
           \A o \in TipHandlers \ {p} : req[o].op = "tip" => tip'[req[o].tip].state = "none",
           \A o \in TipHandlers \ {p} : req[o].pc \in Refunding =>
             \A s \in TipIds : tip'[s].state = "paid" /\ tip'[s].post = req[o].post
                                <=> tip[s].state = "paid" /\ tip[s].post = req[o].post,
           \A u \in TipUsers : spent'[u] = 0 => spent[u] = 0
    PROVE  \A o \in TipHandlers : Good(req[o])'
<1>0. TipsTypeOK
  BY DEF IInv
<1>1. ASSUME NEW o \in TipHandlers \ {p} PROVE Good(req[o])'
  <2>1. PICK r \in Req : r = req[o] /\ Good(r)
    BY <1>0 DEF IInv, TipsTypeOK
  <2>2. req'[o] = r
    BY <2>1, DoneApart
  <2>3. /\ r.op = "tip" => tip'[r.tip].state = "none"
        /\ \A u \in TipUsers : bal'[u] + r.change[u] >= 0
    BY <2>1
  <2>4. r.pc \in Refunding => PaidOn(r.post)' = PaidOn(r.post)
    <3>1. r.pc \in Refunding =>
             \A s \in TipIds : tip'[s].state = "paid" /\ tip'[s].post = r.post
                                <=> tip[s].state = "paid" /\ tip[s].post = r.post
      BY <2>1
    <3> QED
      BY <3>1 DEF PaidOn
  <2>5. FitReq(r)' /\ Backed(r)' /\ InFull(r)'
    BY <1>0, <2>1, <2>3, <2>4, StillGood DEF Good
  <2>6. Covered(r)'
    BY <2>3 DEF Covered
  <2> QED
    BY <2>2, <2>5, <2>6 DEF Good
<1>2. Good(req[p])'
  <2>1. Good(NoReq)'
    <3>1. PICK q \in Req : q = NoReq
      BY NoReqType
    <3>2. /\ q.op = "none" /\ q.pc = "idle" /\ q.tip = Absent /\ q.locks = {}
          /\ \A u \in TipUsers : q.change[u] = 0
      BY <3>1 DEF NoReq, NewReq
    <3>3. FitReq(q)' /\ Backed(q)' /\ InFull(q)' /\ Covered(q)'
      BY <3>2 DEF FitReq, Refunding, Backed, ChangeOf, InFull, Covered, TipsTypeOK
    <3> QED
      BY <3>1, <3>3 DEF Good
  <2>2. req'[p] = NoReq
    BY DoneApart
  <2> QED
    BY <2>1, <2>2
<1> QED
  BY <1>1, <1>2

LEMMA CommitTipGood ==
    ASSUME IInv, NEW p \in TipHandlers, CommitTip(p)
    PROVE  IInv'
<1>0. /\ TipsTypeOK /\ Accounted /\ Kept /\ TipsFit /\ FullUnlessSpent /\ OneTip /\ LocksHeld
      /\ UNCHANGED <<post, spent, client, spends, tipsFaults>> /\ Done(p) /\ bal' = Committed(p)
      /\ client \in Clients
  BY DEF CommitTip, IInv, TipsTypeOK
<1>1. PICK r \in Req : r = req[p] /\ Good(r) /\ Apart(p, r)
  BY Others
<1>2. PICK t \in TipIds, x \in Posts, u \in TipUsers, a \in Nat :
        /\ t = r.tip /\ x = r.post /\ u = r.user /\ a = r.amount
        /\ r.pc = "commit" /\ r.op = "tip" /\ Backed(r) /\ tip[t].state = "none"
  BY <1>1 DEF CommitTip, Good, FitReq, Req
<1>3. tip'[t] = PaidTip(x, u, a) /\ \A s \in TipIds \ {t} : tip'[s] = tip[s]
  BY <1>0, <1>1, <1>2 DEF CommitTip, TipsTypeOK
<1>4. PICK n \in Nat : n = Net(a) /\ n <= a
  BY NetIs
<1>5. fees' = fees + a - n
  BY <1>1, <1>2, <1>4 DEF CommitTip
<1>6. /\ tip'[t].state = "paid" /\ tip'[t].post = x /\ tip'[t].giver = u
      /\ tip'[t].amount = a /\ tip'[t].back = 0 /\ tip'[t] \in Tip
  BY <1>2, <1>3 DEF PaidTip, Tip
<1>7. tip[t].amount = 0 /\ tip[t].back = 0
  <2>1. /\ FitTip(tip[t])
    BY <1>0 DEF TipsFit
  <2>2. tip[t].back \in Nat
    BY <1>0, Rows
  <2> QED
    BY <1>2, <2>1, <2>2 DEF FitTip
<1>8. TipsTypeOK'
  <2>1. tip' \in [TipIds -> Tip]
    BY <1>0, <1>3, <1>6 DEF CommitTip, TipsTypeOK
  <2>2. \A s \in TipIds : tip'[s].state # "none" => tip'[s].post \in Posts /\ tip'[s].giver \in TipUsers
    BY <1>0, <1>3, <1>6 DEF TipsTypeOK
  <2>3. fees' \in Nat
    BY <1>0, <1>4, <1>5 DEF TipsTypeOK
  <2>4. bal' \in [TipUsers -> Nat] /\ req' \in [TipHandlers -> Req]
    BY <1>0, StillCovered, DoneApart
  <2> QED
    BY <1>0, <2>1, <2>2, <2>3, <2>4 DEF TipsTypeOK
<1>9. \A o \in TipHandlers : Good(req[o])'
  <2>1. RowsKept
    BY <1>2, <1>3 DEF RowsKept
  <2>2. \A o \in TipHandlers \ {p} : req[o].op = "tip" => tip'[req[o].tip].state = "none"
    <3> SUFFICES ASSUME NEW o \in TipHandlers \ {p}, req[o].op = "tip" PROVE tip'[req[o].tip].state = "none"
      OBVIOUS
    <3>1. req[o].tip \in TipIds /\ tip[req[o].tip].state = "none"
      BY DEF IInv, Good, FitReq
    <3>2. req[o].tip # t
      BY <1>0, <1>1, <1>2 DEF OneTip
    <3> QED
      BY <1>3, <3>1, <3>2
  <2>3. ASSUME NEW o \in TipHandlers \ {p}, req[o].pc \in Refunding, NEW s \in TipIds
        PROVE  tip'[s].state = "paid" /\ tip'[s].post = req[o].post
                 <=> tip[s].state = "paid" /\ tip[s].post = req[o].post
    <3>1. req[o].post # x
      <4>1. HoldsPost(p, x)
        BY <1>1, <1>2 DEF HoldsPost
      <4>2. HoldsPost(o, req[o].post)
        BY <2>3 DEF HoldsPost, Refunding
      <4> QED
        BY <1>0, <4>1, <4>2 DEF LocksHeld
    <3> QED
      BY <1>2, <1>3, <1>6, <3>1
  <2>4. \A o \in TipHandlers \ {p}, v \in TipUsers : bal'[v] + req[o].change[v] >= 0
    BY <1>0, StillCovered
  <2> QED
    BY <1>0, <1>8, <2>1, <2>2, <2>3, <2>4, GoodAfter
<1>10. Accounted'
  <2> SUFFICES ASSUME NEW v \in TipUsers
               PROVE  bal'[v] + spent[v] = Start[v] + SumFunctionOnSet(Flow(v)', TipIds)
    BY <1>0 DEF Accounted
  <2>1. PICK f : f = Flow(v)
    OBVIOUS
  <2>2. PICK g : g = Flow(v)'
    OBVIOUS
  <2>3. /\ \A s \in TipIds : f[s] \in Int /\ f[s] = FlowOf(tip[s], v)
        /\ \A s \in TipIds : g[s] \in Int /\ g[s] = FlowOf(tip[s], v)'
    <3>1. \A s \in TipIds : f[s] \in Int /\ f[s] = FlowOf(tip[s], v)
      BY <1>0, <2>1, FlowType
    <3>2. ASSUME NEW s \in TipIds PROVE g[s] \in Int /\ g[s] = FlowOf(tip[s], v)'
      <4>1. tip'[s].amount \in Nat /\ tip'[s].back \in Nat /\ Net(tip'[s].amount) \in Nat
        BY <1>8, NetIs DEF TipsTypeOK, Tip
      <4> QED
        BY <2>2, <4>1 DEF Flow, FlowOf
    <3> QED
      BY <3>1, <3>2
  <2>4. \A s \in TipIds \ {t} : f[s] = g[s]
    BY <1>0, <1>3, <2>3 DEF FlowOf, Author
  <2>5. f[t] = 0
    BY <1>2, <2>3 DEF FlowOf
  <2>6. g[t] = (IF Author(x) = v THEN n ELSE 0) - (IF u = v THEN a ELSE 0)
    <3>1. client' = client
      BY <1>0
    <3>2. g[t] = (IF Author(x) = v THEN n - 0 ELSE 0) - (IF u = v THEN a - 0 ELSE 0)
      BY <1>4, <1>6, <2>3, <3>1 DEF FlowOf, Author
    <3> QED
      BY <3>2
  <2>7. SumFunctionOnSet(g, TipIds) = SumFunctionOnSet(f, TipIds) + g[t] - f[t]
    BY <2>3, <2>4, Basics, SumChange
  <2>8. r.change[v] = (IF Author(x) = v THEN n ELSE 0) - (IF u = v THEN a ELSE 0)
    BY <1>2, <1>4 DEF Backed, ChangeOf, Credit, Debit
  <2>9. bal[v] + spent[v] = Start[v] + SumFunctionOnSet(f, TipIds)
    BY <1>0, <2>1 DEF Accounted
  <2>10. bal'[v] = bal[v] + r.change[v]
    BY <1>0, <1>1, StillCovered
  <2>11. /\ bal[v] \in Nat /\ spent[v] \in Nat /\ Start[v] \in Nat /\ SumFunctionOnSet(f, TipIds) \in Int
         /\ g[t] \in Int
    BY <1>0, <2>3, Basics, SumInt DEF TipsTypeOK
  <2>12. bal'[v] = bal[v] + g[t]
    BY <2>6, <2>8, <2>10
  <2>13. SumFunctionOnSet(g, TipIds) = SumFunctionOnSet(f, TipIds) + g[t]
    BY <2>5, <2>7, <2>11
  <2> QED
    BY <2>2, <2>9, <2>11, <2>12, <2>13
<1>11. Kept'
  <2>1. PICK f : f = Earned
    OBVIOUS
  <2>2. PICK g : g = Earned'
    OBVIOUS
  <2>3. PICK h : h = PaidFor
    OBVIOUS
  <2>4. PICK k : k = PaidFor'
    OBVIOUS
  <2>5. /\ \A s \in TipIds : f[s] = Net(tip[s].amount) /\ g[s] = Net(tip'[s].amount)
        /\ \A s \in TipIds : h[s] = tip[s].amount /\ k[s] = tip'[s].amount
        /\ \A s \in TipIds : f[s] \in Int /\ g[s] \in Int /\ h[s] \in Int /\ k[s] \in Int
    <3>1. \A s \in TipIds : tip[s].amount \in Nat /\ tip'[s].amount \in Nat
      BY <1>0, <1>8 DEF TipsTypeOK, Tip
    <3>2. \A s \in TipIds : f[s] = Net(tip[s].amount) /\ g[s] = Net(tip'[s].amount)
      BY <2>1, <2>2 DEF Earned, NetOf
    <3>3. \A s \in TipIds : h[s] = tip[s].amount /\ k[s] = tip'[s].amount
      BY <2>3, <2>4 DEF PaidFor
    <3> QED
      BY <3>1, <3>2, <3>3, NetIs
  <2>6. \A s \in TipIds \ {t} : f[s] = g[s] /\ h[s] = k[s]
    BY <1>3, <2>5
  <2>7. f[t] = 0 /\ g[t] = n /\ h[t] = 0 /\ k[t] = a
    BY <1>4, <1>6, <1>7, <2>5, Zero
  <2>8. SumFunctionOnSet(g, TipIds) = SumFunctionOnSet(f, TipIds) + g[t] - f[t]
    <3>1. IsFiniteSet(TipIds) /\ t \in TipIds
      BY Basics
    <3>2. \A s \in TipIds : f[s] \in Int
      BY <2>5
    <3>3. \A s \in TipIds : g[s] \in Int
      BY <2>5
    <3>4. \A s \in TipIds \ {t} : f[s] = g[s]
      BY <2>6
    <3> QED
      BY <3>1, <3>2, <3>3, <3>4, SumChange
  <2>9. SumFunctionOnSet(k, TipIds) = SumFunctionOnSet(h, TipIds) + k[t] - h[t]
    <3>1. IsFiniteSet(TipIds) /\ t \in TipIds
      BY Basics
    <3>2. \A s \in TipIds : h[s] \in Int
      BY <2>5
    <3>3. \A s \in TipIds : k[s] \in Int
      BY <2>5
    <3>4. \A s \in TipIds \ {t} : h[s] = k[s]
      BY <2>6
    <3> QED
      BY <3>1, <3>2, <3>3, <3>4, SumChange
  <2>10. fees + SumFunctionOnSet(f, TipIds) = SumFunctionOnSet(h, TipIds)
    BY <1>0, <2>1, <2>3 DEF Kept
  <2>11. fees \in Nat /\ SumFunctionOnSet(f, TipIds) \in Int /\ SumFunctionOnSet(h, TipIds) \in Int
    BY <1>0, <2>5, Basics, SumInt DEF TipsTypeOK
  <2>12. fees' + SumFunctionOnSet(g, TipIds) = SumFunctionOnSet(k, TipIds)
    BY <1>4, <1>5, <2>7, <2>8, <2>9, <2>10, <2>11
  <2> QED
    BY <2>2, <2>4, <2>12 DEF Kept
<1>12. TipsFit'
  <2> SUFFICES ASSUME NEW s \in TipIds PROVE FitTip(tip'[s])
    BY DEF TipsFit, FitTip
  <2>1. CASE s = t
    BY <1>4, <1>6, <2>1 DEF FitTip
  <2>2. CASE s # t
    BY <1>0, <1>3, <2>2 DEF TipsFit
  <2> QED
    BY <2>1, <2>2
<1>13. FullUnlessSpent'
  <2> SUFFICES ASSUME NEW s \in TipIds, tip'[s].state \in {"refunded", "kept"},
                      spent[Author(tip'[s].post)] = 0, GivenBy(Author(tip[s].post))' = {}
               PROVE  tip'[s].back = NetOf(s)'
    BY <1>0 DEF FullUnlessSpent, Author
  <2>1. s # t
    BY <1>6
  <2>2. tip'[s] = tip[s] /\ NetOf(s)' = NetOf(s)
    BY <1>3, <2>1 DEF NetOf
  <2>3. PICK b : b = Author(tip[s].post)
    OBVIOUS
  <2>4. Author(tip'[s].post) = b /\ GivenBy(b)' = {}
    BY <1>0, <2>2, <2>3 DEF Author, GivenBy, Tipped
  <2>5. GivenBy(b) = {}
    BY <1>2, <1>3, <2>4 DEF GivenBy, Tipped
  <2> QED
    BY <1>0, <2>2, <2>3, <2>4, <2>5 DEF FullUnlessSpent
<1>14. OneTip' /\ LocksHeld'
  BY <1>0, DoneApart
<1> QED
  BY <1>8, <1>9, <1>10, <1>11, <1>12, <1>13, <1>14 DEF IInv

LEMMA CommitDeleteGood ==
    ASSUME IInv, NEW p \in TipHandlers, CommitDelete(p)
    PROVE  IInv'
<1>0. /\ TipsTypeOK /\ Accounted /\ Kept /\ TipsFit /\ FullUnlessSpent /\ OneTip /\ LocksHeld
      /\ UNCHANGED <<fees, spent, client, spends, tipsFaults>> /\ Done(p) /\ bal' = Committed(p)
      /\ client \in Clients
  BY DEF CommitDelete, IInv, TipsTypeOK
<1>1. PICK r \in Req : r = req[p] /\ Good(r) /\ Apart(p, r)
  BY Others
<1>2. /\ r.pc = "refund" /\ r.todo = {} /\ r.post \in Posts /\ FitReq(r) /\ Backed(r) /\ InFull(r)
      /\ r.listed = PaidOn(r.post) /\ r.back \in [TipIds -> Nat]
      /\ \A s \in TipIds : r.back[s] <= NetOf(s) /\ (r.back[s] > 0 => s \in PaidOn(r.post))
  <2>1. r.pc = "refund" /\ r.todo = {} /\ FitReq(r) /\ Backed(r) /\ InFull(r)
    BY <1>1 DEF CommitDelete, Good
  <2>2. /\ r.post \in Posts /\ r.listed = PaidOn(r.post)
        /\ \A s \in TipIds : r.back[s] <= NetOf(s) /\ (r.back[s] > 0 => s \in PaidOn(r.post))
    BY <2>1 DEF FitReq, Refunding
  <2> QED
    BY <2>1, <2>2 DEF Req
<1>3. PICK x \in Posts : x = r.post
  BY <1>2
<1>4. \A s \in TipIds : tip'[s] = IF s \in PaidOn(x) THEN Settled(r, s) ELSE tip[s]
  BY <1>1, <1>3 DEF CommitDelete, PaidOn
<1>5. ASSUME NEW s \in PaidOn(x)
      PROVE  /\ tip'[s].state = (IF r.back[s] > 0 THEN "refunded" ELSE "kept") /\ tip'[s].back = r.back[s]
             /\ tip'[s].giver = tip[s].giver /\ tip'[s].amount = tip[s].amount
             /\ tip'[s].post = tip[s].post /\ tip'[s] \in Tip
  <2>1. s \in TipIds /\ tip[s] \in Tip /\ s \in r.listed /\ r.back[s] \in Nat
    BY <1>0, <1>2, <1>3, Rows DEF PaidOn
  <2>2. tip'[s] = [tip[s] EXCEPT !.back = r.back[s],
                                 !.state = IF r.back[s] > 0 THEN "refunded" ELSE "kept"]
    BY <1>4, <2>1 DEF Settled
  <2> QED
    BY <2>1, <2>2 DEF Tip
<1>6. \A s \in TipIds : /\ tip'[s].giver = tip[s].giver /\ tip'[s].amount = tip[s].amount
                        /\ tip'[s].post = tip[s].post /\ tip'[s] \in Tip
                        /\ tip'[s].state = "none" <=> tip[s].state = "none"
  <2> SUFFICES ASSUME NEW s \in TipIds
               PROVE  /\ tip'[s].giver = tip[s].giver /\ tip'[s].amount = tip[s].amount
                      /\ tip'[s].post = tip[s].post /\ tip'[s] \in Tip
                      /\ tip'[s].state = "none" <=> tip[s].state = "none"
    OBVIOUS
  <2>1. CASE s \in PaidOn(x)
    BY <1>5, <2>1 DEF PaidOn
  <2>2. CASE s \notin PaidOn(x)
    BY <1>0, <1>4, <2>2 DEF TipsTypeOK
  <2> QED
    BY <2>1, <2>2
<1>7. \A s \in TipIds : NetOf(s)' = NetOf(s)
  BY <1>6 DEF NetOf
<1>8. TipsTypeOK'
  <2>1. tip' \in [TipIds -> Tip]
    BY <1>6 DEF CommitDelete
  <2>2. \A s \in TipIds : tip'[s].state # "none" => tip'[s].post \in Posts /\ tip'[s].giver \in TipUsers
    BY <1>0, <1>6 DEF TipsTypeOK
  <2>3. post' \in [Posts -> {"live", "gone"}]
    BY <1>0 DEF CommitDelete, TipsTypeOK
  <2>4. bal' \in [TipUsers -> Nat] /\ req' \in [TipHandlers -> Req]
    BY <1>0, StillCovered, DoneApart
  <2> QED
    BY <1>0, <2>1, <2>2, <2>3, <2>4 DEF TipsTypeOK
<1>9. \A o \in TipHandlers : Good(req[o])'
  <2>1. RowsKept
    BY <1>6 DEF RowsKept
  <2>2. \A o \in TipHandlers \ {p} : req[o].op = "tip" => tip'[req[o].tip].state = "none"
    <3> SUFFICES ASSUME NEW o \in TipHandlers \ {p}, req[o].op = "tip" PROVE tip'[req[o].tip].state = "none"
      OBVIOUS
    <3>1. req[o].tip \in TipIds /\ tip[req[o].tip].state = "none"
      BY DEF IInv, Good, FitReq
    <3> QED
      BY <1>6, <3>1
  <2>3. ASSUME NEW o \in TipHandlers \ {p}, req[o].pc \in Refunding, NEW s \in TipIds
        PROVE  tip'[s].state = "paid" /\ tip'[s].post = req[o].post
                 <=> tip[s].state = "paid" /\ tip[s].post = req[o].post
    <3>1. req[o].post # x
      <4>1. HoldsPost(p, x)
        BY <1>1, <1>2, <1>3 DEF HoldsPost
      <4>2. HoldsPost(o, req[o].post)
        BY <2>3 DEF HoldsPost, Refunding
      <4> QED
        BY <1>0, <4>1, <4>2 DEF LocksHeld
    <3>2. CASE s \in PaidOn(x)
      BY <1>6, <3>1, <3>2 DEF PaidOn
    <3>3. CASE s \notin PaidOn(x)
      BY <1>4, <3>3
    <3> QED
      BY <3>2, <3>3
  <2>4. \A o \in TipHandlers \ {p}, v \in TipUsers : bal'[v] + req[o].change[v] >= 0
    BY <1>0, StillCovered
  <2> QED
    BY <1>0, <1>8, <2>1, <2>2, <2>3, <2>4, GoodAfter
<1>10. Accounted'
  <2> SUFFICES ASSUME NEW v \in TipUsers
               PROVE  bal'[v] + spent[v] = Start[v] + SumFunctionOnSet(Flow(v)', TipIds)
    BY <1>0 DEF Accounted
  <2>1. PICK f : f = Flow(v)
    OBVIOUS
  <2>2. PICK g : g = Flow(v)'
    OBVIOUS
  <2>3. PICK h : h = Given(r, v)
    OBVIOUS
  <2>4. ASSUME NEW s \in TipIds PROVE f[s] \in Int /\ h[s] \in Int /\ g[s] = f[s] + h[s]
    <3>0. /\ tip[s].amount \in Nat /\ tip[s].back \in Nat /\ r.back[s] \in Nat
          /\ Net(tip[s].amount) \in Nat
      BY <1>0, <1>2, Rows, NetIs
    <3>1. f[s] \in Int /\ f[s] = FlowOf(tip[s], v)
      BY <1>0, <2>1, FlowType
    <3>2. /\ h[s] \in Int
          /\ h[s] = (IF tip[s].giver = v THEN r.back[s] ELSE 0) - (IF Author(x) = v THEN r.back[s] ELSE 0)
      BY <1>3, <2>3, GivenType
    <3>3. g[s] = FlowOf(tip[s], v)'
      BY <2>2 DEF Flow
    <3>4. CASE s \in PaidOn(x)
      <4>1. tip[s].state = "paid" /\ tip[s].post = x /\ tip[s].back = 0
        <5>1. tip[s].state = "paid" /\ tip[s].post = x
          BY <3>4 DEF PaidOn
        <5>2. FitTip(tip[s])
          BY <1>0 DEF TipsFit
        <5> QED
          BY <3>0, <5>1, <5>2 DEF FitTip
      <4>2. f[s] = (IF Author(x) = v THEN Net(tip[s].amount) ELSE 0) - (IF tip[s].giver = v THEN tip[s].amount ELSE 0)
        BY <3>0, <3>1, <4>1 DEF FlowOf
      <4>3. g[s] = (IF Author(x) = v THEN Net(tip[s].amount) - r.back[s] ELSE 0)
                     - (IF tip[s].giver = v THEN tip[s].amount - r.back[s] ELSE 0)
        <5>1. /\ tip'[s].state # "none" /\ tip'[s].back = r.back[s] /\ tip'[s].giver = tip[s].giver
              /\ tip'[s].amount = tip[s].amount /\ tip'[s].post = x
          BY <1>5, <3>4, <4>1
        <5> QED
          BY <1>0, <3>3, <5>1 DEF FlowOf, Author
      <4> QED
        BY <3>0, <3>1, <3>2, <4>2, <4>3
    <3>5. CASE s \notin PaidOn(x)
      <4>1. r.back[s] = 0
        BY <1>2, <1>3, <3>0, <3>5
      <4>2. g[s] = f[s]
        BY <1>0, <1>4, <3>1, <3>3, <3>5 DEF FlowOf, Author
      <4> QED
        BY <3>1, <3>2, <4>1, <4>2
    <3> QED
      BY <3>4, <3>5
  <2>5. SumFunctionOnSet(g, TipIds) = SumFunctionOnSet(f, TipIds) + SumFunctionOnSet(h, TipIds)
    BY <2>4, Basics, SumPlus
  <2>6. r.change[v] = SumFunctionOnSet(h, TipIds)
    BY <1>2, <2>3 DEF Backed, ChangeOf, Refunds
  <2>7. bal[v] + spent[v] = Start[v] + SumFunctionOnSet(f, TipIds)
    BY <1>0, <2>1 DEF Accounted
  <2>8. bal'[v] = bal[v] + r.change[v]
    BY <1>0, <1>1, StillCovered
  <2>9. /\ bal[v] \in Nat /\ spent[v] \in Nat /\ Start[v] \in Nat
        /\ SumFunctionOnSet(f, TipIds) \in Int /\ SumFunctionOnSet(h, TipIds) \in Int
    BY <1>0, <2>4, Basics, SumInt DEF TipsTypeOK
  <2> QED
    BY <2>2, <2>5, <2>6, <2>7, <2>8, <2>9
<1>11. Kept'
  <2>1. Earned' = Earned /\ PaidFor' = PaidFor
    BY <1>6, <1>7 DEF Earned, PaidFor
  <2> QED
    BY <1>0, <2>1 DEF Kept
<1>12. TipsFit'
  <2> SUFFICES ASSUME NEW s \in TipIds PROVE FitTip(tip'[s])
    BY DEF TipsFit, FitTip
  <2>1. CASE s \in PaidOn(x)
    <3>1. r.back[s] <= Net(tip[s].amount)
      BY <1>2 DEF NetOf
    <3>2. /\ tip'[s].state = (IF r.back[s] > 0 THEN "refunded" ELSE "kept") /\ tip'[s].back = r.back[s]
          /\ tip'[s].amount = tip[s].amount
      BY <1>5, <2>1
    <3> QED
      BY <3>1, <3>2 DEF FitTip
  <2>2. CASE s \notin PaidOn(x)
    BY <1>0, <1>4, <2>2 DEF TipsFit
  <2> QED
    BY <2>1, <2>2
<1>13. FullUnlessSpent'
  <2> SUFFICES ASSUME NEW s \in TipIds, tip'[s].state \in {"refunded", "kept"},
                      spent[Author(tip'[s].post)] = 0, GivenBy(Author(tip[s].post))' = {}
               PROVE  tip'[s].back = NetOf(s)'
    BY <1>0 DEF FullUnlessSpent, Author
  <2>1. PICK b : b = Author(tip[s].post)
    OBVIOUS
  <2>2. Author(tip'[s].post) = b /\ GivenBy(b)' = {} /\ Untouched(b)
    <3>1. Author(tip'[s].post) = b /\ GivenBy(b)' = {}
      BY <1>0, <1>6, <2>1 DEF Author, GivenBy, Tipped
    <3>2. GivenBy(b) = {}
      BY <1>6, <3>1 DEF GivenBy, Tipped
    <3> QED
      BY <3>1, <3>2 DEF Untouched
  <2>3. CASE s \in PaidOn(x)
    <3>1. b = Author(x) /\ s \in r.listed \ r.todo
      BY <1>2, <1>3, <2>1, <2>3 DEF PaidOn
    <3>2. r.back[s] = NetOf(s)
      BY <1>2, <1>3, <2>2, <3>1 DEF InFull, Refunding
    <3> QED
      BY <1>5, <1>7, <2>3, <3>2
  <2>4. CASE s \notin PaidOn(x)
    BY <1>0, <1>4, <1>7, <2>1, <2>2, <2>4 DEF FullUnlessSpent, Untouched
  <2> QED
    BY <2>3, <2>4
<1>14. OneTip' /\ LocksHeld'
  BY <1>0, DoneApart
<1> QED
  BY <1>8, <1>9, <1>10, <1>11, <1>12, <1>13, <1>14 DEF IInv

----------------------------------------------------------------------------
LEMMA SpendGood ==
    ASSUME IInv, NEW u \in TipUsers, NEW a \in TipAmounts, Spend(u, a)
    PROVE  IInv'
<1>0. /\ TipsTypeOK /\ Accounted /\ Kept /\ TipsFit /\ FullUnlessSpent /\ OneTip /\ LocksHeld
      /\ UNCHANGED <<post, tip, fees, req, client, tipsFaults>> /\ a \in Nat /\ bal[u] >= a
      /\ bal \in [TipUsers -> Nat] /\ spent \in [TipUsers -> Nat] /\ spends \in Nat /\ spends' = spends + 1
      /\ \A o \in TipHandlers : u \notin req[o].locks /\ Good(req[o])
  BY Basics DEF Spend, IInv, TipsTypeOK
<1>1. /\ bal'[u] = bal[u] - a /\ spent'[u] = spent[u] + a
      /\ \A v \in TipUsers \ {u} : bal'[v] = bal[v] /\ spent'[v] = spent[v]
      /\ bal' \in [TipUsers -> Nat] /\ spent' \in [TipUsers -> Nat]
  BY <1>0 DEF Spend
<1>2. TipsTypeOK'
  BY <1>0, <1>1 DEF TipsTypeOK
<1>3. \A v \in TipUsers : spent'[v] = 0 => spent[v] = 0
  BY <1>0, <1>1
<1>4. ASSUME NEW o \in TipHandlers PROVE Good(req[o])'
  <2>1. PICK r \in Req : r = req[o] /\ Good(r) /\ u \notin r.locks
    BY <1>0 DEF TipsTypeOK
  <2>2. FitReq(r) /\ Backed(r) /\ InFull(r) /\ Covered(r)
    BY <2>1 DEF Good
  <2>3. FitReq(r)' /\ Backed(r)' /\ InFull(r)'
    <3>1. RowsKept
      BY <1>0 DEF RowsKept
    <3>2. PaidOn(r.post)' = PaidOn(r.post)
      BY <1>0 DEF PaidOn
    <3>3. r.op = "tip" => tip'[r.tip].state = "none"
      BY <1>0, <2>2 DEF FitReq
    <3> QED
      BY <1>0, <1>2, <1>3, <2>2, <3>1, <3>2, <3>3, StillGood
  <2>4. Covered(r)'
    <3> SUFFICES ASSUME NEW v \in TipUsers PROVE bal'[v] + r.change[v] >= 0
      BY DEF Covered
    <3>1. CASE v = u
      <4>1. r.change[u] = 0
        BY <2>1, <2>2 DEF Backed
      <4> QED
        BY <1>1, <3>1, <4>1
    <3>2. CASE v # u
      BY <1>1, <2>2, <3>2 DEF Covered
    <3> QED
      BY <3>1, <3>2
  <2>5. req'[o] = r
    BY <1>0, <2>1
  <2> QED
    BY <2>3, <2>4, <2>5 DEF Good
<1>5. Accounted'
  <2> SUFFICES ASSUME NEW v \in TipUsers
               PROVE  bal'[v] + spent'[v] = Start[v] + SumFunctionOnSet(Flow(v)', TipIds)
    BY DEF Accounted
  <2>1. Flow(v)' = Flow(v)
    BY <1>0 DEF Flow, FlowOf, Author
  <2>2. bal'[v] + spent'[v] = bal[v] + spent[v]
    <3>1. CASE v = u
      BY <1>0, <1>1, <3>1
    <3>2. CASE v # u
      BY <1>1, <3>2
    <3> QED
      BY <3>1, <3>2
  <2> QED
    BY <1>0, <2>1, <2>2 DEF Accounted
<1>6. Kept' /\ TipsFit'
  BY <1>0 DEF Kept, Earned, NetOf, PaidFor, TipsFit, FitTip
<1>7. FullUnlessSpent'
  <2> SUFFICES ASSUME NEW s \in TipIds, tip[s].state \in {"refunded", "kept"},
                      spent'[Author(tip[s].post)] = 0, GivenBy(Author(tip[s].post)) = {}
               PROVE  tip[s].back = NetOf(s)
    BY <1>0 DEF FullUnlessSpent, Author, GivenBy, Tipped, NetOf
  <2>1. Author(tip[s].post) \in TipUsers
    BY <1>0, AuthorIs DEF TipsTypeOK
  <2> QED
    BY <1>0, <1>3, <2>1 DEF FullUnlessSpent
<1>8. OneTip' /\ LocksHeld'
  BY <1>0 DEF OneTip, LocksHeld, HoldsPost
<1> QED
  BY <1>2, <1>4, <1>5, <1>6, <1>7, <1>8 DEF IInv

----------------------------------------------------------------------------
LEMMA InitHolds == TipsInit => IInv
<1> SUFFICES ASSUME TipsInit PROVE IInv
  OBVIOUS
<1>1. TipsTypeOK
  <2>1. NoTip \in Tip
    BY DEF NoTip, Tip
  <2> QED
    BY <2>1, NoReqType, Basics DEF TipsInit, TipsTypeOK, NoTip
<1>2. ASSUME NEW p \in TipHandlers PROVE Good(req[p])
  BY <1>1, NoReqGood DEF TipsInit
<1>3. \A t \in TipIds : tip[t].state = "none" /\ tip[t].amount = 0 /\ tip[t].back = 0 /\ NetOf(t) = 0
  BY Zero DEF TipsInit, NoTip, NetOf
<1>4. \A p \in TipHandlers : req[p].op = "none" /\ req[p].pc = "idle" /\ req[p].locks = {}
  BY DEF TipsInit, NoReq, NewReq
<1>5. OneTip /\ LocksHeld
  BY <1>4 DEF OneTip, LocksHeld, HoldsPost
<1>6. Accounted
  <2> SUFFICES ASSUME NEW u \in TipUsers
               PROVE  bal[u] + spent[u] = Start[u] + SumFunctionOnSet(Flow(u), TipIds)
    BY DEF Accounted
  <2>1. \A t \in TipIds : Flow(u)[t] = 0
    BY <1>3 DEF Flow, FlowOf
  <2>2. SumFunctionOnSet(Flow(u), TipIds) = 0
    BY <2>1, Basics, SumZero
  <2>3. bal[u] = Start[u] /\ spent[u] = 0 /\ Start[u] \in Nat
    BY Basics DEF TipsInit
  <2> QED
    BY <2>2, <2>3
<1>7. Kept
  <2>1. \A t \in TipIds : Earned[t] = 0 /\ PaidFor[t] = 0
    BY <1>3 DEF Earned, PaidFor
  <2>2. SumFunctionOnSet(Earned, TipIds) = 0 /\ SumFunctionOnSet(PaidFor, TipIds) = 0
    BY <2>1, Basics, SumZero
  <2> QED
    BY <2>2 DEF Kept, TipsInit
<1>8. TipsFit /\ FullUnlessSpent
  BY <1>3, Zero DEF TipsFit, FitTip, FullUnlessSpent
<1> QED
  BY <1>1, <1>2, <1>5, <1>6, <1>7, <1>8 DEF IInv

LEMMA StepHolds == IInv /\ [TipsNext]_tipsVars => IInv'
<1> SUFFICES ASSUME IInv, [TipsNext]_tipsVars PROVE IInv'
  OBVIOUS
<1>0. TipsTypeOK /\ spends \in Nat /\ tipsFaults \in Nat
  BY DEF IInv, TipsTypeOK
<1>1. ASSUME NEW p \in TipHandlers, Step(p) PROVE IInv'
  <2>1. CASE DetectDeadlock(p)
    BY <1>0, <2>1, DoneGood DEF DetectDeadlock
  <2> QED
    BY <1>1, <2>1, LockPostGood, ChargeGood, CreditGood, CommitTipGood, ReadGood, DebitGood,
       RepayGood, CommitDeleteGood DEF Step
<1>2. ASSUME NEW p \in TipHandlers, LoseConnection(p) PROVE IInv'
  BY <1>0, <1>2, DoneGood DEF LoseConnection
<1>3. ASSUME NEW p \in TipHandlers, NEW u \in TipUsers, Ask(p, u) PROVE IInv'
  BY <1>3, AskGood DEF Ask
<1>4. ASSUME NEW u \in TipUsers, NEW a \in TipAmounts, Spend(u, a) PROVE IInv'
  BY <1>4, SpendGood
<1>5. CASE UNCHANGED tipsVars
  <2>1. UNCHANGED <<ledger, client>> /\ UNCHANGED <<req, spends, tipsFaults>>
    BY <1>5 DEF tipsVars, ledger
  <2>2. Accounted' /\ Kept' /\ TipsFit' /\ FullUnlessSpent'
    BY <2>1, LedgerKept
  <2>3. TipsTypeOK' /\ OneTip' /\ LocksHeld'
    BY <1>0, <2>1 DEF IInv, TipsTypeOK, OneTip, LocksHeld, HoldsPost, ledger
  <2>4. ASSUME NEW o \in TipHandlers PROVE Good(req[o])'
    <3>1. PICK r : r = req[o] /\ r = req'[o]
      BY <2>1
    <3>2. Good(r)
      BY <3>1 DEF IInv
    <3> QED
      BY <2>1, <3>1, <3>2, GoodKept DEF Good
  <2> QED
    BY <2>2, <2>3, <2>4 DEF IInv
<1> QED
  BY <1>1, <1>2, <1>3, <1>4, <1>5 DEF TipsNext

(* The ledger as the users read it, from what each tip moved.              *)
LEMMA LedgerIs == IInv => LedgerStands
<1> SUFFICES ASSUME IInv, NEW u \in TipUsers
             PROVE  bal[u] + SumFunctionOnSet(PaidFor, GivenBy(u)) + SumFunctionOnSet(PaidBack, EarnedBy(u)) + spent[u]
                      = Start[u] + SumFunctionOnSet(Earned, EarnedBy(u)) + SumFunctionOnSet(PaidBack, GivenBy(u))
  BY DEF LedgerStands
<1>0. TipsTypeOK /\ Accounted /\ IsFiniteSet(TipIds)
  BY Basics DEF IInv
<1>1. ASSUME NEW s \in TipIds
      PROVE  PaidFor[s] \in Int /\ PaidBack[s] \in Int /\ Earned[s] \in Int
  BY <1>0, Rows DEF PaidFor, PaidBack, Earned
<1>2. GivenBy(u) \in SUBSET TipIds /\ EarnedBy(u) \in SUBSET TipIds
  BY DEF GivenBy, EarnedBy, Tipped
<1> DEFINE paid == [s \in TipIds |-> IF s \in GivenBy(u) THEN PaidFor[s] ELSE 0]
           repaid == [s \in TipIds |-> IF s \in GivenBy(u) THEN PaidBack[s] ELSE 0]
           net == [s \in TipIds |-> IF s \in EarnedBy(u) THEN Earned[s] ELSE 0]
           returned == [s \in TipIds |-> IF s \in EarnedBy(u) THEN PaidBack[s] ELSE 0]
           out == [s \in TipIds |-> paid[s] + returned[s]]
           in == [s \in TipIds |-> net[s] + repaid[s]]
<1>3. ASSUME NEW s \in TipIds
      PROVE  /\ paid[s] \in Int /\ repaid[s] \in Int /\ net[s] \in Int /\ returned[s] \in Int
             /\ out[s] \in Int /\ in[s] \in Int /\ Flow(u)[s] \in Int
             /\ in[s] = Flow(u)[s] + out[s] /\ out[s] = paid[s] + returned[s] /\ in[s] = net[s] + repaid[s]
  <2>1. /\ tip[s].amount \in Nat /\ tip[s].back \in Nat /\ NetOf(s) \in Nat
        /\ PaidFor[s] = tip[s].amount /\ PaidBack[s] = tip[s].back /\ Earned[s] = NetOf(s)
    BY <1>0, Rows DEF PaidFor, PaidBack, Earned
  <2>2. /\ s \in GivenBy(u) <=> tip[s].state # "none" /\ tip[s].giver = u
        /\ s \in EarnedBy(u) <=> tip[s].state # "none" /\ Author(tip[s].post) = u
    BY DEF GivenBy, EarnedBy, Tipped
  <2>3. /\ Flow(u)[s] \in Int
        /\ Flow(u)[s] = IF tip[s].state = "none" THEN 0
                        ELSE (IF Author(tip[s].post) = u THEN NetOf(s) - tip[s].back ELSE 0)
                               - (IF tip[s].giver = u THEN tip[s].amount - tip[s].back ELSE 0)
    BY <1>0, FlowType
  <2>4. /\ paid[s] = (IF s \in GivenBy(u) THEN tip[s].amount ELSE 0)
        /\ repaid[s] = (IF s \in GivenBy(u) THEN tip[s].back ELSE 0)
        /\ net[s] = (IF s \in EarnedBy(u) THEN NetOf(s) ELSE 0)
        /\ returned[s] = (IF s \in EarnedBy(u) THEN tip[s].back ELSE 0)
        /\ out[s] = paid[s] + returned[s] /\ in[s] = net[s] + repaid[s]
    BY <2>1
  <2> HIDE DEF paid, repaid, net, returned, out, in
  <2>5. /\ paid[s] \in Int /\ repaid[s] \in Int /\ net[s] \in Int /\ returned[s] \in Int
    BY <2>1, <2>4
  <2>6. in[s] = Flow(u)[s] + out[s]
    BY <2>1, <2>2, <2>3, <2>4
  <2> QED
    BY <2>3, <2>4, <2>5, <2>6
<1>4. /\ SumFunctionOnSet(paid, TipIds) = SumFunctionOnSet(PaidFor, GivenBy(u))
      /\ SumFunctionOnSet(repaid, TipIds) = SumFunctionOnSet(PaidBack, GivenBy(u))
      /\ SumFunctionOnSet(net, TipIds) = SumFunctionOnSet(Earned, EarnedBy(u))
      /\ SumFunctionOnSet(returned, TipIds) = SumFunctionOnSet(PaidBack, EarnedBy(u))
  <2>1. /\ \A s \in TipIds : paid[s] = IF s \in GivenBy(u) THEN PaidFor[s] ELSE 0
        /\ \A s \in TipIds : repaid[s] = IF s \in GivenBy(u) THEN PaidBack[s] ELSE 0
        /\ \A s \in TipIds : net[s] = IF s \in EarnedBy(u) THEN Earned[s] ELSE 0
        /\ \A s \in TipIds : returned[s] = IF s \in EarnedBy(u) THEN PaidBack[s] ELSE 0
    OBVIOUS
  <2> HIDE DEF paid, repaid, net, returned, out, in
  <2> QED
    BY <1>0, <1>1, <1>2, <2>1, SumWithin
<1> HIDE DEF paid, repaid, net, returned, out, in
<1>5. SumFunctionOnSet(out, TipIds) = SumFunctionOnSet(paid, TipIds) + SumFunctionOnSet(returned, TipIds)
  BY <1>0, <1>3, SumPlus
<1>6. SumFunctionOnSet(in, TipIds) = SumFunctionOnSet(net, TipIds) + SumFunctionOnSet(repaid, TipIds)
  BY <1>0, <1>3, SumPlus
<1>7. SumFunctionOnSet(in, TipIds) = SumFunctionOnSet(Flow(u), TipIds) + SumFunctionOnSet(out, TipIds)
  BY <1>0, <1>3, SumPlus
<1>8. /\ SumFunctionOnSet(paid, TipIds) \in Int /\ SumFunctionOnSet(repaid, TipIds) \in Int
      /\ SumFunctionOnSet(net, TipIds) \in Int /\ SumFunctionOnSet(returned, TipIds) \in Int
      /\ SumFunctionOnSet(Flow(u), TipIds) \in Int
  BY <1>0, <1>3, SumInt
<1>9. bal[u] + spent[u] = Start[u] + SumFunctionOnSet(Flow(u), TipIds)
  BY <1>0 DEF Accounted
<1>10. bal[u] \in Nat /\ spent[u] \in Nat /\ Start[u] \in Nat
  BY <1>0, Basics DEF TipsTypeOK
<1>11. PICK a \in Int, b \in Int, c \in Int, d \in Int, f \in Int :
          /\ a = SumFunctionOnSet(paid, TipIds) /\ b = SumFunctionOnSet(returned, TipIds)
          /\ c = SumFunctionOnSet(net, TipIds) /\ d = SumFunctionOnSet(repaid, TipIds)
          /\ f = SumFunctionOnSet(Flow(u), TipIds)
  BY <1>8
<1>12. c + d = f + a + b
  BY <1>5, <1>6, <1>7, <1>11
<1>13. bal[u] + spent[u] = Start[u] + f
  BY <1>9, <1>11
<1>14. bal[u] + a + b + spent[u] = Start[u] + c + d
  BY <1>10, <1>12, <1>13
<1> QED
  BY <1>4, <1>11, <1>14

LEMMA FeesAre == IInv => FeesStand
<1> SUFFICES ASSUME IInv PROVE FeesStand
  OBVIOUS
<1>0. TipsTypeOK /\ Kept /\ TipsFit /\ IsFiniteSet(TipIds) /\ Tipped \in SUBSET TipIds
  BY Basics DEF IInv, Tipped
<1>1. \A s \in TipIds : PaidFor[s] \in Int /\ Earned[s] \in Int
  BY <1>0, Rows DEF PaidFor, Earned
<1>2. \A s \in TipIds : s \notin Tipped => PaidFor[s] = 0 /\ Earned[s] = 0
  BY <1>0, Zero DEF PaidFor, Earned, NetOf, TipsFit, FitTip, Tipped
<1>3. \A s \in TipIds : PaidFor[s] = IF s \in Tipped THEN PaidFor[s] ELSE 0
  BY <1>2
<1>4. \A s \in TipIds : Earned[s] = IF s \in Tipped THEN Earned[s] ELSE 0
  BY <1>2
<1>5. SumFunctionOnSet(PaidFor, TipIds) = SumFunctionOnSet(PaidFor, Tipped)
  BY <1>0, <1>1, <1>3, SumWithin
<1>6. SumFunctionOnSet(Earned, TipIds) = SumFunctionOnSet(Earned, Tipped)
  BY <1>0, <1>1, <1>4, SumWithin
<1> QED
  BY <1>0, <1>5, <1>6 DEF Kept, FeesStand

LEMMA TipInvIs == IInv => TipInv
<1> SUFFICES ASSUME IInv PROVE TipInv
  OBVIOUS
<1>1. NoneDropped /\ RefundBounded
  BY DEF IInv, TipsFit, FitTip, NoneDropped, RefundBounded, NetOf
<1> QED
  BY <1>1, LedgerIs, FeesAre DEF TipInv, IInv

(* Every variable keeps its type: no wallet is ever negative, whatever is  *)
(* tipped, spent and deleted at the same time, and whoever loses the       *)
(* connection or is rolled back (the conditional debit of adjustBalanceTx).*)
THEOREM TipsTyped == TipsSpec => []TipsTypeOK
<1>1. IInv => TipsTypeOK
  BY DEF IInv
<1> QED
  BY <1>1, InitHolds, StepHolds, PTL DEF TipsSpec

(* Every cent is accounted for, a tip is never dropped and given back once *)
(* at the most, in full unless its author has spent, and two transactions  *)
(* never hold the same post or wallet.                                     *)
THEOREM TipsCorrect == TipsSpec => []TipInv
<1> QED
  BY TipInvIs, InitHolds, StepHolds, PTL DEF TipsSpec
=============================================================================
