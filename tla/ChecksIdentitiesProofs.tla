----------------------- MODULE ChecksIdentitiesProofs ------------------------
(* Proofs about Checks, and then about Identities: two components that share no*)
(* variable and no definition, only the sets that their constants name. No   *)
(* proof of the one cites an assumption of the other.                        *)
EXTENDS Checks, Identities, SumLemmas, WellFoundedInduction, NaturalsInduction

(* Proofs about Checks: for any users, checks, requests, faults and any    *)
(* size of the pool.                                                       *)

(* Where a transaction holds the row of its check.                         *)
Past == {"carrier", "reach", "count", "pay"}

(* What a process is doing fits its statement; past the lock it owns the   *)
(* row, which is still in the state that was found; and who claims a share *)
(* sees the check since that was read, or is barred from it meanwhile.     *)
TxFits(p) ==
    LET t == tx[p]
    IN  /\ t.pc # "idle" => t.id \in Ids /\ (t.op = "claim" => t.caller \in Users)
        /\ t.pc \in Past =>
             /\ rowLock[t.id] = p
             /\ check[t.id].status \notin {"none", "erased"}
             /\ t.op = "refund" => check[t.id].status = "active"
        /\ t.pc \in {"carrier", "reach"} => t.op = "claim"
        /\ t.pc = "reach" => t.via = Carrier(t.id) \/ p \in barred
        /\ t.pc \in {"count", "pay"} /\ t.op = "claim" =>
             Admits(Carrier(t.id), t.caller, t.id) \/ p \in barred

LockedInv == \A p \in Procs : TxFits(p)

(* A claim that knows what its check travels with.                         *)
Found(p) == tx[p].op = "claim" /\ tx[p].pc \in {"reach", "count", "pay"}

(* A step leaves user u the sight of check i, if he has it.                *)
SameSight(u, i) ==
    /\ i \in sent' <=> i \in sent
    /\ check'[i].posted = check[i].posted
    /\ i \in sent /\ u \in members => u \in members'
    /\ i \notin sent /\ check[i].posted /\ u \in audience[i] => u \in audience'[i]

----------------------------------------------------------------------------
LEMMA ProcsFacts ==
    /\ Sweeper \in Procs /\ None \notin Procs /\ Handlers \subseteq Procs
    /\ None \notin Users /\ None \notin Ids
BY ChecksAssumption DEF Procs

LEMMA TxTypes ==
    /\ NoTx \in Tx /\ NoTx.pc = "idle" /\ NoTx.op = "refund"
    /\ \A op \in {"claim", "refund"}, u \in Users \cup {None}, i \in Ids :
         LET t == NewTx("lock", op, u, i)
         IN  t \in Tx /\ t.pc = "lock" /\ t.op = op /\ t.caller = u /\ t.id = i
BY DEF NoTx, NewTx, Tx, Carriers

LEMMA CheckTypes ==
    /\ NoCheck \in Check /\ NoCheck.status = "none" /\ NoCheck.total = 0 /\ NoCheck.posted = FALSE
    /\ \A st \in {"none", "active", "erased"}, u \in Users \cup {None}, n \in Nat, s \in Nat, m \in Modes :
         LET c == NewCheck(st, u, n, s, m)
         IN  /\ c \in Check /\ c.status = st /\ c.creator = u /\ c.total = n /\ c.shares = s
             /\ c.mode = m /\ c.posted = FALSE
BY DEF NoCheck, NewCheck, Check, Modes

LEMMA SettingTypes ==
    ASSUME NEW s \in Settings
    PROVE  /\ s.users \subseteq Users /\ s.fund \in [Users -> Nat]
           /\ s.doomed \subseteq Users /\ s.members \subseteq Users /\ s.movers \subseteq Users
           /\ \A d \in s.deals : d[1] \in Nat \ {0} /\ d[2] \in Nat \ {0}
BY ChecksAssumption

(* Counts and sums of claims.                                              *)
Takers(c) == {u \in Users : c[u] > 0}

LEMMA Counting ==
    ASSUME NEW c \in [Users -> Nat]
    PROVE  /\ SumFunction(c) \in Nat
           /\ IsFiniteSet(Takers(c)) /\ Cardinality(Takers(c)) \in Nat
           /\ Cardinality(Takers(c)) <= SumFunction(c)
<1>1. DOMAIN c = Users /\ IsFiniteSet(Users) /\ \A u \in Users : c[u] \in Nat
  BY ChecksAssumption
<1>2. SumFunction(c) \in Nat
  BY <1>1, SumNat DEF SumFunction
<1>3. IsFiniteSet(Takers(c))
  BY <1>1, FS_Subset DEF Takers
<1>4. Cardinality(Takers(c)) \in Nat
  BY <1>3, FS_CardinalityType
<1>5. Cardinality(Takers(c)) <= SumFunction(c)
  BY <1>1, CountBelowSum DEF SumFunction, Takers
<1> QED BY <1>2, <1>3, <1>4, <1>5

(* Whatever a claim draws is an integer.                                   *)
LEMMA DrawInt ==
    ASSUME NEW c \in Check, NEW sum \in Nat, NEW count \in Nat, count < c.shares
    PROVE  Draw(c, sum, count) \subseteq Int
<1>1. c.total \in Nat /\ c.shares \in Nat /\ c.shares - count \in Nat \ {0} /\ c.shares > 0
  BY DEF Check
<1>2. (c.total - sum) \div (c.shares - count) \in Int /\ c.total \div c.shares \in Int
  BY <1>1
<1> QED BY <1>1, <1>2 DEF Draw, AtLeastOne

LEMMA EndEffect ==
    ASSUME TypeOK, NEW p \in Procs, End(p)
    PROVE  /\ tx' \in [Procs -> Tx] /\ rowLock' \in [Ids -> Procs \cup {None}]
           /\ candidates' \subseteq Ids /\ sending' = sending /\ barred' = barred \ {p}
           /\ tx'[p] = NoTx /\ \A q \in Procs : q # p => tx'[q] = tx[q]
           /\ \A i \in Ids : rowLock'[i] = IF rowLock[i] = p THEN None ELSE rowLock[i]
BY TxTypes DEF End, TypeOK

LEMMA BeginEffect ==
    ASSUME TypeOK, NEW p \in Procs, NEW op \in {"claim", "refund"},
           NEW u \in Users \cup {None}, NEW i \in Ids, Begin(p, op, u, i)
    PROVE  /\ tx' \in [Procs -> Tx] /\ tx'[p] = NewTx("lock", op, u, i)
           /\ \A q \in Procs : q # p => tx'[q] = tx[q]
           /\ UNCHANGED <<rows, sending, barred, rowLock, candidates, faults>>
BY TxTypes DEF Begin, TypeOK

LEMMA CreditEffect ==
    ASSUME TypeOK, NEW u, NEW i \in Ids, NEW a \in Nat, Credit(u, i, a)
    PROVE  balance' \in [Users -> Nat] /\ paid' \in [Ids -> Nat]
<1>1. balance \in [Users -> Nat] /\ paid \in [Ids -> Nat]
  BY DEF TypeOK
<1>2. balance' = [balance EXCEPT ![u] = @ + a] /\ paid' = [paid EXCEPT ![i] = @ + a]
  BY DEF Credit
<1>3. balance' \in [Users -> Nat]
  <2>1. balance' = [v \in Users |-> IF v = u THEN balance[v] + a ELSE balance[v]]
    BY <1>1, <1>2
  <2> QED BY <1>1, <2>1
<1>4. paid' \in [Ids -> Nat]
  BY <1>1, <1>2
<1> QED BY <1>3, <1>4

LEMMA CloseEffect ==
    ASSUME TypeOK, NEW i \in Ids, NEW st \in {"settled", "refunded"}, Close(i, st)
    PROVE  /\ check' \in [Ids -> Check]
           /\ check'[i].status = st /\ check'[i].creator = check[i].creator
           /\ check'[i].total = check[i].total /\ check'[i].shares = check[i].shares
           /\ check'[i].mode = check[i].mode /\ check'[i].posted = check[i].posted
           /\ \A j \in Ids : j # i => check'[j] = check[j]
BY DEF Close, TypeOK, Check

----------------------------------------------------------------------------
LEMMA InitTypes == Init => TypeOK /\ LockedInv
<1> SUFFICES ASSUME Init PROVE TypeOK /\ LockedInv
  OBVIOUS
<1>1. TypeOK
  BY TxTypes, CheckTypes, SettingTypes, ProcsFacts DEF Init, TypeOK
<1>2. LockedInv
  BY TxTypes, CheckTypes, ProcsFacts DEF Init, LockedInv, TxFits, Past
<1> QED BY <1>1, <1>2

LEMMA ShareTypes == ASSUME TypeOK, Share PROVE TypeOK'
<1> USE DEF TypeOK, reach
<1>1. ASSUME NEW i \in Ids, NEW u \in Users, NEW d \in setting.deals, NEW m \in Modes,
             Create(i, u, d[1], d[2], m)
      PROVE  TypeOK'
  <2>1. d[1] \in Nat /\ d[2] \in Nat
    BY SettingTypes
  <2>2. NewCheck("active", u, d[1], d[2], m) \in Check
    BY <2>1, CheckTypes
  <2>3. check' \in [Ids -> Check]
    BY <1>1, <2>2 DEF Create
  <2>4. balance' \in [Users -> Nat]
    BY <1>1, <2>1 DEF Create, Covers
  <2> QED BY <1>1, <2>3, <2>4 DEF Create
<1>2. ASSUME NEW i \in Ids, AttachToPost(i) PROVE TypeOK'
  <2>0. PICK b \in Check : b = check[i]
    OBVIOUS
  <2>1. PICK c : c = [check[i] EXCEPT !.posted = TRUE]
    OBVIOUS
  <2>2. c \in Check
    <3>1. [b EXCEPT !.posted = TRUE] \in Check
      BY DEF Check
    <3> QED BY <2>0, <2>1, <3>1
  <2>3. check' = [check EXCEPT ![i] = c]
    BY <1>2, <2>1 DEF AttachToPost
  <2>4. check' \in [Ids -> Check]
    BY <2>2, <2>3
  <2> QED BY <1>2, <2>4 DEF AttachToPost
<1>3. ASSUME NEW u \in Users, NEW i \in Ids, ValidateOwnedActive(u, i) \/ InsertMessage(u, i)
      PROVE  TypeOK'
  BY <1>3 DEF ValidateOwnedActive, InsertMessage, rows
<1>4. ASSUME NEW i \in Ids, DeleteMessage(i) PROVE TypeOK'
  BY <1>4 DEF DeleteMessage, Claimers
<1> QED BY <1>1, <1>2, <1>3, <1>4 DEF Share

LEMMA MeanwhileTypes == ASSUME TypeOK, Meanwhile PROVE TypeOK'
<1>1. ASSUME NEW u \in Users, EnterConversation(u) PROVE TypeOK'
  BY <1>1 DEF EnterConversation, TypeOK
<1>2. ASSUME NEW u \in Users, LeaveConversation(u) PROVE TypeOK'
  <2>1. barred' \subseteq Procs
    BY <1>2 DEF LeaveConversation, Claimers, TypeOK
  <2> QED BY <1>2, <2>1 DEF LeaveConversation, TypeOK
<1>3. ASSUME NEW i \in Ids, NEW s \in SUBSET setting.movers,
             ChangeAudience(i, (audience[i] \ setting.movers) \cup (s \cap users))
      PROVE  TypeOK'
  <2>1. (audience[i] \ setting.movers) \cup (s \cap users) \in SUBSET Users
    BY SettingTypes DEF TypeOK
  <2>2. barred' \subseteq Procs
    BY <1>3 DEF ChangeAudience, Claimers, TypeOK
  <2>3. audience' \in [Ids -> SUBSET Users]
    BY <1>3, <2>1 DEF ChangeAudience, TypeOK
  <2> QED BY <1>3, <2>2, <2>3 DEF ChangeAudience, TypeOK
<1> QED BY <1>1, <1>2, <1>3 DEF Meanwhile

LEMMA ProceedTypes == ASSUME TypeOK, LockedInv, NEW p \in Procs, Proceed(p) PROVE TypeOK'
<1> DEFINE t == tx[p]
<1>0. t \in Tx /\ TxFits(p)
  BY DEF TypeOK, LockedInv
<1>a. ASSUME Rollback(p), faults' \in Nat PROVE TypeOK'
  BY <1>a, EndEffect DEF Rollback, rows, reach, TypeOK
<1>1. CASE LockRow(p)
  <2>1. CASE Rollback(p) /\ UNCHANGED faults
    BY <2>1, <1>a DEF TypeOK
  <2>2. CASE ~(Rollback(p) /\ UNCHANGED faults)
    <3>1. t.id \in Ids
      BY <1>0, <1>1 DEF TxFits, LockRow
    <3>2. /\ rowLock' = [rowLock EXCEPT ![t.id] = p]
          /\ tx' = [tx EXCEPT ![p].pc = IF t.op = "claim" THEN "carrier" ELSE "count"]
          /\ UNCHANGED <<rows, sending, barred, candidates, faults>>
      BY <1>1, <2>2 DEF LockRow
    <3>3. tx' \in [Procs -> Tx]
      BY <1>0, <3>2 DEF TypeOK, Tx
    <3>4. rowLock' \in [Ids -> Procs \cup {None}]
      BY <3>1, <3>2 DEF TypeOK
    <3> QED BY <3>2, <3>3, <3>4 DEF TypeOK, rows, reach
  <2> QED BY <2>1, <2>2
<1>2. CASE ReadReach(p)
  <2>1. CASE Rollback(p) /\ UNCHANGED faults
    BY <2>1, <1>a DEF TypeOK
  <2>2. CASE ~(Rollback(p) /\ UNCHANGED faults)
    <3>1. /\ tx' = [tx EXCEPT ![p].pc = "count"]
          /\ UNCHANGED <<rows, sending, barred, rowLock, candidates, faults>>
      BY <1>2, <2>2 DEF ReadReach
    <3>2. tx' \in [Procs -> Tx]
      BY <1>0, <3>1 DEF TypeOK, Tx
    <3> QED BY <3>1, <3>2 DEF TypeOK, rows, reach
  <2> QED BY <2>1, <2>2
<1>9. CASE FindCarrier(p)
  <2>1. Carrier(t.id) \in Carriers
    BY DEF Carrier, Carriers
  <2>2. tx' \in [Procs -> Tx]
    BY <1>0, <1>9, <2>1 DEF FindCarrier, TypeOK, Tx
  <2> QED BY <1>9, <2>2 DEF FindCarrier, TypeOK, rows, reach
<1>3. CASE CountClaims(p)
  <2>1. t.id \in Ids
    BY <1>0, <1>3 DEF TxFits, CountClaims
  <2>2. Claimed(t.id) \in Nat /\ Cardinality(Claimants(t.id)) \in Nat
    BY <2>1, Counting DEF TypeOK, Claimed, Claimants, Takers
  <2>3. tx' \in [Procs -> Tx]
    BY <1>0, <1>3, <2>2 DEF CountClaims, TypeOK, Tx
  <2> QED BY <1>3, <2>3 DEF CountClaims, TypeOK, rows, reach
<1>4. ASSUME NEW total \in Nat, t.pc = "pay", Refund(p, total) PROVE TypeOK'
  <2>1. t.id \in Ids /\ t.sum \in Nat
    BY <1>0, <1>4 DEF TxFits, Tx
  <2>2. Remaining(total, t.sum) \in Nat
    BY <2>1 DEF Remaining
  <2>3. balance' \in [Users -> Nat] /\ paid' \in [Ids -> Nat]
    BY <1>4, <2>1, <2>2, CreditEffect DEF Refund
  <2>4. check' \in [Ids -> Check]
    BY <1>4, <2>1, CloseEffect DEF Refund
  <2>5. End(p)
    BY <1>4 DEF Refund
  <2> QED BY <1>4, <2>3, <2>4, <2>5, EndEffect DEF Refund, TypeOK, reach
<1>5. CASE RefundIfExpired(p)
  BY <1>4, <1>5 DEF RefundIfExpired
<1>6. CASE ClaimExpired(p)
  <2>1. check[t.id].total \in Nat
    BY <1>0, <1>6 DEF TxFits, ClaimExpired, TypeOK, Check
  <2> QED BY <1>4, <1>6, <2>1 DEF ClaimExpired
<1>7. CASE ClaimRefused(p)
  BY <1>7, <1>a DEF ClaimRefused, TypeOK
<1>8. CASE PayShare(p)
  <2>1. t.id \in Ids /\ t.sum \in Nat /\ t.count \in Nat /\ t.caller \in users /\ t.caller \in Users
    BY <1>0, <1>8 DEF TxFits, PayShare, Tx, TypeOK
  <2>2. PICK a \in Amounts(t) : /\ Payable(t, a) /\ Credit(t.caller, t.id, a)
                                /\ claims' = [claims EXCEPT ![t.id][t.caller] = a]
    BY <1>8 DEF PayShare
  <2>3. a \in Nat
    <3>1. check[t.id] \in Check /\ t.count < check[t.id].shares
      BY <1>8, <2>1 DEF TypeOK, PayShare, HasShare
    <3>2. a \in Int
      BY <2>1, <2>2, <3>1, DrawInt DEF Amounts
    <3> QED BY <2>2, <3>2 DEF Payable
  <2>4. balance' \in [Users -> Nat] /\ paid' \in [Ids -> Nat]
    BY <2>1, <2>2, <2>3, CreditEffect
  <2>5. claims' \in [Ids -> [Users -> Nat]]
    BY <2>1, <2>2, <2>3 DEF TypeOK
  <2>6. check' \in [Ids -> Check]
    BY <1>8, <2>1, CloseEffect DEF PayShare, TypeOK
  <2>7. End(p)
    BY <1>8 DEF PayShare
  <2> QED BY <1>8, <2>4, <2>5, <2>6, <2>7, EndEffect DEF PayShare, TypeOK, reach
<1> QED BY <1>1, <1>2, <1>3, <1>5, <1>6, <1>7, <1>8, <1>9 DEF Proceed

LEMMA OtherTypes ==
    ASSUME TypeOK, LockedInv, NEW p \in Procs,
           \/ p \in Handlers /\ Arrive(p)
           \/ Sweep
           \/ Fault(p)
           \/ Crash
           \/ \E i \in Ids : Expire(i)
           \/ \E u \in Users : PurgeUser(u)
    PROVE  TypeOK'
<1>1. ASSUME NEW q \in Procs, NEW op \in {"claim", "refund"}, NEW u \in Users \cup {None},
             NEW i \in Ids, Begin(q, op, u, i)
      PROVE  TypeOK'
  BY <1>1, BeginEffect DEF TypeOK, rows, reach
<1>2. CASE p \in Handlers /\ Arrive(p)
  BY <1>1, <1>2 DEF Arrive, BeginClaim, BeginRead
<1>3. CASE Sweep
  <2>1. CASE SweepScan
    BY <2>1 DEF SweepScan, TypeOK, rows, reach
  <2>2. ASSUME NEW i \in Ids, BeginSweep(i) PROVE TypeOK'
    BY <1>1, <2>2, ProcsFacts DEF BeginSweep
  <2> QED BY <1>3, <2>1, <2>2 DEF Sweep
<1>4. CASE Fault(p)
  BY <1>4, EndEffect DEF Fault, Rollback, TypeOK, rows, reach
<1>5. CASE Crash
  BY <1>5, TxTypes DEF Crash, TypeOK, rows, reach
<1>6. ASSUME NEW i \in Ids, Expire(i) PROVE TypeOK'
  BY <1>6 DEF Expire, TypeOK, reach
<1>7. ASSUME NEW u \in Users, PurgeUser(u) PROVE TypeOK'
  <2>1. check' \in [Ids -> Check]
    <3>1. NewCheck("erased", None, 0, 0, "random") \in Check
      BY DEF NewCheck, Check, Modes
    <3> QED BY <1>7, <3>1 DEF PurgeUser, TypeOK
  <2>2. claims' \in [Ids -> [Users -> Nat]]
    BY <1>7 DEF PurgeUser, TypeOK
  <2>3. paid' \in [Ids -> Nat] /\ balance' \in [Users -> Nat] /\ users' \subseteq Users /\ sent' \subseteq Ids
    BY <1>7 DEF PurgeUser, TypeOK
  <2>4. members' \subseteq Users /\ audience' \in [Ids -> SUBSET Users] /\ barred' \subseteq Procs
    BY <1>7 DEF PurgeUser, Claimers, TypeOK
  <2> QED BY <1>7, <2>1, <2>2, <2>3, <2>4 DEF PurgeUser, TypeOK
<1> QED BY <1>2, <1>3, <1>4, <1>5, <1>6, <1>7

----------------------------------------------------------------------------
(* A transaction that goes on with its row locked keeps what it found.     *)
LEMMA FitsKept ==
    ASSUME TypeOK, LockedInv, NEW q \in Procs, tx'[q] = tx[q], q \in barred => q \in barred',
           tx[q].pc \in Past => /\ rowLock'[tx[q].id] = q
                                /\ check'[tx[q].id].status = check[tx[q].id].status,
           Found(q) => q \in barred' \/ SameSight(tx[q].caller, tx[q].id)
    PROVE  TxFits(q)'
<1>1. TxFits(q)
  BY DEF LockedInv
<1>2. PICK t : t = tx[q]
  OBVIOUS
<1>3. ASSUME Found(q), q \notin barred', NEW i \in {t.id}, NEW u \in {t.caller}
      PROVE  Carrier(i)' = Carrier(i) /\ (Admits(Carrier(i), u, i) => Admits(Carrier(i), u, i)')
  BY <1>2, <1>3 DEF SameSight, Carrier, Admits
<1>4. tx'[q].pc = "reach" => tx'[q].via = Carrier(tx[q].id)' \/ q \in barred'
  <2>1. t.pc = "reach" => t.op = "claim" /\ (t.via = Carrier(t.id) \/ q \in barred)
    BY <1>1, <1>2 DEF TxFits
  <2> QED BY <1>2, <1>3, <2>1 DEF Found
<1>5. tx'[q].pc \in {"count", "pay"} /\ tx'[q].op = "claim" =>
        Admits(Carrier(tx[q].id), tx[q].caller, tx[q].id)' \/ q \in barred'
  <2>1. t.pc \in {"count", "pay"} /\ t.op = "claim" =>
          Admits(Carrier(t.id), t.caller, t.id) \/ q \in barred
    BY <1>1, <1>2 DEF TxFits
  <2>2. t.pc \in {"count", "pay"} /\ t.op = "claim" /\ q \notin barred' =>
          \A i \in {t.id}, u \in {t.caller} : Admits(Carrier(i), u, i)'
    BY <1>2, <1>3, <2>1 DEF Found
  <2>3. ASSUME NEW i \in {t.id}, NEW u \in {t.caller}
        PROVE  Admits(Carrier(i), u, i)' <=> Admits(Carrier(tx[q].id), tx[q].caller, tx[q].id)'
    BY <1>2 DEF Admits, Carrier
  <2> QED BY <1>2, <2>2, <2>3
<1> QED BY <1>1, <1>4, <1>5 DEF TxFits, Past

LEMMA EndFits ==
    ASSUME TypeOK, LockedInv, NEW p \in Procs, End(p), UNCHANGED <<sent, reach>>,
           \A i \in Ids : check'[i] = check[i] \/ rowLock[i] = p
    PROVE  LockedInv'
<1>1. ASSUME NEW q \in Procs PROVE TxFits(q)'
  <2>1. CASE q = p
    BY <2>1, EndEffect, TxTypes DEF TxFits, Past
  <2>2. CASE q # p
    <3>1. tx'[q] = tx[q] /\ (q \in barred => q \in barred')
      BY <2>2, EndEffect
    <3>2. ASSUME tx[q].pc \in Past
          PROVE  rowLock'[tx[q].id] = q /\ check'[tx[q].id] = check[tx[q].id]
      <4>1. tx[q].id \in Ids /\ rowLock[tx[q].id] = q
        BY <3>2 DEF LockedInv, TxFits, Past
      <4> QED BY <2>2, <4>1, EndEffect
    <3>3. Found(q) => SameSight(tx[q].caller, tx[q].id)
      BY <3>2 DEF Found, Past, SameSight, reach
    <3> QED BY <3>1, <3>2, <3>3, FitsKept
  <2> QED BY <2>1, <2>2
<1> QED BY <1>1 DEF LockedInv

LEMMA BeginFits ==
    ASSUME TypeOK, LockedInv, NEW p \in Procs, NEW op \in {"claim", "refund"},
           NEW u \in Users \cup {None}, NEW i \in Ids, Begin(p, op, u, i),
           op = "claim" => u \in Users
    PROVE  LockedInv'
<1>1. ASSUME NEW q \in Procs PROVE TxFits(q)'
  <2>1. CASE q = p
    BY <2>1, BeginEffect, TxTypes DEF TxFits, Past
  <2>2. CASE q # p
    <3>1. tx'[q] = tx[q] /\ UNCHANGED <<rows, barred, rowLock>>
      BY <2>2, BeginEffect
    <3>2. tx[q].pc \in Past => rowLock[tx[q].id] = q
      BY DEF LockedInv, TxFits
    <3>3. SameSight(tx[q].caller, tx[q].id)
      BY <3>1 DEF rows, reach, SameSight
    <3> QED BY <3>1, <3>2, <3>3, FitsKept DEF rows
  <2> QED BY <2>1, <2>2
<1> QED BY <1>1 DEF LockedInv

(* Steps of nobody's transaction leave the rows that are locked alone, and *)
(* bar whom they shut out.                                                 *)
LEMMA RowsFit ==
    ASSUME TypeOK, LockedInv, UNCHANGED <<tx, rowLock>>, barred \subseteq barred',
           \A i \in Ids : RowFree(i) \/ check[i].status = "none" \/ check'[i] = check[i],
           \A q \in Procs :
             Found(q) /\ ~RowFree(tx[q].id) /\ check[tx[q].id].status # "none" =>
               q \in barred' \/ SameSight(tx[q].caller, tx[q].id)
    PROVE  LockedInv'
<1>1. ASSUME NEW q \in Procs PROVE TxFits(q)'
  <2>1. ASSUME tx[q].pc \in Past
        PROVE  /\ rowLock'[tx[q].id] = q /\ check'[tx[q].id] = check[tx[q].id]
               /\ ~RowFree(tx[q].id) /\ check[tx[q].id].status # "none"
    <3>1. tx[q].id \in Ids /\ rowLock[tx[q].id] = q /\ check[tx[q].id].status # "none"
      BY <2>1 DEF LockedInv, TxFits, Past
    <3> QED BY <3>1, ProcsFacts DEF RowFree
  <2>2. Found(q) => q \in barred' \/ SameSight(tx[q].caller, tx[q].id)
    BY <2>1 DEF Found, Past
  <2> QED BY <2>1, <2>2, FitsKept
<1> QED BY <1>1 DEF LockedInv

LEMMA ShareFits == ASSUME TypeOK, LockedInv, Share PROVE LockedInv'
<1>0. ASSUME NEW q \in Procs, Found(q) PROVE tx[q].id \in Ids
  BY <1>0 DEF Found, LockedInv, TxFits
<1>1. ASSUME NEW i \in Ids, NEW u \in Users, NEW d \in setting.deals, NEW m \in Modes,
             Create(i, u, d[1], d[2], m)
      PROVE  LockedInv'
  <2>1. check' = [check EXCEPT ![i] = NewCheck("active", u, d[1], d[2], m)]
    BY <1>1 DEF Create
  <2>2. check' \in [Ids -> Check] /\ check \in [Ids -> Check]
    BY <1>1, ShareTypes DEF TypeOK, Share
  <2>3. \A j \in Ids : check[j].status = "none" \/ check'[j] = check[j]
    BY <1>1, <2>1, <2>2 DEF Create
  <2>4. \A q \in Procs : Found(q) /\ check[tx[q].id].status # "none" =>
          SameSight(tx[q].caller, tx[q].id)
    BY <1>0, <1>1, <2>3 DEF Create, SameSight, reach
  <2> QED BY <1>1, <2>3, <2>4, RowsFit DEF Create
<1>2. ASSUME NEW i \in Ids, AttachToPost(i) PROVE LockedInv'
  <2>1. check' = [check EXCEPT ![i].posted = TRUE] /\ check \in [Ids -> Check] /\ RowFree(i)
    BY <1>2 DEF AttachToPost, TypeOK
  <2>2. \A j \in Ids : j # i => check'[j] = check[j]
    BY <2>1
  <2>3. \A q \in Procs : Found(q) /\ ~RowFree(tx[q].id) => SameSight(tx[q].caller, tx[q].id)
    BY <1>0, <1>2, <2>1, <2>2 DEF AttachToPost, SameSight, reach
  <2> QED BY <1>2, <2>1, <2>2, <2>3, RowsFit DEF AttachToPost
<1>3. ASSUME NEW u \in Users, NEW i \in Ids, ValidateOwnedActive(u, i) PROVE LockedInv'
  <2>1. \A q \in Procs : SameSight(tx[q].caller, tx[q].id)
    BY <1>3 DEF ValidateOwnedActive, SameSight, rows, reach
  <2> QED BY <1>3, <2>1, RowsFit DEF ValidateOwnedActive, rows
<1>4. ASSUME NEW u \in Users, NEW i \in Ids, InsertMessage(u, i) PROVE LockedInv'
  <2>1. \A j \in Ids : j # i => (j \in sent' <=> j \in sent)
    BY <1>4 DEF InsertMessage
  <2>2. \A q \in Procs : Found(q) /\ ~RowFree(tx[q].id) => SameSight(tx[q].caller, tx[q].id)
    BY <1>0, <1>4, <2>1 DEF InsertMessage, SameSight, reach
  <2> QED BY <1>4, <2>2, RowsFit DEF InsertMessage
<1>5. ASSUME NEW i \in Ids, DeleteMessage(i) PROVE LockedInv'
  <2>1. ASSUME NEW q \in Procs, Found(q) PROVE q \in barred' \/ SameSight(tx[q].caller, tx[q].id)
    <3>1. CASE tx[q].id = i
      <4>1. tx[q].caller \in Users
        BY <2>1 DEF Found, LockedInv, TxFits
      <4> QED BY <1>5, <2>1, <3>1, <4>1 DEF DeleteMessage, Claimers, Found
    <3>2. CASE tx[q].id # i
      BY <1>5, <3>2 DEF DeleteMessage, SameSight
    <3> QED BY <3>1, <3>2
  <2> QED BY <1>5, <2>1, RowsFit DEF DeleteMessage
<1> QED BY <1>1, <1>2, <1>3, <1>4, <1>5 DEF Share

LEMMA MeanwhileFits == ASSUME TypeOK, LockedInv, Meanwhile PROVE LockedInv'
<1>0. ASSUME NEW q \in Procs, Found(q) PROVE tx[q].id \in Ids /\ tx[q].caller \in Users
  BY <1>0 DEF Found, LockedInv, TxFits
<1>1. ASSUME NEW u \in Users, EnterConversation(u) PROVE LockedInv'
  <2>1. \A q \in Procs : SameSight(tx[q].caller, tx[q].id)
    BY <1>1 DEF EnterConversation, SameSight
  <2> QED BY <1>1, <2>1, RowsFit DEF EnterConversation
<1>2. ASSUME NEW u \in Users, LeaveConversation(u) PROVE LockedInv'
  <2>1. ASSUME NEW q \in Procs, Found(q) PROVE q \in barred' \/ SameSight(tx[q].caller, tx[q].id)
    <3>1. CASE tx[q].caller = u /\ tx[q].id \in sent
      <4>1. q \in Claimers({u}, tx[q].id)
        BY <2>1, <3>1 DEF Found, Claimers
      <4> QED BY <1>2, <3>1, <4>1 DEF LeaveConversation
    <3>2. CASE ~(tx[q].caller = u /\ tx[q].id \in sent)
      BY <1>2, <3>2 DEF LeaveConversation, SameSight
    <3> QED BY <3>1, <3>2
  <2> QED BY <1>2, <2>1, RowsFit DEF LeaveConversation
<1>3. ASSUME NEW i \in Ids, NEW s, ChangeAudience(i, s) PROVE LockedInv'
  <2>1. ASSUME NEW q \in Procs, Found(q) PROVE q \in barred' \/ SameSight(tx[q].caller, tx[q].id)
    <3>1. CASE tx[q].id = i /\ Carrier(i) = "post" /\ tx[q].caller \notin s
      <4>1. q \in Claimers(Users \ s, i)
        BY <1>0, <2>1, <3>1 DEF Found, Claimers
      <4> QED BY <1>3, <3>1, <4>1 DEF ChangeAudience
    <3>2. CASE tx[q].id = i /\ (Carrier(i) # "post" \/ tx[q].caller \in s)
      BY <1>3, <3>2 DEF ChangeAudience, SameSight, Carrier, TypeOK
    <3>3. CASE tx[q].id # i
      BY <1>3, <3>3 DEF ChangeAudience, SameSight, TypeOK
    <3> QED BY <3>1, <3>2, <3>3
  <2> QED BY <1>3, <2>1, RowsFit DEF ChangeAudience
<1> QED BY <1>1, <1>2, <1>3 DEF Meanwhile

(* What a step of a transaction does to the row of its check when it ends. *)
LEMMA EndLocked ==
    ASSUME TypeOK, LockedInv, NEW p \in Procs, End(p), UNCHANGED <<sent, reach>>,
           check' \in [Ids -> Check], tx[p].id \in Ids,
           \/ UNCHANGED check
           \/ /\ tx[p].pc \in Past
              /\ \A j \in Ids : j # tx[p].id => check'[j] = check[j]
    PROVE  LockedInv'
<1>1. tx[p].pc \in Past => rowLock[tx[p].id] = p
  BY DEF LockedInv, TxFits
<1> QED BY <1>1, EndFits

LEMMA ProceedFits == ASSUME TypeOK, LockedInv, NEW p \in Procs, Proceed(p) PROVE LockedInv'
<1> DEFINE t == tx[p]
<1>0. t \in Tx /\ TxFits(p) /\ check \in [Ids -> Check]
  BY DEF TypeOK, LockedInv
<1>a. ASSUME Rollback(p), t.pc # "idle" PROVE LockedInv'
  <2>1. t.id \in Ids
    BY <1>0, <1>a DEF TxFits
  <2> QED BY <1>0, <1>a, <2>1, EndLocked DEF Rollback, rows
<1>b. ASSUME tx' = [tx EXCEPT ![p] = tx'[p]], UNCHANGED <<rows, barred>>, TxFits(p)',
             \A q \in Procs : q # p /\ tx[q].pc \in Past => rowLock'[tx[q].id] = rowLock[tx[q].id]
      PROVE  LockedInv'
  <2>1. ASSUME NEW q \in Procs, q # p PROVE TxFits(q)'
    <3>1. tx'[q] = tx[q] /\ UNCHANGED <<check, sent, reach, barred>>
      BY <1>b, <2>1 DEF TypeOK, rows
    <3>2. tx[q].pc \in Past => rowLock'[tx[q].id] = q
      BY <1>b, <2>1 DEF LockedInv, TxFits
    <3>3. SameSight(tx[q].caller, tx[q].id)
      BY <3>1 DEF SameSight, reach
    <3> QED BY <3>1, <3>2, <3>3, FitsKept
  <2> QED BY <1>b, <2>1 DEF LockedInv
<1>c. ASSUME UNCHANGED rows, NEW c, NEW i \in {t.id}, NEW u \in {t.caller}
      PROVE  Carrier(i)' = Carrier(i) /\ (Admits(c, u, i)' <=> Admits(c, u, i))
  BY <1>c DEF rows, reach, Carrier, Admits
<1>1. CASE LockRow(p)
  <2>1. CASE Rollback(p)
    BY <1>1, <1>a, <2>1 DEF LockRow
  <2>2. CASE ~Rollback(p)
    <3>1. /\ t.pc = "lock" /\ RowFree(t.id) /\ t.id \in Ids
          /\ rowLock' = [rowLock EXCEPT ![t.id] = p]
          /\ tx' = [tx EXCEPT ![p].pc = IF t.op = "claim" THEN "carrier" ELSE "count"]
          /\ UNCHANGED <<rows, barred>>
          /\ IF t.op = "refund" THEN check[t.id].status = "active" /\ t.id \in expired
                                ELSE check[t.id].status \notin {"none", "erased"}
      BY <1>0, <1>1, <2>2 DEF LockRow, TxFits
    <3>2. /\ tx'[p].id = t.id /\ tx'[p].op = t.op /\ tx'[p].caller = t.caller
          /\ tx'[p].pc = IF t.op = "claim" THEN "carrier" ELSE "count"
          /\ rowLock'[t.id] = p
      BY <1>0, <3>1 DEF TypeOK, Tx
    <3>3. TxFits(p)'
      BY <1>0, <3>1, <3>2 DEF TxFits, Past, Tx, rows
    <3>4. ASSUME NEW q \in Procs, tx[q].pc \in Past PROVE rowLock'[tx[q].id] = rowLock[tx[q].id]
      <4>1. tx[q].id \in Ids /\ rowLock[tx[q].id] = q /\ q # None
        BY <3>4, ProcsFacts DEF LockedInv, TxFits, Past
      <4>2. tx[q].id # t.id
        BY <3>1, <4>1 DEF RowFree
      <4> QED BY <3>1, <4>1, <4>2 DEF TypeOK
    <3>5. tx' = [tx EXCEPT ![p] = tx'[p]]
      BY <3>1 DEF TypeOK
    <3> QED BY <1>b, <3>1, <3>3, <3>4, <3>5
  <2> QED BY <2>1, <2>2
<1>2. CASE ReadReach(p)
  <2>1. CASE Rollback(p)
    BY <1>2, <1>a, <2>1 DEF ReadReach
  <2>2. CASE ~Rollback(p)
    <3>1. /\ t.pc = "reach" /\ Admits(t.via, t.caller, t.id)
          /\ tx' = [tx EXCEPT ![p].pc = "count"]
          /\ UNCHANGED <<rows, barred, rowLock>>
      BY <1>2, <2>2 DEF ReadReach
    <3>2. /\ tx'[p].id = t.id /\ tx'[p].op = t.op /\ tx'[p].caller = t.caller /\ tx'[p].pc = "count"
          /\ tx' = [tx EXCEPT ![p] = tx'[p]]
      BY <1>0, <3>1 DEF TypeOK, Tx
    <3>3. t.op = "claim" /\ (Admits(Carrier(t.id), t.caller, t.id) \/ p \in barred)
      BY <1>0, <3>1 DEF TxFits
    <3>4. TxFits(p)'
      <4>1. Admits(Carrier(tx[p].id), tx[p].caller, tx[p].id)' \/ p \in barred'
        BY <3>1, <3>2, <3>3 DEF Admits, Carrier, rows, reach
      <4> QED BY <1>0, <3>1, <3>2, <4>1 DEF TxFits, Past, rows
    <3> QED BY <1>b, <3>1, <3>2, <3>4
  <2> QED BY <2>1, <2>2
<1>9. CASE FindCarrier(p)
  <2>1. /\ t.pc = "carrier" /\ UNCHANGED <<rows, barred, rowLock>>
        /\ tx' = [tx EXCEPT ![p].pc = IF Carrier(t.id) = "none" THEN "count" ELSE "reach",
                            ![p].via = Carrier(t.id)]
    BY <1>9 DEF FindCarrier
  <2>2. /\ tx'[p].id = t.id /\ tx'[p].op = t.op /\ tx'[p].caller = t.caller
        /\ tx'[p].pc = (IF Carrier(t.id) = "none" THEN "count" ELSE "reach")
        /\ tx'[p].via = Carrier(t.id)
        /\ tx' = [tx EXCEPT ![p] = tx'[p]]
    BY <1>0, <2>1 DEF TypeOK, Tx
  <2>3. Carrier(tx[p].id)' = Carrier(tx[p].id)
    BY <2>1, <2>2 DEF Carrier, rows
  <2>4. Carrier(t.id) = "none" => Admits(Carrier(tx[p].id), tx[p].caller, tx[p].id)'
    BY <2>3 DEF Admits
  <2>5. TxFits(p)'
    BY <1>0, <2>1, <2>2, <2>3, <2>4 DEF TxFits, Past, rows
  <2> QED BY <1>b, <2>1, <2>2, <2>5
<1>3. CASE CountClaims(p)
  <2>1. /\ t.pc = "count" /\ UNCHANGED <<rows, barred, rowLock>>
        /\ tx' = [tx EXCEPT ![p].pc = "pay", ![p].sum = Claimed(t.id),
                            ![p].count = Cardinality(Claimants(t.id))]
    BY <1>3 DEF CountClaims
  <2>2. /\ tx'[p].id = t.id /\ tx'[p].op = t.op /\ tx'[p].caller = t.caller /\ tx'[p].pc = "pay"
        /\ tx' = [tx EXCEPT ![p] = tx'[p]]
    BY <1>0, <2>1 DEF TypeOK, Tx
  <2>3. TxFits(p)'
    <3>1. t.op = "claim" => Admits(Carrier(t.id), t.caller, t.id) \/ p \in barred
      BY <1>0, <2>1 DEF TxFits
    <3>2. t.op = "claim" => Admits(Carrier(tx[p].id), tx[p].caller, tx[p].id)' \/ p \in barred'
      BY <2>1, <2>2, <3>1 DEF Admits, Carrier, rows, reach
    <3> QED BY <1>0, <2>1, <2>2, <3>2 DEF TxFits, Past, rows
  <2> QED BY <1>b, <2>1, <2>2, <2>3
<1>4. ASSUME NEW st \in {"settled", "refunded"}, t.pc = "pay", End(p), UNCHANGED <<sent, reach>>,
             Close(t.id, st) \/ UNCHANGED check
      PROVE  LockedInv'
  <2>1. t.id \in Ids
    BY <1>0, <1>4 DEF TxFits
  <2>2. CASE Close(t.id, st)
    BY <1>4, <2>1, <2>2, CloseEffect, EndLocked DEF Past
  <2>3. CASE UNCHANGED check
    BY <1>0, <1>4, <2>1, <2>3, EndLocked
  <2> QED BY <1>4, <2>2, <2>3
<1>5. CASE RefundIfExpired(p)
  BY <1>4, <1>5 DEF RefundIfExpired, Refund
<1>6. CASE ClaimExpired(p)
  BY <1>4, <1>6 DEF ClaimExpired, Refund
<1>7. CASE ClaimRefused(p)
  BY <1>7, <1>a DEF ClaimRefused
<1>8. CASE PayShare(p)
  BY <1>4, <1>8 DEF PayShare
<1> QED BY <1>1, <1>2, <1>3, <1>5, <1>6, <1>7, <1>8, <1>9 DEF Proceed

LEMMA OtherFits ==
    ASSUME TypeOK, LockedInv, NEW p \in Procs,
           \/ p \in Handlers /\ Arrive(p)
           \/ Sweep
           \/ Fault(p)
           \/ Crash
           \/ \E i \in Ids : Expire(i)
           \/ \E u \in Users : PurgeUser(u)
    PROVE  LockedInv'
<1>0. ASSUME UNCHANGED <<check, sent, reach>>
      PROVE  \A q \in Procs : SameSight(tx[q].caller, tx[q].id)
  BY <1>0 DEF SameSight, reach
<1>1. ASSUME NEW q \in Procs, NEW op \in {"claim", "refund"}, NEW u \in Users \cup {None},
             NEW i \in Ids, Begin(q, op, u, i), op = "claim" => u \in Users
      PROVE  LockedInv'
  BY <1>1, BeginFits
<1>2. CASE p \in Handlers /\ Arrive(p)
  BY <1>1, <1>2 DEF Arrive, BeginClaim, BeginRead
<1>3. CASE Sweep
  <2>1. CASE SweepScan
    BY <1>0, <2>1, RowsFit DEF SweepScan, rows
  <2>2. ASSUME NEW i \in Ids, BeginSweep(i) PROVE LockedInv'
    BY <1>1, <2>2, ProcsFacts DEF BeginSweep
  <2> QED BY <1>3, <2>1, <2>2 DEF Sweep
<1>4. CASE Fault(p)
  BY <1>4, EndFits DEF Fault, Rollback, rows
<1>5. CASE Crash
  BY <1>5, TxTypes DEF Crash, LockedInv, TxFits, Past
<1>6. ASSUME NEW i \in Ids, Expire(i) PROVE LockedInv'
  BY <1>0, <1>6, RowsFit DEF Expire
<1>7. ASSUME NEW u \in Users, PurgeUser(u) PROVE LockedInv'
  <2>1. ASSUME NEW i \in Ids, ~RowFree(i)
        PROVE  check'[i] = check[i] /\ (i \in sent' <=> i \in sent)
    <3>1. check[i].creator # u
      BY <1>7, <2>1 DEF PurgeUser
    <3>2. check'[i] = IF check[i].creator = u THEN NewCheck("erased", None, 0, 0, "random")
                                              ELSE check[i]
      BY <1>7, <2>1 DEF PurgeUser
    <3>3. i \in sent' <=> i \in sent
      BY <1>7, <2>1, <3>1 DEF PurgeUser
    <3> QED BY <3>1, <3>2, <3>3
  <2>2. ASSUME NEW q \in Procs, Found(q), ~RowFree(tx[q].id)
        PROVE  q \in barred' \/ SameSight(tx[q].caller, tx[q].id)
    <3>1. tx[q].id \in Ids
      BY <2>2 DEF Found, LockedInv, TxFits
    <3>2. CASE tx[q].caller = u
      <4>1. q \in Claimers({u}, tx[q].id)
        BY <2>2, <3>2 DEF Found, Claimers
      <4> QED BY <1>7, <3>1, <4>1 DEF PurgeUser
    <3>3. CASE tx[q].caller # u
      BY <1>7, <2>1, <2>2, <3>1, <3>3 DEF PurgeUser, SameSight
    <3> QED BY <3>2, <3>3
  <2> QED BY <1>7, <2>1, <2>2, RowsFit DEF PurgeUser
<1> QED BY <1>2, <1>3, <1>4, <1>5, <1>6, <1>7

LEMMA TypeStep == ASSUME TypeOK, LockedInv, [Next]_vars PROVE TypeOK' /\ LockedInv'
<1>1. CASE UNCHANGED vars
  <2>1. TypeOK'
    BY <1>1 DEF vars, reach, TypeOK
  <2>2. \A q \in Procs : SameSight(tx[q].caller, tx[q].id)
    BY <1>1 DEF vars, reach, SameSight
  <2> QED BY <1>1, <2>1, <2>2, RowsFit DEF vars
<1>2. CASE Next
  BY <1>2, ProcsFacts, ShareTypes, ShareFits, MeanwhileTypes, MeanwhileFits, ProceedTypes,
     ProceedFits, OtherTypes, OtherFits DEF Next
<1> QED BY <1>1, <1>2

(* Every variable keeps the shape its declaration gives it: a wallet never *)
(* goes below zero (the conditional debit of Create, the non-negative      *)
(* refunds), and a claim draws a whole number of cents.                    *)
THEOREM TypesHold == Spec => []TypeOK
<1>1. Init => TypeOK /\ LockedInv
  BY InitTypes
<1>2. TypeOK /\ LockedInv /\ [Next]_vars => (TypeOK /\ LockedInv)'
  BY TypeStep
<1> QED BY <1>1, <1>2, PTL DEF Spec

----------------------------------------------------------------------------
(* The step property of PaidInTime.                                        *)
InTime(i) ==
    /\ check[i].status \in {"settled", "refunded"} =>
         check'[i].status \in {check[i].status, "erased"} /\ paid'[i] <= paid[i]
    /\ \A u \in Users :
         claims'[i][u] > claims[i][u] =>
           Visible(u, i) \/ \E p \in barred : tx[p].caller = u /\ tx[p].id = i

(* Steps that neither pay nor close anything.                              *)
Quiet == UNCHANGED <<users, balance, check, claims, paid, setting>>

LEMMA QuietSteps ==
    ASSUME NEW p \in Procs,
           \/ \E u \in Users, i \in Ids : ValidateOwnedActive(u, i) \/ InsertMessage(u, i)
           \/ \E i \in Ids : DeleteMessage(i)
           \/ Meanwhile
           \/ Arrive(p)
           \/ LockRow(p) \/ FindCarrier(p) \/ ReadReach(p) \/ CountClaims(p) \/ ClaimRefused(p)
           \/ Sweep \/ Fault(p) \/ Crash
           \/ \E i \in Ids : Expire(i)
           \/ UNCHANGED vars
    PROVE  Quiet
BY DEF Quiet, rows, vars, ValidateOwnedActive, InsertMessage, DeleteMessage, Meanwhile,
       EnterConversation, LeaveConversation, ChangeAudience, Arrive, BeginClaim, BeginRead, Begin,
       LockRow, FindCarrier, ReadReach, CountClaims, ClaimRefused, Rollback, Sweep, SweepScan,
       BeginSweep, Fault, Crash, Expire

(* A share is paid or a check closed at its last statement only, with the  *)
(* row locked and active.                                                  *)
Paying(p) == tx[p].pc = "pay" /\ tx[p].id \in Ids /\ check[tx[p].id].status = "active"

LEMMA PayFacts ==
    ASSUME TypeOK, LockedInv, NEW p \in Procs, PayShare(p)
    PROVE  /\ Paying(p) /\ tx[p].caller \in users /\ tx[p].caller \in Users
           /\ tx[p].sum \in Nat /\ tx[p].count \in Nat /\ HasShare(tx[p])
           /\ Visible(tx[p].caller, tx[p].id) \/ p \in barred
           /\ End(p) /\ UNCHANGED <<users, expired, sent, reach, faults, setting>>
           /\ IF tx[p].count + 1 >= check[tx[p].id].shares THEN Close(tx[p].id, "settled")
                                                           ELSE UNCHANGED check
           /\ \E a \in Nat \ {0} :
                /\ a \in Amounts(tx[p]) /\ Payable(tx[p], a) /\ Credit(tx[p].caller, tx[p].id, a)
                /\ claims' = [claims EXCEPT ![tx[p].id][tx[p].caller] = a]
<1> DEFINE t == tx[p]
<1>1. t \in Tx /\ TxFits(p) /\ t.pc = "pay" /\ t.op = "claim"
  BY DEF TypeOK, LockedInv, PayShare
<1>2. t.id \in Ids /\ t.caller \in users /\ t.caller \in Users /\ t.sum \in Nat /\ t.count \in Nat
  BY <1>1 DEF PayShare, TypeOK, TxFits, Tx
<1>3. Paying(p) /\ HasShare(t) /\ (Visible(t.caller, t.id) \/ p \in barred)
  BY <1>1, <1>2 DEF PayShare, Paying, HasShare, Claimable, TxFits, Visible
<1>4. PICK a \in Amounts(t) : /\ Payable(t, a) /\ Credit(t.caller, t.id, a)
                              /\ claims' = [claims EXCEPT ![t.id][t.caller] = a]
  BY DEF PayShare
<1>5. a \in Nat \ {0}
  <2>1. check[t.id] \in Check /\ t.count < check[t.id].shares
    BY <1>2, <1>3 DEF TypeOK, HasShare
  <2>2. a \in Int
    BY <1>2, <1>4, <2>1, DrawInt DEF Amounts
  <2> QED BY <1>4, <2>2 DEF Payable
<1>6. /\ End(p) /\ UNCHANGED <<users, expired, sent, reach, faults, setting>>
      /\ IF t.count + 1 >= check[t.id].shares THEN Close(t.id, "settled") ELSE UNCHANGED check
  BY DEF PayShare
<1> QED BY <1>2, <1>3, <1>4, <1>5, <1>6

LEMMA RefundFacts ==
    ASSUME TypeOK, LockedInv, NEW p \in Procs, RefundIfExpired(p) \/ ClaimExpired(p)
    PROVE  \E amount \in Nat :
             /\ Paying(p) /\ End(p) /\ Close(tx[p].id, "refunded")
             /\ tx[p].sum \in Nat /\ tx[p].count \in Nat
             /\ Credit(check[tx[p].id].creator, tx[p].id, amount)
             /\ amount = 0 \/ amount = check[tx[p].id].total - tx[p].sum
             /\ UNCHANGED <<users, claims, expired, sent, faults, setting>>
<1> DEFINE t == tx[p]
           c == check[t.id]
<1>1. t \in Tx /\ TxFits(p) /\ t.pc = "pay"
  BY DEF TypeOK, LockedInv, RefundIfExpired, ClaimExpired
<1>2. t.id \in Ids /\ t.sum \in Nat /\ t.count \in Nat
  BY <1>1 DEF TxFits, Tx
<1>3. Paying(p)
  BY <1>1, <1>2 DEF Paying, TxFits, Past, RefundIfExpired, ClaimExpired
<1>4. c.total \in Nat
  BY <1>2 DEF TypeOK, Check
<1>5. PICK total \in {0, c.total} : Refund(p, total)
  BY DEF RefundIfExpired, ClaimExpired
<1>6. /\ Remaining(total, t.sum) \in Nat
      /\ Remaining(total, t.sum) = 0 \/ Remaining(total, t.sum) = c.total - t.sum
  BY <1>2, <1>4, <1>5 DEF Remaining
<1> QED BY <1>2, <1>3, <1>5, <1>6 DEF Refund

LEMMA InTimeStep == ASSUME TypeOK, LockedInv, [Next]_vars PROVE \A i \in Ids : InTime(i)
<1> SUFFICES ASSUME NEW i \in Ids PROVE InTime(i)
  OBVIOUS
<1>0. paid[i] \in Nat /\ check \in [Ids -> Check] /\ claims \in [Ids -> [Users -> Nat]]
  BY DEF TypeOK
<1>a. ASSUME UNCHANGED <<claims, paid>>, check'[i].status = check[i].status \/ check[i].status = "none"
      PROVE  InTime(i)
  BY <1>0, <1>a DEF InTime
<1>1. CASE Quiet
  BY <1>1, <1>a DEF Quiet
<1>2. ASSUME NEW j \in Ids, NEW u \in Users, NEW d \in setting.deals, NEW m \in Modes,
             Create(j, u, d[1], d[2], m)
      PROVE  InTime(i)
  BY <1>0, <1>2, <1>a DEF Create
<1>3. ASSUME NEW j \in Ids, AttachToPost(j) PROVE InTime(i)
  BY <1>0, <1>3, <1>a DEF AttachToPost, Check
<1>4. ASSUME NEW p \in Procs, RefundIfExpired(p) \/ ClaimExpired(p) PROVE InTime(i)
  <2>1. PICK amount \in Nat : /\ Paying(p) /\ Close(tx[p].id, "refunded") /\ UNCHANGED claims
                              /\ Credit(check[tx[p].id].creator, tx[p].id, amount)
    BY <1>4, RefundFacts
  <2>2. i # tx[p].id => check'[i] = check[i] /\ paid'[i] = paid[i]
    BY <2>1 DEF Close, Credit, Paying, TypeOK
  <2> QED BY <1>0, <2>1, <2>2 DEF InTime, Paying
<1>5. ASSUME NEW p \in Procs, PayShare(p) PROVE InTime(i)
  <2>1. PICK a \in Nat : /\ Credit(tx[p].caller, tx[p].id, a)
                         /\ claims' = [claims EXCEPT ![tx[p].id][tx[p].caller] = a]
    BY <1>5, PayFacts
  <2>2. /\ Paying(p) /\ tx[p].caller \in Users
        /\ Visible(tx[p].caller, tx[p].id) \/ p \in barred
        /\ Close(tx[p].id, "settled") \/ UNCHANGED check
    BY <1>5, PayFacts
  <2>3. i # tx[p].id => check'[i] = check[i] /\ paid'[i] = paid[i] /\ claims'[i] = claims[i]
    BY <1>0, <2>1, <2>2 DEF Close, Credit, Paying, TypeOK
  <2>4. ASSUME NEW u \in Users, claims'[i][u] > claims[i][u]
        PROVE  Visible(u, i) \/ \E q \in barred : tx[q].caller = u /\ tx[q].id = i
    <3>1. i = tx[p].id
      BY <1>0, <2>3, <2>4
    <3>2. u = tx[p].caller
      BY <1>0, <2>1, <2>4, <3>1
    <3> QED BY <2>2, <3>1, <3>2
  <2> QED BY <1>0, <2>2, <2>3, <2>4 DEF InTime, Paying
<1>6. ASSUME NEW v \in Users, PurgeUser(v) PROVE InTime(i)
  <2>1. check'[i].status \in {check[i].status, "erased"} /\ paid'[i] <= paid[i]
    BY <1>0, <1>6 DEF PurgeUser, NewCheck
  <2>2. \A u \in Users : claims'[i][u] <= claims[i][u]
    BY <1>0, <1>6 DEF PurgeUser
  <2>3. \A u \in Users : claims[i][u] \in Nat /\ claims'[i][u] \in Nat
    BY <1>6, TypeStep DEF TypeOK, Next
  <2> QED BY <2>1, <2>2, <2>3 DEF InTime
<1> QED BY <1>1, <1>2, <1>3, <1>4, <1>5, <1>6, QuietSteps, ProcsFacts DEF Next, Share, Proceed

(* However claims, refunds, the sweeper, faults and purges interleave, a   *)
(* closed check is never touched again - no late claim, no second refund - *)
(* and a share goes to somebody who sees the check at that moment, or whom *)
(* a change of the members, of the audience or of the message has shut out *)
(* since Claim, outside its transaction, found what the check travels with; *)
(* that it is attached to a post or sent meanwhile shuts out nobody.       *)
THEOREM PaidInTimeHolds == Spec => PaidInTime
<1>1. Init => TypeOK /\ LockedInv
  BY InitTypes
<1>2. TypeOK /\ LockedInv /\ [Next]_vars => (TypeOK /\ LockedInv)'
  BY TypeStep
<1>3. TypeOK /\ LockedInv /\ [Next]_vars => [\A i \in Ids : InTime(i)]_vars
  BY InTimeStep
<1> QED BY <1>1, <1>2, <1>3, PTL DEF Spec, PaidInTime, InTime

----------------------------------------------------------------------------
Taken(i) == Cardinality(Claimants(i))
Funded(c) == c.total >= c.shares
Part(c) == c.total \div c.shares

(* The row of a check and its claims: an active check has a share left; if *)
(* it has a cent for each share it keeps one for each share that is left;  *)
(* and equal parts are equal.                                              *)
RowInv(i) ==
    LET c == check[i]
    IN  /\ c.status = "none" => c.total = 0 /\ paid[i] = 0 /\ claims[i] = [u \in Users |-> 0]
        /\ c.status \notin {"none", "erased"} => c.creator \in Users /\ c.shares > 0
        /\ c.status = "active" =>
             /\ Taken(i) < c.shares
             /\ Funded(c) => c.total - Claimed(i) >= c.shares - Taken(i)
             /\ c.mode = "average" => /\ Claimed(i) = Taken(i) * Part(c)
                                      /\ \A u \in Users : claims[i][u] \in {0, Part(c)}

(* What a transaction has read of the claims: a purge may have taken some  *)
(* of them away since, but nobody has added one.                           *)
SnapInv(p) ==
    LET t == tx[p]
        i == t.id
        c == check[i]
    IN  t.pc = "pay" =>
          /\ Claimed(i) <= t.sum /\ Taken(i) <= t.count
          /\ t.count - Taken(i) <= t.sum - Claimed(i)
          /\ c.status = "active" =>
               /\ Funded(c) => c.total - t.sum >= c.shares - t.count
               /\ c.mode = "average" => t.sum = t.count * Part(c)

(* While nobody has been purged, claims tell what was paid, and what a     *)
(* transaction has read of them is still so.                               *)
WholeRow(i) ==
    LET c == check[i]
    IN  /\ Claimed(i) <= c.total /\ paid[i] <= c.total
        /\ c.status = "active" => paid[i] = Claimed(i)
        /\ c.status = "settled" => Taken(i) = c.shares /\ Claimed(i) = c.total

WholeTx(p) ==
    tx[p].pc = "pay" => tx[p].sum = Claimed(tx[p].id) /\ tx[p].count = Taken(tx[p].id)

Whole ==
    users = setting.users =>
      (\A i \in Ids : WholeRow(i)) /\ (\A p \in Procs : WholeTx(p)) /\ CoinsAccounted

RowsInv == \A i \in Ids : RowInv(i)
SnapsInv == \A p \in Procs : SnapInv(p)

IInv == TypeOK /\ LockedInv /\ RowsInv /\ SnapsInv /\ users \subseteq setting.users /\ Whole

----------------------------------------------------------------------------
LEMMA ClaimTypes ==
    ASSUME TypeOK, NEW i \in Ids
    PROVE  /\ claims[i] \in [Users -> Nat] /\ Claimed(i) \in Nat /\ Taken(i) \in Nat
           /\ IsFiniteSet(Claimants(i)) /\ Taken(i) <= Claimed(i)
           /\ check[i] \in Check /\ paid[i] \in Nat
           /\ check[i].total \in Nat /\ check[i].shares \in Nat /\ check[i].mode \in Modes
BY Counting DEF TypeOK, Claimed, Taken, Claimants, Check, Takers

LEMMA PartFacts ==
    ASSUME NEW c, c.total \in Nat, c.shares \in Nat, c.shares > 0
    PROVE  /\ Part(c) \in Nat /\ c.shares * Part(c) <= c.total
           /\ Funded(c) => Part(c) >= 1
<1> DEFINE t == c.total
           s == c.shares
<1> HIDE DEF t, s
<1>1. t \in Nat /\ s \in Nat /\ s > 0
  BY DEF t, s
<1>2. /\ t \div s \in Nat /\ s * (t \div s) <= t
      /\ t >= s => t \div s >= 1
  BY <1>1
<1> QED BY <1>2 DEF t, s, Part, Funded

LEMMA Products ==
    ASSUME NEW n \in Nat, NEW s \in Nat, NEW q \in Nat, n < s
    PROVE  /\ (n + 1) * q = n * q + q /\ n * q + q <= s * q
           /\ q >= 1 => s * q - (n * q + q) >= s - (n + 1)
<1>1. PICK k \in Nat : s = n + 1 + k
  <2>1. s - n - 1 \in Nat /\ s = n + 1 + (s - n - 1)
    OBVIOUS
  <2> QED BY <2>1
<1>2. (n + 1) * q = n * q + q /\ s * q = n * q + q + k * q
  BY <1>1
<1>3. k * q \in Nat /\ n * q \in Nat
  OBVIOUS
<1>4. q >= 1 => k * q >= k
  OBVIOUS
<1> QED BY <1>1, <1>2, <1>3, <1>4

(* What a claim draws leaves a cent for every share that is left.          *)
LEMMA DrawFits ==
    ASSUME NEW c \in Check, c.shares > 0, NEW sum \in Nat, NEW count \in Nat, count < c.shares,
           Funded(c) => c.total - sum >= c.shares - count,
           c.mode = "average" => sum = count * Part(c),
           NEW a \in Draw(c, sum, count)
    PROVE  /\ Funded(c) => 1 <= a /\ a <= c.total - sum
           /\ c.shares - count = 1 => a = c.total - sum
           /\ c.shares - count # 1 =>
                /\ c.mode = "average" => a = Part(c)
                /\ Funded(c) => c.total - sum - a >= c.shares - count - 1
<1> DEFINE t == c.total
           s == c.shares
           q == Part(c)
           left == s - count
           remaining == t - sum
<1>1. t \in Nat /\ s \in Nat /\ s > 0 /\ remaining \in Int /\ left \in Nat \ {0}
  BY DEF Check
<1>2. q \in Nat /\ s * q <= t /\ (Funded(c) => q >= 1)
  BY <1>1, PartFacts
<1>3. CASE left = 1
  BY <1>1, <1>3 DEF Draw, Funded
<1>4. CASE left # 1 /\ c.mode = "average"
  <2>1. a = q
    BY <1>4 DEF Draw, Part
  <2>2. sum = count * q
    BY <1>4
  <2> DEFINE x == count * q
             y == s * q
  <2>3. /\ x + q <= y /\ x \in Nat /\ y \in Nat /\ y <= t /\ sum = x
        /\ q >= 1 => y - (x + q) >= s - (count + 1)
    BY <1>1, <1>2, <2>2, Products
  <2> HIDE DEF x, y, q, t, s
  <2>4. remaining - q >= y - (x + q)
    BY <1>1, <1>2, <2>3
  <2>5. Funded(c) => 1 <= a /\ a <= remaining /\ remaining - a >= left - 1
    BY <1>1, <1>2, <2>1, <2>3, <2>4
  <2> QED BY <1>4, <2>1, <2>5 DEF t, s, q
<1>5. CASE left # 1 /\ c.mode # "average"
  <2> DEFINE upper == AtLeastOne(2 * (remaining \div left) - 1)
             most == AtLeastOne(remaining - (left - 1))
  <2>1. PICK b \in 1..upper : a = IF b > most THEN most ELSE b
    BY <1>5 DEF Draw
  <2>2. upper \in Int
    <3>1. remaining \div left \in Int
      BY <1>1
    <3> QED BY <3>1 DEF AtLeastOne
  <2>3. most \in Int /\ most >= 1 /\ (remaining >= left => most = remaining - (left - 1))
    BY <1>1 DEF AtLeastOne
  <2> HIDE DEF upper, most
  <2>4. a \in Int /\ 1 <= a /\ a <= most
    BY <2>1, <2>2, <2>3
  <2> QED BY <1>1, <1>5, <2>3, <2>4
<1> QED BY <1>3, <1>4, <1>5

(* One claim more, or one less.                                            *)
LEMMA ClaimUpdate ==
    ASSUME NEW c \in [Users -> Nat], NEW u \in Users, NEW v \in Nat, NEW d, d = [c EXCEPT ![u] = v]
    PROVE  /\ SumFunction(d) = SumFunction(c) + v - c[u]
           /\ c[u] = 0 /\ v > 0 => Cardinality(Takers(d)) = Cardinality(Takers(c)) + 1
           /\ c[u] > 0 /\ v = 0 => Cardinality(Takers(d)) = Cardinality(Takers(c)) - 1
           /\ c[u] = 0 /\ v = 0 => d = c
<1>1. IsFiniteSet(Users) /\ IsFiniteSet(Takers(c))
  BY ChecksAssumption, Counting
<1>2. SumFunction(d) = SumFunction(c) + v - c[u]
  <2>1. c \in [Users -> Int] /\ v \in Int
    OBVIOUS
  <2>2. SumFunction([c EXCEPT ![u] = v]) = SumFunction(c) + v - c[u]
    BY <1>1, <2>1, SumUpdate
  <2> QED BY <2>2
<1>3. ASSUME c[u] = 0, v > 0 PROVE Cardinality(Takers(d)) = Cardinality(Takers(c)) + 1
  <2>1. Takers(d) = Takers(c) \cup {u} /\ u \notin Takers(c)
    BY <1>3 DEF Takers
  <2> QED BY <1>1, <2>1, FS_AddElement
<1>4. ASSUME c[u] > 0, v = 0 PROVE Cardinality(Takers(d)) = Cardinality(Takers(c)) - 1
  <2>1. Takers(d) = Takers(c) \ {u} /\ u \in Takers(c)
    BY <1>4 DEF Takers
  <2> QED BY <1>1, <2>1, FS_RemoveElement
<1>5. c[u] = 0 /\ v = 0 => d = c
  OBVIOUS
<1> QED BY <1>2, <1>3, <1>4, <1>5

(* The same for what a step does to the claims of a check.                 *)
LEMMA ClaimAdded ==
    ASSUME TypeOK, NEW i \in Ids, NEW u \in Users, NEW a \in Nat \ {0},
           claims[i][u] = 0, claims'[i] = [claims[i] EXCEPT ![u] = a]
    PROVE  Claimed(i)' = Claimed(i) + a /\ Taken(i)' = Taken(i) + 1
<1>1. claims[i] \in [Users -> Nat] /\ a \in Nat /\ a > 0
  BY DEF TypeOK
<1>2. SumFunction(claims[i]) \in Nat
  BY <1>1, Counting
<1>3. /\ SumFunction(claims'[i]) = SumFunction(claims[i]) + a - claims[i][u]
      /\ Cardinality(Takers(claims'[i])) = Cardinality(Takers(claims[i])) + 1
  BY <1>1, ClaimUpdate
<1> QED BY <1>2, <1>3 DEF Claimed, Taken, Claimants, Takers

LEMMA ClaimRemoved ==
    ASSUME TypeOK, NEW i \in Ids, NEW u \in Users, claims'[i] = [claims[i] EXCEPT ![u] = 0]
    PROVE  /\ Claimed(i)' = Claimed(i) - claims[i][u]
           /\ Taken(i)' = IF claims[i][u] > 0 THEN Taken(i) - 1 ELSE Taken(i)
           /\ claims[i][u] \in Nat /\ Claimed(i)' \in Nat /\ Taken(i)' \in Nat
<1>1. claims[i] \in [Users -> Nat] /\ claims[i][u] \in Nat /\ claims'[i] \in [Users -> Nat]
  BY DEF TypeOK
<1>2. /\ SumFunction(claims[i]) \in Nat /\ SumFunction(claims'[i]) \in Nat
      /\ Cardinality(Takers(claims[i])) \in Nat /\ Cardinality(Takers(claims'[i])) \in Nat
  BY <1>1, Counting
<1>3. /\ SumFunction(claims'[i]) = SumFunction(claims[i]) + 0 - claims[i][u]
      /\ claims[i][u] > 0 => Cardinality(Takers(claims'[i])) = Cardinality(Takers(claims[i])) - 1
      /\ claims[i][u] = 0 => claims'[i] = claims[i]
  BY <1>1, ClaimUpdate
<1>4. /\ Claimed(i) = SumFunction(claims[i]) /\ Claimed(i)' = SumFunction(claims'[i])
      /\ Taken(i) = Cardinality(Takers(claims[i])) /\ Taken(i)' = Cardinality(Takers(claims'[i]))
  BY DEF Claimed, Taken, Claimants, Takers
<1> QED BY <1>1, <1>2, <1>3, <1>4

----------------------------------------------------------------------------
(* What is escrowed in each check.                                         *)
Escrowed == [i \in Ids |-> check[i].total - paid[i]]

LEMMA Coins ==
    /\ CoinsAccounted <=> SumFunction(balance) + SumFunction(Escrowed) = SumFunction(setting.fund)
    /\ CoinsAccounted' <=> SumFunction(balance') + SumFunction(Escrowed') = SumFunction(setting'.fund)
BY DEF CoinsAccounted, Escrowed

LEMMA CoinsMove ==
    ASSUME TypeOK, TypeOK', UNCHANGED setting, CoinsAccounted,
           NEW u \in Users, NEW i \in Ids, NEW d \in Int, balance' = [balance EXCEPT ![u] = @ + d],
           \A j \in Ids : j # i => check'[j].total = check[j].total /\ paid'[j] = paid[j],
           check'[i].total - paid'[i] = check[i].total - paid[i] - d
    PROVE  CoinsAccounted'
<1>1. IsFiniteSet(Users) /\ IsFiniteSet(Ids)
  BY ChecksAssumption
<1>2. balance \in [Users -> Int] /\ balance[u] + d \in Int /\ balance' = [balance EXCEPT ![u] = balance[u] + d]
  BY DEF TypeOK
<1>3. SumFunction(balance') = SumFunction(balance) + (balance[u] + d) - balance[u]
  <2> DEFINE v == balance[u] + d
  <2>1. v \in Int /\ balance \in [Users -> Int] /\ balance' = [balance EXCEPT ![u] = v]
    BY <1>2
  <2> HIDE DEF v
  <2>2. SumFunction([balance EXCEPT ![u] = v]) = SumFunction(balance) + v - balance[u]
    <3>1. ASSUME NEW f \in [Users -> Int], NEW w \in Int
          PROVE  SumFunction([f EXCEPT ![u] = w]) = SumFunction(f) + w - f[u]
      BY <1>1, SumUpdate
    <3> QED BY <2>1, <3>1
  <2> QED BY <2>1, <2>2 DEF v
<1>4. Escrowed \in [Ids -> Int] /\ Escrowed[i] - d \in Int
  BY DEF Escrowed, TypeOK, Check
<1>5. Escrowed' = [Escrowed EXCEPT ![i] = Escrowed[i] - d]
  BY DEF Escrowed
<1>6. SumFunction(Escrowed') = SumFunction(Escrowed) + (Escrowed[i] - d) - Escrowed[i]
  BY <1>1, <1>4, <1>5, SumUpdate
<1>7. SumFunction(balance) \in Int /\ SumFunction(Escrowed) \in Int
  BY <1>1, <1>2, <1>4, SumInt DEF SumFunction
<1>8. SumFunction(balance') + SumFunction(Escrowed') = SumFunction(balance) + SumFunction(Escrowed)
  BY <1>2, <1>3, <1>4, <1>6, <1>7
<1> QED BY <1>8, Coins

LEMMA InitInv == Init => IInv
<1> SUFFICES ASSUME Init PROVE IInv
  OBVIOUS
<1>1. TypeOK /\ LockedInv
  BY InitTypes
<1>2. ASSUME NEW i \in Ids PROVE Claimed(i) = 0 /\ RowInv(i) /\ WholeRow(i)
  <2>1. claims[i] = [u \in Users |-> 0] /\ paid[i] = 0 /\ check[i] = NoCheck
    BY DEF Init
  <2>2. Claimed(i) = 0
    <3>1. IsFiniteSet(Users) /\ DOMAIN claims[i] = Users /\ \A u \in Users : claims[i][u] = 0
      BY <2>1, ChecksAssumption
    <3> QED BY <3>1, SumZero DEF Claimed, SumFunction
  <2> QED BY <2>1, <2>2, CheckTypes DEF RowInv, WholeRow
<1>3. \A p \in Procs : SnapInv(p) /\ WholeTx(p)
  BY TxTypes DEF Init, SnapInv, WholeTx
<1>4. CoinsAccounted
  <2>1. IsFiniteSet(Ids) /\ DOMAIN Escrowed = Ids /\ \A i \in Ids : Escrowed[i] = 0
    BY ChecksAssumption, CheckTypes DEF Escrowed, Init
  <2>2. SumFunction(Escrowed) = 0
    BY <2>1, SumZero DEF SumFunction
  <2>3. SumFunction(balance) \in Int /\ balance = setting.fund
    <3>1. IsFiniteSet(Users) /\ DOMAIN balance = Users /\ \A u \in Users : balance[u] \in Int
      BY <1>1, ChecksAssumption DEF TypeOK
    <3> QED BY <3>1, SumInt DEF Init, SumFunction
  <2> QED BY <2>2, <2>3, Coins
<1> QED BY <1>1, <1>2, <1>3, <1>4 DEF IInv, RowsInv, SnapsInv, Whole, Init

----------------------------------------------------------------------------
(* What nothing touches keeps its invariant.                               *)
LEMMA RowKept ==
    ASSUME TypeOK, NEW i \in Ids, RowInv(i), claims'[i] = claims[i], paid'[i] = paid[i],
           \/ check'[i] = check[i]
           \/ check'[i] = [check[i] EXCEPT !.posted = TRUE]
           \/ check'[i] = [check[i] EXCEPT !.status = "refunded"] /\ check[i].status = "active"
    PROVE  RowInv(i)'
<1>1. check[i] \in Check
  BY DEF TypeOK
<1>2. Claimed(i)' = Claimed(i) /\ Taken(i)' = Taken(i)
  BY DEF Claimed, Taken, Claimants
<1>3. /\ check'[i].total = check[i].total /\ check'[i].shares = check[i].shares
      /\ check'[i].mode = check[i].mode /\ check'[i].creator = check[i].creator
      /\ check'[i].status = check[i].status \/ (check'[i].status = "refunded" /\ check[i].status = "active")
  BY <1>1 DEF Check
<1>4. Part(check[i])' = Part(check[i]) /\ Funded(check[i])' = Funded(check[i])
  BY <1>3 DEF Part, Funded
<1> QED BY <1>2, <1>3, <1>4 DEF RowInv

LEMMA SnapKept ==
    ASSUME NEW q \in Procs, SnapInv(q), tx'[q] = tx[q] \/ tx'[q].pc # "pay",
           tx[q].pc = "pay" => check'[tx[q].id] = check[tx[q].id] /\ claims'[tx[q].id] = claims[tx[q].id]
    PROVE  SnapInv(q)' /\ (WholeTx(q) => WholeTx(q)')
<1>1. CASE tx'[q].pc # "pay"
  BY <1>1 DEF SnapInv, WholeTx
<1>2. CASE tx'[q].pc = "pay" /\ tx'[q] = tx[q]
  <2> DEFINE i == tx[q].id
             c == check[i]
  <2>1. Claimed(i)' = Claimed(i) /\ Taken(i)' = Taken(i) /\ c' = c /\ UNCHANGED tx[q]
    BY <1>2 DEF Claimed, Taken, Claimants
  <2>2. Part(c)' = Part(c) /\ Funded(c)' = Funded(c)
    BY <2>1
  <2> HIDE DEF i, c
  <2>3. SnapInv(q)' <=> SnapInv(q)
    BY <2>1, <2>2 DEF SnapInv, i, c
  <2> QED BY <2>1, <2>3 DEF WholeTx, i
<1> QED BY <1>1, <1>2

LEMMA SnapsKept ==
    ASSUME TypeOK, LockedInv, SnapsInv, NEW p \in Procs, End(p),
           \A j \in Ids : rowLock[j] = p \/ (check'[j] = check[j] /\ claims'[j] = claims[j])
    PROVE  SnapsInv' /\ ((\A q \in Procs : WholeTx(q)) => (\A q \in Procs : WholeTx(q)'))
<1>1. ASSUME NEW q \in Procs PROVE SnapInv(q)' /\ (WholeTx(q) => WholeTx(q)')
  <2>1. SnapInv(q)
    BY DEF SnapsInv
  <2>2. CASE q = p
    <3>1. tx'[q].pc = "idle"
      BY <2>2, EndEffect, TxTypes
    <3> QED BY <3>1 DEF SnapInv, WholeTx
  <2>3. CASE q # p
    <3>1. tx'[q] = tx[q]
      BY <2>3, EndEffect
    <3>2. ASSUME tx[q].pc = "pay"
          PROVE  check'[tx[q].id] = check[tx[q].id] /\ claims'[tx[q].id] = claims[tx[q].id]
      <4>1. tx[q].id \in Ids /\ rowLock[tx[q].id] = q
        BY <3>2 DEF LockedInv, TxFits, Past
      <4> QED BY <2>3, <4>1
    <3> QED BY <2>1, <3>1, <3>2, SnapKept
  <2> QED BY <2>2, <2>3
<1> QED BY <1>1 DEF SnapsInv

LEMMA QuietWhole ==
    ASSUME TypeOK, Whole, Quiet, \A q \in Procs : WholeTx(q) => WholeTx(q)'
    PROVE  Whole'
<1>1. ASSUME NEW i \in Ids PROVE WholeRow(i)' <=> WholeRow(i)
  <2>1. Claimed(i)' = Claimed(i) /\ Taken(i)' = Taken(i) /\ UNCHANGED <<check, paid>>
    BY DEF Quiet, Claimed, Taken, Claimants
  <2> QED BY <2>1 DEF WholeRow
<1>2. CoinsAccounted' <=> CoinsAccounted
  BY DEF Quiet, CoinsAccounted
<1>3. UNCHANGED <<users, setting>>
  BY DEF Quiet
<1> QED BY <1>1, <1>2, <1>3 DEF Whole

LEMMA QuietStep ==
    ASSUME IInv, Quiet,
           \A q \in Procs : tx'[q] = tx[q] \/ tx'[q].pc # "pay" \/ CountClaims(q)
    PROVE  RowsInv' /\ SnapsInv' /\ (users \subseteq setting.users)' /\ Whole'
<1>1. RowsInv'
  BY RowKept DEF IInv, Quiet, RowsInv
<1>2. ASSUME NEW q \in Procs PROVE SnapInv(q)' /\ (WholeTx(q) => WholeTx(q)')
  <2>1. CASE ~CountClaims(q)
    BY <2>1, SnapKept DEF IInv, SnapsInv, Quiet
  <2>2. CASE CountClaims(q)
    <3> DEFINE i == tx[q].id
               c == check[i]
    <3>1. /\ tx[q] \in Tx /\ TxFits(q) /\ tx[q].pc = "count" /\ i \in Ids
      BY <2>2 DEF CountClaims, IInv, TypeOK, LockedInv, TxFits
    <3>2. tx'[q].id = i /\ tx'[q].sum = Claimed(i) /\ tx'[q].count = Taken(i)
      BY <2>2, <3>1 DEF CountClaims, Tx, IInv, TypeOK, Taken
    <3>3. Claimed(i)' = Claimed(i) /\ Taken(i)' = Taken(i)
      BY <3>2 DEF Quiet, Claimed, Taken, Claimants
    <3>4. RowInv(i) /\ Claimed(i) \in Nat /\ Taken(i) \in Nat
      BY <3>1, ClaimTypes DEF IInv, RowsInv
    <3>5. check'[tx'[q].id] = c
      BY <3>2 DEF Quiet
    <3>6. WholeTx(q)'
      BY <3>2, <3>3 DEF WholeTx
    <3>7. c.status = "active" => /\ Funded(c) => c.total - Claimed(i) >= c.shares - Taken(i)
                                 /\ c.mode = "average" => Claimed(i) = Taken(i) * Part(c)
      BY <3>4 DEF RowInv
    <3> DEFINE n == Taken(i)
               s == Claimed(i)
    <3>8. /\ tx'[q].id = i /\ tx'[q].sum = s /\ tx'[q].count = n /\ s' = s /\ n' = n /\ check'[i] = c
          /\ s \in Nat /\ n \in Nat
      BY <3>2, <3>3, <3>4, <3>5
    <3>9. SnapInv(q)'
      <4>1. /\ Claimed(tx[q].id)' = s /\ Taken(tx[q].id)' = n /\ tx'[q].sum = s /\ tx'[q].count = n
            /\ check'[tx'[q].id] = c
        BY <3>8
      <4> HIDE DEF s, n, c, i
      <4> QED BY <3>7, <3>8, <4>1 DEF SnapInv, s, n, i
    <3> QED BY <3>6, <3>9
  <2> QED BY <2>1, <2>2
<1>3. Whole'
  BY <1>2, QuietWhole DEF IInv
<1> QED BY <1>1, <1>2, <1>3 DEF SnapsInv, IInv, Quiet

----------------------------------------------------------------------------
LEMMA CreateStep ==
    ASSUME IInv, TypeOK', NEW i \in Ids, NEW u \in Users, NEW d \in setting.deals, NEW m \in Modes,
           Create(i, u, d[1], d[2], m)
    PROVE  RowsInv' /\ SnapsInv' /\ (users \subseteq setting.users)' /\ Whole'
<1>0. TypeOK /\ LockedInv /\ RowsInv /\ SnapsInv /\ check[i].status = "none"
  BY DEF IInv, Create
<1>1. /\ d[1] \in Nat \ {0} /\ d[2] \in Nat \ {0}
  BY <1>0, SettingTypes DEF TypeOK
<1>2. /\ check' = [check EXCEPT ![i] = NewCheck("active", u, d[1], d[2], m)]
      /\ balance' = [balance EXCEPT ![u] = @ - d[1]]
      /\ UNCHANGED <<users, claims, expired, sent, sending, rowLock, tx, candidates, paid, faults, setting>>
  BY DEF Create
<1>3. \A j \in Ids : j # i => check'[j] = check[j]
  BY <1>0, <1>2 DEF TypeOK
<1>4. /\ check'[i].status = "active" /\ check'[i].creator = u /\ check'[i].total = d[1]
      /\ check'[i].shares = d[2] /\ check'[i].mode = m
  BY <1>0, <1>1, <1>2, CheckTypes DEF TypeOK
<1>5. check[i].total = 0 /\ paid[i] = 0 /\ claims[i] = [v \in Users |-> 0]
  BY <1>0 DEF RowsInv, RowInv
<1>6. Claimed(i)' = 0 /\ Taken(i)' = 0
  <2>1. claims'[i] = [v \in Users |-> 0] /\ IsFiniteSet(Users)
    BY <1>2, <1>5, ChecksAssumption
  <2>2. SumFunction(claims'[i]) = 0
    <3>1. DOMAIN claims'[i] = Users /\ \A v \in Users : claims'[i][v] = 0
      BY <2>1
    <3> QED BY <2>1, <3>1, SumZero DEF SumFunction
  <2>3. {v \in Users : claims'[i][v] > 0} = {}
    BY <2>1
  <2> QED BY <2>2, <2>3, FS_EmptySet DEF Claimed, Taken, Claimants
<1>7. ASSUME NEW j \in Ids PROVE RowInv(j)'
  <2>1. CASE j # i
    BY <1>0, <1>2, <1>3, <2>1, RowKept DEF RowsInv
  <2>2. CASE j = i
    <3>1. Part(check[i])' \in Nat
      BY <1>1, <1>4, PartFacts
    <3>2. \A v \in Users : claims'[i][v] = 0
      BY <1>2, <1>5
    <3>3. RowInv(i)'
      BY <1>1, <1>4, <1>6, <3>1, <3>2 DEF RowInv, Funded
    <3> QED BY <2>2, <3>3
  <2> QED BY <2>1, <2>2
<1>8. ASSUME NEW q \in Procs PROVE SnapInv(q)' /\ (WholeTx(q) => WholeTx(q)')
  <2>1. tx[q].pc = "pay" => tx[q].id \in Ids /\ tx[q].id # i
    BY <1>0 DEF LockedInv, TxFits, Past
  <2> QED BY <1>0, <1>2, <1>3, <2>1, SnapKept DEF SnapsInv
<1>9. ASSUME users = setting.users PROVE (\A j \in Ids : WholeRow(j)') /\ CoinsAccounted'
  <2>1. (\A j \in Ids : WholeRow(j)) /\ CoinsAccounted
    BY <1>9 DEF IInv, Whole
  <2>2. ASSUME NEW j \in Ids PROVE WholeRow(j)'
    <3>1. CASE j # i
      <4>1. Claimed(j)' = Claimed(j) /\ Taken(j)' = Taken(j) /\ check'[j] = check[j] /\ paid'[j] = paid[j]
        BY <1>2, <1>3, <3>1 DEF Claimed, Taken, Claimants
      <4> QED BY <2>1, <4>1 DEF WholeRow
    <3>2. CASE j = i
      <4>1. WholeRow(i)'
        BY <1>1, <1>2, <1>4, <1>5, <1>6 DEF WholeRow
      <4> QED BY <3>2, <4>1
    <3> QED BY <3>1, <3>2
  <2>3. CoinsAccounted'
    <3>1. 0 - d[1] \in Int /\ balance' = [balance EXCEPT ![u] = @ + (0 - d[1])]
      <4>1. balance[u] - d[1] = balance[u] + (0 - d[1]) /\ 0 - d[1] \in Int
        BY <1>0, <1>1 DEF TypeOK
      <4>2. balance' = [balance EXCEPT ![u] = balance[u] - d[1]]
        BY <1>2
      <4> QED BY <4>1, <4>2
    <3>2. check'[i].total - paid'[i] = check[i].total - paid[i] - (0 - d[1])
      BY <1>1, <1>2, <1>4, <1>5
    <3>3. \A j \in Ids : j # i => check'[j].total = check[j].total /\ paid'[j] = paid[j]
      BY <1>2, <1>3
    <3>4. UNCHANGED setting
      BY <1>2
    <3> QED BY <1>0, <2>1, <3>1, <3>2, <3>3, <3>4, CoinsMove
  <2> QED BY <2>2, <2>3
<1> QED BY <1>2, <1>7, <1>8, <1>9 DEF IInv, RowsInv, SnapsInv, Whole

LEMMA AttachStep ==
    ASSUME IInv, NEW i \in Ids, AttachToPost(i)
    PROVE  RowsInv' /\ SnapsInv' /\ (users \subseteq setting.users)' /\ Whole'
<1>0. TypeOK /\ LockedInv /\ RowsInv /\ SnapsInv /\ RowFree(i)
  BY DEF IInv, AttachToPost
<1>1. /\ check' = [check EXCEPT ![i].posted = TRUE]
      /\ UNCHANGED <<users, balance, claims, expired, sent, sending, rowLock, tx, candidates,
                     paid, faults, setting>>
  BY DEF AttachToPost
<1>2. /\ \A j \in Ids : j # i => check'[j] = check[j]
      /\ check'[i] = [check[i] EXCEPT !.posted = TRUE]
  BY <1>0, <1>1 DEF TypeOK
<1>3. RowsInv'
  BY <1>0, <1>1, <1>2, RowKept DEF RowsInv
<1>4. ASSUME NEW q \in Procs PROVE SnapInv(q)' /\ (WholeTx(q) => WholeTx(q)')
  <2>1. tx[q].pc = "pay" => tx[q].id \in Ids /\ tx[q].id # i
    BY <1>0, ProcsFacts DEF LockedInv, TxFits, Past, RowFree
  <2> QED BY <1>0, <1>1, <1>2, <2>1, SnapKept DEF SnapsInv
<1>5. ASSUME NEW j \in Ids
      PROVE  /\ check'[j].total = check[j].total /\ check'[j].shares = check[j].shares
             /\ check'[j].status = check[j].status
             /\ WholeRow(j) => WholeRow(j)'
  <2>1. /\ check'[j].total = check[j].total /\ check'[j].shares = check[j].shares
        /\ check'[j].status = check[j].status
    <3>1. CASE j # i
      BY <1>2, <3>1
    <3>2. CASE j = i
      <4>1. PICK c \in Check : c = check[i]
        BY <1>0 DEF TypeOK
      <4>2. check'[j] = [c EXCEPT !.posted = TRUE]
        BY <1>2, <3>2, <4>1
      <4> QED BY <3>2, <4>1, <4>2 DEF Check
    <3> QED BY <3>1, <3>2
  <2>2. Claimed(j)' = Claimed(j) /\ Taken(j)' = Taken(j) /\ paid'[j] = paid[j]
    BY <1>1 DEF Claimed, Taken, Claimants
  <2> QED BY <2>1, <2>2 DEF WholeRow
<1>6. CoinsAccounted => CoinsAccounted'
  <2>1. Escrowed' = Escrowed /\ UNCHANGED <<balance, setting>>
    BY <1>1, <1>5 DEF Escrowed
  <2> QED BY <2>1, Coins
<1> QED BY <1>1, <1>3, <1>4, <1>5, <1>6 DEF IInv, SnapsInv, Whole

LEMMA RefundStep ==
    ASSUME IInv, TypeOK', NEW p \in Procs, RefundIfExpired(p) \/ ClaimExpired(p)
    PROVE  RowsInv' /\ SnapsInv' /\ (users \subseteq setting.users)' /\ Whole'
<1> DEFINE i == tx[p].id
<1>0. TypeOK /\ LockedInv /\ RowsInv /\ SnapsInv
  BY DEF IInv
<1>1. PICK a \in Nat :
        /\ Paying(p) /\ End(p) /\ Close(i, "refunded") /\ tx[p].sum \in Nat
        /\ Credit(check[i].creator, i, a)
        /\ a = 0 \/ a = check[i].total - tx[p].sum
        /\ UNCHANGED <<users, claims, expired, sent, faults, setting>>
  BY <1>0, RefundFacts
<1>2. i \in Ids /\ tx[p].pc = "pay" /\ check[i].status = "active" /\ rowLock[i] = p /\ check[i].creator \in Users
  BY <1>0, <1>1 DEF Paying, LockedInv, TxFits, Past, RowsInv, RowInv
<1>3. /\ \A j \in Ids : j # i => check'[j] = check[j]
      /\ check'[i] = [check[i] EXCEPT !.status = "refunded"]
  BY <1>0, <1>1, <1>2 DEF TypeOK, Close
<1>4. /\ \A j \in Ids : j # i => paid'[j] = paid[j]
      /\ paid'[i] = paid[i] + a
      /\ balance' = [balance EXCEPT ![check[i].creator] = @ + a]
  BY <1>0, <1>1, <1>2 DEF TypeOK, Credit
<1>5. ASSUME NEW j \in Ids PROVE RowInv(j)'
  <2>1. CASE j # i
    BY <1>0, <1>1, <1>3, <1>4, <2>1, RowKept DEF RowsInv
  <2>2. CASE j = i
    <3>1. check'[j] = [check[j] EXCEPT !.status = "refunded"] /\ check[j].status = "active"
      BY <1>2, <1>3, <2>2
    <3>2. /\ check'[j].status = "refunded" /\ check'[j].creator = check[j].creator
          /\ check'[j].shares = check[j].shares /\ RowInv(j)
      BY <1>0, <3>1 DEF TypeOK, Check, RowsInv
    <3> QED BY <3>1, <3>2 DEF RowInv
  <2> QED BY <2>1, <2>2
<1>6. SnapsInv' /\ ((\A q \in Procs : WholeTx(q)) => (\A q \in Procs : WholeTx(q)'))
  <2>1. End(p) /\ UNCHANGED claims
    BY <1>1
  <2>2. \A j \in Ids : rowLock[j] = p \/ (check'[j] = check[j] /\ claims'[j] = claims[j])
    BY <1>2, <1>3, <2>1
  <2> HIDE DEF i
  <2> QED BY <1>0, <2>1, <2>2, SnapsKept
<1>7. ASSUME users = setting.users PROVE (\A j \in Ids : WholeRow(j)') /\ CoinsAccounted'
  <2>1. (\A j \in Ids : WholeRow(j)) /\ CoinsAccounted /\ tx[p].sum = Claimed(i)
    BY <1>2, <1>7 DEF IInv, Whole, WholeTx
  <2>2. \A j \in Ids : Claimed(j)' = Claimed(j) /\ Taken(j)' = Taken(j)
    BY <1>1 DEF Claimed, Taken, Claimants
  <2>3. check'[i].total = check[i].total /\ check'[i].status = "refunded"
    BY <1>0, <1>2, <1>3 DEF TypeOK, Check
  <2>4. ASSUME NEW j \in Ids PROVE WholeRow(j)'
    <3>1. CASE j # i
      BY <1>3, <1>4, <2>1, <2>2, <3>1 DEF WholeRow
    <3>2. CASE j = i
      <4>1. /\ Claimed(j) \in Nat /\ check[j].total \in Nat /\ paid[j] = Claimed(j)
            /\ Claimed(j) <= check[j].total
        BY <1>0, <1>2, <2>1, <3>2, ClaimTypes DEF WholeRow
      <4>2. /\ Claimed(j)' = Claimed(j) /\ paid'[j] = paid[j] + a
            /\ a = 0 \/ a = check[j].total - Claimed(j)
        BY <1>1, <1>4, <2>1, <2>2, <3>2
      <4>3. Claimed(j)' <= check'[j].total /\ paid'[j] <= check'[j].total
        BY <2>3, <3>2, <4>1, <4>2
      <4> QED BY <2>3, <3>2, <4>3 DEF WholeRow
    <3> QED BY <3>1, <3>2
  <2>5. CoinsAccounted'
    <3>1. check'[i].total - paid'[i] = check[i].total - paid[i] - a
      <4>1. check[i].total \in Nat /\ paid[i] \in Nat
        BY <1>0, <1>2, ClaimTypes
      <4> QED BY <1>4, <2>3, <4>1
    <3>2. \A j \in Ids : j # i => check'[j].total = check[j].total /\ paid'[j] = paid[j]
      BY <1>3, <1>4
    <3>3. UNCHANGED setting /\ a \in Int /\ i \in Ids
      BY <1>1, <1>2
    <3> DEFINE w == check[i].creator
    <3>4. w \in Users /\ balance' = [balance EXCEPT ![w] = @ + a]
      BY <1>2, <1>4
    <3> HIDE DEF i, w
    <3> QED BY <1>0, <2>1, <3>1, <3>2, <3>3, <3>4, CoinsMove
  <2> QED BY <2>4, <2>5
<1> QED BY <1>1, <1>5, <1>6, <1>7 DEF IInv, RowsInv, Whole

LEMMA PayStep ==
    ASSUME IInv, TypeOK', NEW p \in Procs, PayShare(p)
    PROVE  RowsInv' /\ SnapsInv' /\ (users \subseteq setting.users)' /\ Whole'
<1>0. TypeOK /\ LockedInv /\ RowsInv /\ SnapsInv
  BY DEF IInv
<1>1. PICK i \in Ids, u \in Users, n \in Nat, s \in Nat :
        /\ i = tx[p].id /\ u = tx[p].caller /\ n = tx[p].count /\ s = tx[p].sum
        /\ tx[p].pc = "pay" /\ check[i].status = "active" /\ rowLock[i] = p
        /\ HasShare(tx[p]) /\ End(p)
        /\ UNCHANGED <<users, expired, sent, faults, setting>>
        /\ IF n + 1 >= check[i].shares THEN Close(i, "settled") ELSE UNCHANGED check
  BY <1>0, PayFacts DEF Paying, LockedInv, TxFits, Past
<1>2. PICK a \in Nat \ {0} : /\ a \in Draw(check[i], s, n) /\ a <= check[i].total - s
                             /\ Credit(u, i, a)
                             /\ claims' = [claims EXCEPT ![i][u] = a]
  BY <1>0, <1>1, PayFacts DEF Amounts, Payable
<1>3. n < check[i].shares /\ claims[i][u] = 0
  <2>1. claims[i][u] \in Nat
    BY <1>0 DEF TypeOK
  <2> QED BY <1>1, <2>1 DEF HasShare, Claimants
<1>4. /\ \A j \in Ids : j # i => claims'[j] = claims[j] /\ paid'[j] = paid[j] /\ check'[j] = check[j]
      /\ claims'[i] = [claims[i] EXCEPT ![u] = a]
      /\ paid'[i] = paid[i] + a
      /\ balance' = [balance EXCEPT ![u] = @ + a]
  <2>1. /\ claims \in [Ids -> [Users -> Nat]] /\ paid \in [Ids -> Nat] /\ check \in [Ids -> Check]
        /\ claims' = [claims EXCEPT ![i][u] = a] /\ paid' = [paid EXCEPT ![i] = @ + a]
        /\ balance' = [balance EXCEPT ![u] = @ + a]
    BY <1>0, <1>2 DEF TypeOK, Credit
  <2>2. \A j \in Ids : j # i => check'[j] = check[j]
    BY <1>1, <2>1 DEF Close
  <2> QED BY <2>1, <2>2
<1>5. Claimed(i)' = Claimed(i) + a /\ Taken(i)' = Taken(i) + 1
  BY <1>0, <1>3, <1>4, ClaimAdded
<1>6. /\ Claimed(i) \in Nat /\ Taken(i) \in Nat /\ check[i] \in Check /\ paid[i] \in Nat
      /\ check[i].total \in Nat /\ check[i].shares \in Nat /\ check[i].shares > 0
      /\ check[i].creator \in Users
  BY <1>0, <1>1, ClaimTypes DEF RowsInv, RowInv
<1>7. /\ check'[i].total = check[i].total /\ check'[i].shares = check[i].shares
      /\ check'[i].mode = check[i].mode /\ check'[i].creator = check[i].creator
      /\ check'[i].status = IF n + 1 >= check[i].shares THEN "settled" ELSE "active"
  BY <1>0, <1>1, CloseEffect
<1>8. /\ Claimed(i) <= s /\ Taken(i) <= n /\ n - Taken(i) <= s - Claimed(i)
      /\ Funded(check[i]) => check[i].total - s >= check[i].shares - n
      /\ check[i].mode = "average" => s = n * Part(check[i])
  BY <1>0, <1>1 DEF SnapsInv, SnapInv
<1>9. /\ check[i].shares - n = 1 => a = check[i].total - s
      /\ check[i].shares - n # 1 =>
           /\ check[i].mode = "average" => a = Part(check[i])
           /\ Funded(check[i]) => check[i].total - s - a >= check[i].shares - n - 1
  BY <1>2, <1>3, <1>6, <1>8, DrawFits
<1>10. RowInv(i)'
  <2>1. CASE n + 1 >= check[i].shares
    BY <1>6, <1>7, <2>1 DEF RowInv
  <2>2. CASE n + 1 < check[i].shares
    <3>1. /\ Taken(i)' < check[i].shares
          /\ Funded(check[i]) => check[i].total - Claimed(i)' >= check[i].shares - Taken(i)'
      BY <1>5, <1>6, <1>8, <1>9, <2>2
    <3>2. ASSUME check[i].mode = "average"
          PROVE  /\ Claimed(i)' = Taken(i)' * Part(check[i])
                 /\ \A v \in Users : claims'[i][v] \in {0, Part(check[i])}
      <4> DEFINE q == Part(check[i])
      <4>1. q \in Nat /\ a = q
        BY <1>6, <1>9, <2>2, <3>2, PartFacts
      <4>2. Claimed(i) = Taken(i) * q /\ \A v \in Users : claims[i][v] \in {0, q}
        BY <1>0, <1>1, <3>2 DEF RowsInv, RowInv
      <4>3. (Taken(i) + 1) * q = Taken(i) * q + q
        <5>1. \A k \in Nat, z \in Nat : (k + 1) * z = k * z + z
          OBVIOUS
        <5> QED BY <1>6, <4>1, <5>1
      <4> HIDE DEF q
      <4>4. Claimed(i)' = Taken(i)' * q
        BY <1>5, <4>1, <4>2, <4>3
      <4>5. \A v \in Users : claims'[i][v] \in {0, q}
        BY <1>0, <1>4, <4>1, <4>2 DEF TypeOK
      <4> QED BY <4>4, <4>5 DEF q
    <3>3. Part(check[i])' = Part(check[i]) /\ Funded(check[i])' = Funded(check[i])
      BY <1>7 DEF Part, Funded
    <3>4. check'[i].status = "active"
      BY <1>6, <1>7, <2>2
    <3> QED BY <1>6, <1>7, <3>1, <3>2, <3>3, <3>4 DEF RowInv
  <2> QED BY <1>6, <2>1, <2>2
<1>11. ASSUME NEW j \in Ids PROVE RowInv(j)'
  <2>1. CASE j # i
    BY <1>0, <1>4, <2>1, RowKept DEF RowsInv
  <2> QED BY <1>10, <2>1
<1>12. SnapsInv' /\ ((\A q \in Procs : WholeTx(q)) => (\A q \in Procs : WholeTx(q)'))
  <2>1. \A j \in Ids : rowLock[j] = p \/ (check'[j] = check[j] /\ claims'[j] = claims[j])
    <3>1. rowLock[i] = p
      BY <1>1
    <3>2. \A j \in Ids : j # i => claims'[j] = claims[j] /\ check'[j] = check[j]
      BY <1>4
    <3> QED BY <3>1, <3>2
  <2>2. End(p)
    BY <1>1
  <2> QED BY <1>0, <2>1, <2>2, SnapsKept
<1>13. ASSUME users = setting.users PROVE (\A j \in Ids : WholeRow(j)') /\ CoinsAccounted'
  <2>1. (\A j \in Ids : WholeRow(j)) /\ CoinsAccounted /\ s = Claimed(i) /\ n = Taken(i)
    BY <1>1, <1>13 DEF IInv, Whole, WholeTx
  <2>2. WholeRow(i)'
    <3>1. paid[i] = Claimed(i) /\ Claimed(i) <= check[i].total
      BY <1>1, <2>1 DEF WholeRow
    <3>2. Claimed(i)' <= check[i].total /\ paid'[i] = Claimed(i)'
      BY <1>2, <1>4, <1>5, <1>6, <2>1, <3>1
    <3>3. n + 1 >= check[i].shares => Taken(i)' = check[i].shares /\ Claimed(i)' = check[i].total
      BY <1>3, <1>5, <1>6, <1>9, <2>1
    <3> QED BY <1>7, <3>2, <3>3 DEF WholeRow
  <2>3. ASSUME NEW j \in Ids, j # i PROVE WholeRow(j)'
    <3>1. Claimed(j)' = Claimed(j) /\ Taken(j)' = Taken(j) /\ check'[j] = check[j] /\ paid'[j] = paid[j]
      BY <1>4, <2>3 DEF Claimed, Taken, Claimants
    <3> QED BY <2>1, <3>1 DEF WholeRow
  <2>4. CoinsAccounted'
    <3>1. check'[i].total - paid'[i] = check[i].total - paid[i] - a
      BY <1>4, <1>6, <1>7
    <3>2. \A j \in Ids : j # i => check'[j].total = check[j].total /\ paid'[j] = paid[j]
      BY <1>4
    <3>3. UNCHANGED setting /\ a \in Int /\ balance' = [balance EXCEPT ![u] = @ + a]
      BY <1>1, <1>4
    <3> QED BY <1>0, <2>1, <3>1, <3>2, <3>3, CoinsMove
  <2> QED BY <2>2, <2>3, <2>4
<1> QED BY <1>1, <1>11, <1>12, <1>13 DEF IInv, RowsInv, Whole

LEMMA PurgeStep ==
    ASSUME IInv, TypeOK', NEW u \in Users, PurgeUser(u)
    PROVE  RowsInv' /\ SnapsInv' /\ (users \subseteq setting.users)' /\ Whole'
<1>0. TypeOK /\ LockedInv /\ RowsInv /\ SnapsInv /\ users \subseteq setting.users
  BY DEF IInv
<1>1. /\ u \in users /\ users' = users \ {u} /\ UNCHANGED <<tx, rowLock, setting>>
  BY DEF PurgeUser
<1>2. ASSUME NEW i \in Ids, check[i].creator = u
      PROVE  RowInv(i)' /\ RowFree(i)
  <2>1. check'[i].status = "erased" /\ RowFree(i)
    <3>1. check'[i] = NewCheck("erased", None, 0, 0, "random") /\ RowFree(i)
      BY <1>2 DEF PurgeUser
    <3> QED BY <3>1 DEF NewCheck
  <2> QED BY <2>1 DEF RowInv
<1>3. ASSUME NEW i \in Ids, check[i].creator # u
      PROVE  /\ check'[i] = check[i] /\ paid'[i] = paid[i]
             /\ claims'[i] = [claims[i] EXCEPT ![u] = 0]
  BY <1>0, <1>3 DEF PurgeUser
<1>4. ASSUME NEW i \in Ids, check[i].creator # u
      PROVE  /\ Claimed(i)' = Claimed(i) - claims[i][u]
             /\ Taken(i)' = IF claims[i][u] > 0 THEN Taken(i) - 1 ELSE Taken(i)
             /\ claims[i][u] \in Nat /\ Claimed(i)' \in Nat /\ Taken(i)' \in Nat
  BY <1>0, <1>3, <1>4, ClaimRemoved
<1>5. ASSUME NEW i \in Ids, check[i].creator # u PROVE RowInv(i)'
  <2>1. /\ RowInv(i) /\ Claimed(i) \in Nat /\ Taken(i) \in Nat /\ check[i].total \in Nat
        /\ check[i].shares \in Nat /\ claims[i] \in [Users -> Nat]
    BY <1>0, ClaimTypes DEF RowsInv
  <2>2. check'[i] = check[i] /\ paid'[i] = paid[i] /\ claims'[i] = [claims[i] EXCEPT ![u] = 0]
    BY <1>3, <1>5
  <2>3. Part(check[i])' = Part(check[i]) /\ Funded(check[i])' = Funded(check[i])
    BY <2>2
  <2>4. check[i].status = "none" => claims'[i] = [v \in Users |-> 0]
    BY <2>1, <2>2 DEF RowInv
  <2>5. ASSUME check[i].status = "active"
        PROVE  /\ Taken(i)' < check[i].shares
               /\ Funded(check[i]) => check[i].total - Claimed(i)' >= check[i].shares - Taken(i)'
    <3>1. /\ Taken(i) < check[i].shares
          /\ Funded(check[i]) => check[i].total - Claimed(i) >= check[i].shares - Taken(i)
      BY <2>1, <2>5 DEF RowInv
    <3> QED BY <1>4, <1>5, <2>1, <3>1
  <2>6. ASSUME check[i].status = "active", check[i].mode = "average"
        PROVE  /\ Claimed(i)' = Taken(i)' * Part(check[i])
               /\ \A v \in Users : claims'[i][v] \in {0, Part(check[i])}
    <3> DEFINE q == Part(check[i])
    <3>1. q \in Nat
      BY <2>1, <2>6, PartFacts DEF RowInv
    <3>2. Claimed(i) = Taken(i) * q /\ \A v \in Users : claims[i][v] \in {0, q}
      BY <2>1, <2>6 DEF RowInv
    <3>3. \A v \in Users : claims'[i][v] \in {0, q}
      BY <2>1, <2>2, <3>2
    <3>4. CASE claims[i][u] = 0
      <4>1. Claimed(i)' = Claimed(i) /\ Taken(i)' = Taken(i)
        BY <1>4, <1>5, <2>1, <3>4
      <4> QED BY <3>2, <3>3, <4>1
    <3>5. CASE claims[i][u] > 0
      <4>1. claims[i][u] = q
        BY <3>2, <3>5
      <4>2. Claimed(i)' = Claimed(i) - q /\ Taken(i)' = Taken(i) - 1
        BY <1>4, <1>5, <3>5, <4>1
      <4>3. (Taken(i) - 1) * q = Taken(i) * q - q
        <5>1. \A k \in Int, z \in Nat : (k - 1) * z = k * z - z
          OBVIOUS
        <5> QED BY <2>1, <3>1, <5>1
      <4> HIDE DEF q
      <4> QED BY <3>2, <3>3, <4>2, <4>3 DEF q
    <3>6. claims[i][u] \in Nat
      BY <1>4, <1>5
    <3> HIDE DEF q
    <3> QED BY <3>4, <3>5, <3>6
  <2>7. check[i].status \notin {"none", "erased"} => check[i].creator \in Users /\ check[i].shares > 0
    BY <2>1 DEF RowInv
  <2> QED BY <2>1, <2>2, <2>3, <2>4, <2>5, <2>6, <2>7 DEF RowInv
<1>6. ASSUME NEW q \in Procs PROVE SnapInv(q)'
  <2>1. CASE tx[q].pc # "pay"
    BY <1>1, <2>1 DEF SnapInv
  <2>2. CASE tx[q].pc = "pay"
    <3>1. PICK i \in Ids, n \in Nat, s \in Nat : i = tx[q].id /\ n = tx[q].count /\ s = tx[q].sum
      <4>1. tx[q] \in Tx /\ TxFits(q)
        BY <1>0 DEF LockedInv, TypeOK
      <4>2. tx[q].id \in Ids
        BY <2>2, <4>1 DEF TxFits
      <4> QED BY <4>1, <4>2 DEF Tx
    <3>2. check[i].creator # u
      <4>1. rowLock[i] = q
        BY <1>0, <2>2, <3>1 DEF LockedInv, TxFits, Past
      <4> QED BY <1>2, <4>1, ProcsFacts DEF RowFree
    <3>3. tx'[q].pc = "pay" /\ i = tx'[q].id /\ n = tx'[q].count /\ s = tx'[q].sum /\ check'[i] = check[i]
      BY <1>1, <1>3, <2>2, <3>1, <3>2
    <3>4. /\ Claimed(i) <= s /\ Taken(i) <= n /\ n - Taken(i) <= s - Claimed(i)
          /\ check[i].status = "active" =>
               /\ Funded(check[i]) => check[i].total - s >= check[i].shares - n
               /\ check[i].mode = "average" => s = n * Part(check[i])
      BY <1>0, <2>2, <3>1 DEF SnapsInv, SnapInv
    <3>5. Claimed(i)' <= s /\ Taken(i)' <= n /\ n - Taken(i)' <= s - Claimed(i)'
      <4>1. Claimed(i) \in Nat /\ Taken(i) \in Nat
        BY <1>0, ClaimTypes
      <4> QED BY <1>4, <3>2, <3>4, <4>1
    <3>6. Claimed(tx[q].id)' = Claimed(i)' /\ Taken(tx[q].id)' = Taken(i)'
      BY <3>3
    <3>7. Part(check[tx[q].id])' = Part(check[i]) /\ Funded(check[tx[q].id])' = Funded(check[i])
      BY <3>3
    <3> QED BY <3>3, <3>4, <3>5, <3>6, <3>7 DEF SnapInv
  <2> QED BY <2>1, <2>2
<1>7. users' # setting.users
  BY <1>0, <1>1
<1>8. Whole' /\ (users \subseteq setting.users)'
  BY <1>0, <1>1, <1>7 DEF Whole
<1> QED BY <1>2, <1>5, <1>6, <1>8 DEF RowsInv, SnapsInv

LEMMA IStep == ASSUME IInv, [Next]_vars PROVE IInv'
<1>1. TypeOK' /\ LockedInv'
  BY TypeStep DEF IInv
<1>a. ASSUME Quiet, \A q \in Procs : tx'[q] = tx[q] \/ tx'[q].pc # "pay" \/ CountClaims(q)
      PROVE  IInv'
  BY <1>1, <1>a, QuietStep DEF IInv
<1>b. TypeOK /\ tx \in [Procs -> Tx]
  BY DEF IInv, TypeOK
<1>3. ASSUME NEW u \in Users, NEW i \in Ids, ValidateOwnedActive(u, i) \/ InsertMessage(u, i)
      PROVE  IInv'
  BY <1>3, <1>a, QuietSteps, ProcsFacts DEF ValidateOwnedActive, InsertMessage
<1>4. ASSUME NEW i \in Ids, DeleteMessage(i) \/ Expire(i) PROVE IInv'
  BY <1>4, <1>a, QuietSteps, ProcsFacts DEF DeleteMessage, Expire
<1>2. CASE Meanwhile
  <2>1. UNCHANGED tx
    BY <1>2 DEF Meanwhile, EnterConversation, LeaveConversation, ChangeAudience
  <2> QED BY <1>2, <1>a, <2>1, QuietSteps, ProcsFacts
<1>5. ASSUME NEW p \in Procs, Arrive(p) \/ Sweep PROVE IInv'
  <2>1. ASSUME NEW q \in Procs, NEW op \in {"claim", "refund"}, NEW u \in Users \cup {None},
               NEW i \in Ids, Begin(q, op, u, i)
        PROVE  \A r \in Procs : tx'[r] = tx[r] \/ tx'[r].pc # "pay"
    BY <1>b, <2>1, BeginEffect, TxTypes
  <2>2. \A r \in Procs : tx'[r] = tx[r] \/ tx'[r].pc # "pay"
    BY <1>5, <2>1, ProcsFacts DEF Arrive, BeginClaim, BeginRead, Sweep, SweepScan, BeginSweep
  <2> QED BY <1>5, <1>a, <2>2, QuietSteps
<1>6. ASSUME NEW p \in Procs,
             \/ LockRow(p) \/ FindCarrier(p) \/ ReadReach(p) \/ CountClaims(p)
             \/ ClaimRefused(p) \/ Fault(p)
      PROVE  IInv'
  <2>1. End(p) => \A q \in Procs : tx'[q] = tx[q] \/ tx'[q].pc # "pay"
    BY <1>b, EndEffect, TxTypes
  <2>2. ASSUME NEW v \in {"carrier", "count"}, tx' = [tx EXCEPT ![p].pc = v]
        PROVE  \A q \in Procs : tx'[q] = tx[q] \/ tx'[q].pc # "pay"
    BY <1>b, <2>2 DEF Tx
  <2>3. \A q \in Procs : tx'[q] = tx[q] \/ tx'[q].pc # "pay" \/ CountClaims(q)
    <3>1. CASE LockRow(p)
      BY <2>1, <2>2, <3>1 DEF LockRow, Rollback
    <3>2. CASE ReadReach(p)
      BY <2>1, <2>2, <3>2 DEF ReadReach, Rollback
    <3>5. CASE FindCarrier(p)
      BY <1>b, <3>5 DEF FindCarrier, Tx
    <3>3. CASE CountClaims(p)
      <4>1. \A q \in Procs : q # p => tx'[q] = tx[q]
        BY <1>b, <3>3 DEF CountClaims
      <4> QED BY <3>3, <4>1
    <3>4. CASE ClaimRefused(p) \/ Fault(p)
      BY <2>1, <3>4 DEF ClaimRefused, Fault, Rollback
    <3> QED BY <1>6, <3>1, <3>2, <3>3, <3>4, <3>5
  <2> QED BY <1>6, <1>a, <2>3, QuietSteps
<1>7. CASE Crash \/ UNCHANGED vars
  <2>1. \A q \in Procs : tx'[q] = tx[q] \/ tx'[q].pc # "pay"
    BY <1>7, TxTypes DEF Crash, vars
  <2> QED BY <1>7, <1>a, <2>1, QuietSteps, ProcsFacts
<1>8. ASSUME NEW i \in Ids, NEW u \in Users, NEW d \in setting.deals, NEW m \in Modes,
             Create(i, u, d[1], d[2], m)
      PROVE  IInv'
  BY <1>1, <1>8, CreateStep DEF IInv
<1>9. ASSUME NEW i \in Ids, AttachToPost(i) PROVE IInv'
  BY <1>1, <1>9, AttachStep DEF IInv
<1>10. ASSUME NEW p \in Procs, RefundIfExpired(p) \/ ClaimExpired(p) PROVE IInv'
  BY <1>1, <1>10, RefundStep DEF IInv
<1>11. ASSUME NEW p \in Procs, PayShare(p) PROVE IInv'
  BY <1>1, <1>11, PayStep DEF IInv
<1>12. ASSUME NEW u \in Users, PurgeUser(u) PROVE IInv'
  BY <1>1, <1>12, PurgeStep DEF IInv
<1> QED BY <1>2, <1>3, <1>4, <1>5, <1>6, <1>7, <1>8, <1>9, <1>10, <1>11, <1>12, ProcsFacts
           DEF Next, Share, Proceed

LEMMA InvChecks == IInv => CheckInv
<1> SUFFICES ASSUME IInv PROVE CheckInv
  OBVIOUS
<1>0. TypeOK /\ LockedInv /\ RowsInv /\ SnapsInv
  BY DEF IInv
<1>1. ASSUME users = setting.users PROVE RowsAgree /\ CoinsAccounted /\ NeverOverpaid
  <2>1. (\A i \in Ids : WholeRow(i)) /\ CoinsAccounted
    BY <1>1 DEF IInv, Whole
  <2>2. ASSUME NEW i \in Ids
        PROVE  LET c == check[i]
                   left == c.shares - Cardinality(Claimants(i))
               IN  /\ Claimed(i) <= c.total
                   /\ c.status = "active" => left > 0
                   /\ c.status = "active" /\ c.total >= c.shares => c.total - Claimed(i) >= left
                   /\ c.status = "settled" => left = 0 /\ Claimed(i) = c.total
    <3>1. /\ Claimed(i) \in Nat /\ Taken(i) \in Nat /\ check[i].total \in Nat /\ check[i].shares \in Nat
      BY <1>0, ClaimTypes
    <3>2. RowInv(i) /\ WholeRow(i)
      BY <1>0, <2>1 DEF RowsInv
    <3> QED BY <3>1, <3>2 DEF RowInv, WholeRow, Taken, Funded
  <2> QED BY <2>1, <2>2 DEF RowsAgree, NeverOverpaid, WholeRow
<1>2. ASSUME NEW p \in Procs, tx[p].pc = "pay", HasShare(tx[p]),
             check[tx[p].id].total >= check[tx[p].id].shares, NEW a \in Amounts(tx[p])
      PROVE  Payable(tx[p], a)
  <2>1. PICK i \in Ids, n \in Nat, s \in Nat : i = tx[p].id /\ n = tx[p].count /\ s = tx[p].sum
    BY <1>0, <1>2 DEF LockedInv, TxFits, TypeOK, Tx
  <2>2. check[i].status = "active" /\ n < check[i].shares
    BY <1>2, <2>1 DEF HasShare, Claimable
  <2>3. check[i] \in Check /\ check[i].shares > 0 /\ Funded(check[i])
    BY <1>0, <1>2, <2>1, <2>2, ClaimTypes DEF RowsInv, RowInv, Funded
  <2>4. /\ Funded(check[i]) => check[i].total - s >= check[i].shares - n
        /\ check[i].mode = "average" => s = n * Part(check[i])
    BY <1>0, <1>2, <2>1, <2>2 DEF SnapsInv, SnapInv
  <2>5. a \in Draw(check[i], s, n)
    BY <2>1 DEF Amounts
  <2>6. 1 <= a /\ a <= check[i].total - s
    BY <2>2, <2>3, <2>4, <2>5, DrawFits
  <2> QED BY <2>1, <2>6 DEF Payable
<1>3. FundedCheckPays
  BY <1>2 DEF FundedCheckPays
<1> QED BY <1>1, <1>3 DEF CheckInv

(* For any number of users, checks and requests: the status of a check and *)
(* its claims agree, no coin is made or lost and no check pays more than   *)
(* was escrowed in it, as long as no user is purged; and a claim of a check *)
(* with a cent for each share is never refused for its amount, purged or   *)
(* not (Create, Claim and refundIfExpired of pkg/repository/check.go).     *)
THEOREM CheckInvHolds == Spec => []CheckInv
<1>1. Init => IInv
  BY InitInv
<1>2. IInv /\ [Next]_vars => IInv'
  BY IStep
<1>3. IInv => CheckInv
  BY InvChecks
<1> QED BY <1>1, <1>2, <1>3, PTL DEF Spec

-----------------------------------------------------------------------------
(* Why a proof of identity signs in once, to an account of that identity,  *)
(* and how far concurrent requests exceed the quota, for any identities.   *)

(* Why: a nonce or a ticket is consumed by one DELETE before anything else *)
(* happens, so one request at the most holds it, and no other will.        *)
Consumed(x) == IF x \in Nonces THEN nonce[x] = "gone" ELSE ticket[x].state = "gone"

SingleUse ==
    /\ \A x \in Nonces \cup Tickets :
         /\ ledger.minted[x] <= 1
         /\ ledger.minted[x] = 1 => Consumed(x)
    /\ \A r \in Reqs : req[r].by # NoTicket => Consumed(req[r].by) /\ ledger.minted[req[r].by] = 0
    /\ \A r, s \in Reqs : req[r].by = req[s].by /\ req[r].by # NoTicket => r = s

(* Why: what a request is about to do has what it needs.                   *)
FitReq(q) ==
    /\ q.pc = "idle" => q.by = NoTicket
    /\ q.pc # "idle" => q.who \in Identities
    /\ q.pc \in {"resolve", "count", "insert", "session"} => q.by # NoTicket
    /\ q.pc = "load" \/ (q.pc = "quota" /\ q.by = NoTicket) => q.id \in AccountIds
    /\ q.pc = "write" => q.id \in AccountIds /\ q.by = NoTicket
    /\ q.pc = "session" => q.id \in AccountIds /\ acct[q.id].state # "none"
Shape ==
    /\ \A t \in Tickets : ticket[t].state = "open" => ticket[t].who \in Identities
    /\ \A r \in Reqs : FitReq(req[r])

(* Why: who found users when it counted them finds an administrator later, *)
(* unless one was purged.                                                  *)
AdminSeen ==
    \A r \in Reqs : req[r].pc = "insert" /\ ~req[r].admin => ledger.orphaned \/ \E a \in Rows : acct[a].admin

IdentitiesInv == IdentitiesTypeOK /\ SingleUse /\ Shape /\ SignedInAsOwn /\ AdminSeen /\ Administered /\ QuotaBounded
-----------------------------------------------------------------------------
(* A non-empty set of numbers has a least one: the id a new account gets.   *)
LEMMA MinIn == ASSUME NEW S \in SUBSET Nat, S # {} PROVE Min(S) \in S
<1> DEFINE R == OpToRel(<, Nat)
<1>1. IsWellFoundedOn(R, Nat)
  BY NatLessThanWellFounded
<1>2. \A x, y \in S : ~(<<y, x>> \in R) => x <= y
  BY DEF OpToRel
<1> HIDE DEF R
<1>3. S \subseteq Nat
  OBVIOUS
<1>4. PICK x \in S : \A y \in S : ~(<<y, x>> \in R)
  BY <1>1, <1>3, WFMin
<1>5. \A y \in S : x <= y
  BY <1>2, <1>4
<1> QED
  BY <1>5 DEF Min

(* The records the requests and the accounts are.                           *)
LEMMA AccountType ==
    ASSUME NEW st \in State, NEW i \in Identities \cup {Nobody}, NEW m \in Addressed \cup {Nobody},
           NEW b \in BOOLEAN, NEW c \in BOOLEAN
    PROVE  [state |-> st, who |-> i, mail |-> m, admin |-> b, needs |-> c] \in Account
BY DEF Account

LEMMA NoAccountType == NoAccount \in Account
BY DEF Account, NoAccount, State

LEMMA NoReqType == NoReq \in Req
BY DEF NoReq, Req, Pc

(* What the writes of one account or one request leave well-typed.          *)
LEMMA AcctType ==
    ASSUME IdentitiesTypeOK, NEW a \in AccountIds, NEW x \in Account, acct' = [acct EXCEPT ![a] = x]
    PROVE  acct' \in [AccountIds -> Account]
BY DEF IdentitiesTypeOK

LEMMA ReqType ==
    ASSUME IdentitiesTypeOK, NEW r \in Reqs, NEW q \in Req, req' = [req EXCEPT ![r] = q]
    PROVE  req' \in [Reqs -> Req]
BY DEF IdentitiesTypeOK

LEMMA GoType ==
    ASSUME IdentitiesTypeOK, NEW r \in Reqs, NEW p \in Pc, Go(r, p)
    PROVE  req' \in [Reqs -> Req]
<1>1. req[r] \in Req
  BY DEF IdentitiesTypeOK
<1>2. [req[r] EXCEPT !.pc = p] \in Req
  BY <1>1 DEF Req
<1> QED
  BY <1>2 DEF Go, IdentitiesTypeOK

LEMMA DoneType == ASSUME IdentitiesTypeOK, NEW r \in Reqs, Done(r) PROVE req' \in [Reqs -> Req]
BY NoReqType DEF Done, IdentitiesTypeOK

LEMMA AnswerType == ASSUME IdentitiesTypeOK, NEW r \in Reqs, Answer(r) PROVE IdentitiesTypeOK'
BY DoneType DEF Answer, IdentitiesTypeOK

LEMMA MakeType ==
    ASSUME NEW p \in Pc, NEW i \in Identities \cup {Nobody},
           NEW x \in Nonces \cup Tickets \cup {NoTicket}, NEW a \in AccountIds \cup {NoId}
    PROVE  /\ [NoReq EXCEPT !.pc = p, !.who = i, !.by = x] \in Req
           /\ [NoReq EXCEPT !.pc = p, !.who = i, !.id = a] \in Req
           /\ [NoReq EXCEPT !.pc = p, !.who = i, !.by = x, !.id = a] \in Req
BY DEF NoReq, Req
-----------------------------------------------------------------------------
(* TypeOK, one lemma per kind of step.                                      *)
LEMMA SignInType ==
    ASSUME IdentitiesTypeOK, SingleUse, Shape, NEW r \in Reqs,
           \/ \E n \in Nonces, i \in Identities : OIDCCallback(r, n, i)
           \/ ResolveIdentity(r) \/ ProviderFails(r)
           \/ CountUsers(r) \/ CreateSession(r)
           \/ \E t \in Tickets : OIDCPickCreate(r, t) \/ \E a \in AccountIds : OIDCPickSelect(r, t, a)
           \/ LoadPicked(r) \/ CheckQuota(r)
           \/ \E a \in AccountIds, i \in Identities : OIDCBind(r, a, i)
           \/ LoadBound(r)
    PROVE  IdentitiesTypeOK'
<1>0. req[r] \in Req
  BY DEF IdentitiesTypeOK
<1>1. ASSUME NEW n \in Nonces, NEW i \in Identities, OIDCCallback(r, n, i) PROVE IdentitiesTypeOK'
  <2>1. [NoReq EXCEPT !.pc = "resolve", !.who = i, !.by = n] \in Req
    BY MakeType DEF Pc
  <2>2. req' \in [Reqs -> Req]
    BY <1>1, <2>1, ReqType DEF OIDCCallback
  <2> QED
    BY <1>1, <2>2 DEF OIDCCallback, ConsumeOIDCState, IdentitiesTypeOK
<1>2. CASE ResolveIdentity(r)
  <2>1. req' \in [Reqs -> Req]
    BY <1>2, DoneType, GoType DEF ResolveIdentity, Pc
  <2>2. req[r].who \in Identities \cup {Nobody}
    BY <1>0 DEF Req
  <2>3. ticket' \in [Tickets -> [state : {"new", "open", "gone"}, who : Identities \cup {Nobody}]]
    BY <1>2, <2>2 DEF ResolveIdentity, IdentitiesTypeOK
  <2> QED
    BY <1>2, <2>1, <2>3 DEF ResolveIdentity, IdentitiesTypeOK
<1>3. CASE ProviderFails(r)
  BY <1>3, AnswerType DEF ProviderFails
<1>4. CASE CountUsers(r)
  <2>1. RoleIsAdmin \in BOOLEAN
    BY DEF RoleIsAdmin
  <2>2. PICK b \in BOOLEAN : b = RoleIsAdmin
    BY <2>1
  <2>3. [req[r] EXCEPT !.pc = "insert", !.admin = b] \in Req
    BY <1>0 DEF Req, Pc
  <2>4. req' \in [Reqs -> Req]
    BY <1>4, <2>2, <2>3 DEF CountUsers, IdentitiesTypeOK
  <2> QED
    BY <1>4, <2>4 DEF CountUsers, IdentitiesTypeOK
<1>5. CASE CreateSession(r)
  <2>1. req' \in [Reqs -> Req]
    BY <1>5, DoneType DEF CreateSession
  <2>2. ledger' \in Ledger
    <3>1. CASE Row(req[r].id)
      <4>1. req[r].by \in Nonces \cup Tickets
        BY <1>0, <1>5 DEF CreateSession, Shape, FitReq, Req
      <4>2. PICK x \in Nonces \cup Tickets : x = req[r].by
        BY <4>1
      <4>3. ledger.minted[x] = 0
        BY <4>2, IdentitiesAssumption DEF SingleUse
      <4>4. Cardinality(Reqs) \in Nat /\ 1 <= Cardinality(Reqs)
        BY IdentitiesAssumption, FS_CardinalityType, FS_EmptySet
      <4>5. ledger.minted \in [Nonces \cup Tickets -> 0 .. Cardinality(Reqs)] /\ ledger \in Ledger
        BY DEF IdentitiesTypeOK, Ledger
      <4>6. [ledger.minted EXCEPT ![x] = 1] \in [Nonces \cup Tickets -> 0 .. Cardinality(Reqs)]
        BY <4>4, <4>5
      <4>7. PICK m \in [Nonces \cup Tickets -> 0 .. Cardinality(Reqs)] :
                m = [ledger.minted EXCEPT ![x] = 1]
        BY <4>6
      <4>8. [ledger EXCEPT !.minted = m] \in Ledger
        BY <4>5 DEF Ledger
      <4>9. ledger' = [ledger EXCEPT !.minted = m]
        BY <1>5, <3>1, <4>2, <4>3, <4>5, <4>7 DEF CreateSession, Ledger
      <4> QED
        BY <4>8, <4>9
    <3> QED
      BY <1>5, <3>1 DEF CreateSession, IdentitiesTypeOK
  <2> QED
    BY <1>5, <2>1, <2>2 DEF CreateSession, IdentitiesTypeOK
<1>6. ASSUME NEW t \in Tickets, OIDCPickCreate(r, t) \/ \E a \in AccountIds : OIDCPickSelect(r, t, a)
      PROVE  IdentitiesTypeOK'
  <2>1. ticket[t].who \in Identities \cup {Nobody}
    BY DEF IdentitiesTypeOK
  <2>2. PICK i \in Identities \cup {Nobody} : i = ticket[t].who
    BY <2>1
  <2>3. req' \in [Reqs -> Req]
    <3>1. CASE OIDCPickCreate(r, t)
      <4>1. [NoReq EXCEPT !.pc = "quota", !.who = i, !.by = t] \in Req
        BY MakeType DEF Pc
      <4> QED
        BY <2>2, <3>1, <4>1, ReqType DEF OIDCPickCreate
    <3>2. ASSUME NEW a \in AccountIds, OIDCPickSelect(r, t, a) PROVE req' \in [Reqs -> Req]
      <4>1. [NoReq EXCEPT !.pc = "load", !.who = i, !.by = t, !.id = a] \in Req
        BY MakeType DEF Pc
      <4> QED
        BY <2>2, <3>2, <4>1, ReqType DEF OIDCPickSelect
    <3> QED
      BY <1>6, <3>1, <3>2
  <2>4. ticket' \in [Tickets -> [state : {"new", "open", "gone"}, who : Identities \cup {Nobody}]]
    <3>1. ConsumeOAuth2Pick(t)
      BY <1>6 DEF OIDCPickCreate, OIDCPickSelect
    <3>2. [state |-> "gone", who |-> Nobody]
            \in [state : {"new", "open", "gone"}, who : Identities \cup {Nobody}]
      OBVIOUS
    <3> QED
      BY <3>1, <3>2 DEF ConsumeOAuth2Pick, IdentitiesTypeOK
  <2> QED
    BY <1>6, <2>3, <2>4 DEF OIDCPickCreate, OIDCPickSelect, IdentitiesTypeOK
<1>7. CASE LoadPicked(r)
  <2>1. acct[req[r].id].needs \in BOOLEAN \/ ~Selectable(req[r].id, req[r].who)
    BY <1>7 DEF LoadPicked, Shape, FitReq, IdentitiesTypeOK, Account
  <2>2. CASE Selectable(req[r].id, req[r].who)
    <3>1. PICK b \in BOOLEAN : b = acct[req[r].id].needs
      BY <2>1, <2>2
    <3>2. [req[r] EXCEPT !.pc = "session", !.needs = b] \in Req
      BY <1>0 DEF Req, Pc
    <3>3. req' \in [Reqs -> Req]
      BY <1>7, <2>2, <3>1, <3>2 DEF LoadPicked, IdentitiesTypeOK
    <3> QED
      BY <1>7, <3>3 DEF LoadPicked, IdentitiesTypeOK
  <2>3. CASE ~Selectable(req[r].id, req[r].who)
    <3>1. req' \in [Reqs -> Req]
      BY <1>7, <2>3, DoneType DEF LoadPicked
    <3> QED
      BY <1>7, <3>1 DEF LoadPicked, IdentitiesTypeOK
  <2> QED
    BY <2>2, <2>3
<1>8. CASE CheckQuota(r)
  <2>1. req' \in [Reqs -> Req]
    BY <1>8, DoneType, GoType DEF CheckQuota, Pc
  <2> QED
    BY <1>8, <2>1 DEF CheckQuota, IdentitiesTypeOK
<1>9. ASSUME NEW a \in AccountIds, NEW i \in Identities, OIDCBind(r, a, i) PROVE IdentitiesTypeOK'
  <2>1. [NoReq EXCEPT !.pc = "load", !.who = i, !.id = a] \in Req
    BY MakeType DEF Pc
  <2>2. req' \in [Reqs -> Req]
    BY <1>9, <2>1, ReqType DEF OIDCBind
  <2> QED
    BY <1>9, <2>2 DEF OIDCBind, IdentitiesTypeOK
<1>10. CASE LoadBound(r)
  <2>1. req' \in [Reqs -> Req]
    BY <1>10, DoneType, GoType DEF LoadBound, Pc
  <2> QED
    BY <1>10, <2>1 DEF LoadBound, IdentitiesTypeOK
<1> QED
  BY <1>1, <1>2, <1>3, <1>4, <1>5, <1>6, <1>7, <1>8, <1>9, <1>10

LEMMA WriteType ==
    ASSUME IdentitiesTypeOK, Shape, NEW r \in Reqs, InsertUser(r) \/ BindOAuth(r)
    PROVE  IdentitiesTypeOK'
<1>0. req[r] \in Req
  BY DEF IdentitiesTypeOK
<1>1. CASE InsertUser(r)
  <2>1. CASE EmailTaken(req[r].who)
    <3>1. req' \in [Reqs -> Req]
      BY <1>1, <2>1, DoneType DEF InsertUser
    <3> QED
      BY <1>1, <2>1, <3>1 DEF InsertUser, IdentitiesTypeOK
  <2>2. CASE ~EmailTaken(req[r].who)
    <3> DEFINE x == [state |-> "live", who |-> req[r].who,
                     mail |-> IF req[r].who \in Addressed THEN req[r].who ELSE Nobody,
                     admin |-> req[r].admin, needs |-> TRUE]
    <3>1. Unused \in SUBSET Nat /\ Unused # {} /\ Unused \subseteq AccountIds
      BY <1>1, <2>2, IdentitiesAssumption DEF InsertUser, Unused
    <3>a. Min(Unused) \in AccountIds
      BY <3>1, MinIn
    <3>2. PICK a \in AccountIds : a = Min(Unused)
      BY <3>a
    <3>3. x \in Account
      BY <1>0 DEF Account, Req, State
    <3>4. acct' \in [AccountIds -> Account]
      BY <1>1, <2>2, <3>2, <3>3, AcctType DEF InsertUser
    <3>5. [req[r] EXCEPT !.pc = "session", !.id = a, !.needs = TRUE] \in Req
      BY <1>0 DEF Req, Pc
    <3>6. req' \in [Reqs -> Req]
      BY <1>1, <2>2, <3>2, <3>5 DEF InsertUser, IdentitiesTypeOK
    <3> QED
      BY <1>1, <3>4, <3>6 DEF InsertUser, IdentitiesTypeOK
  <2> QED
    BY <2>1, <2>2
<1>2. CASE BindOAuth(r)
  <2>1. req[r].id \in AccountIds /\ req[r].who \in Identities
    BY <1>2 DEF BindOAuth, Shape, FitReq
  <2>2. PICK a \in AccountIds, i \in Identities : a = req[r].id /\ i = req[r].who
    BY <2>1
  <2>3. [acct[a] EXCEPT !.who = i] \in Account
    BY DEF IdentitiesTypeOK, Account
  <2>4. acct' \in [AccountIds -> Account]
    BY <1>2, <2>2, <2>3 DEF BindOAuth, IdentitiesTypeOK
  <2>5. [ledger EXCEPT !.rebound = @ \cup {a}] \in Ledger
    BY DEF IdentitiesTypeOK, Ledger
  <2>6. ledger' \in Ledger
    BY <1>2, <2>2, <2>5 DEF BindOAuth, IdentitiesTypeOK
  <2>7. req' \in [Reqs -> Req]
    BY <1>2, DoneType DEF BindOAuth
  <2> QED
    BY <1>2, <2>4, <2>6, <2>7 DEF BindOAuth, IdentitiesTypeOK
<1> QED
  BY <1>1, <1>2

LEMMA OtherType ==
    ASSUME IdentitiesTypeOK,
           \/ \E n \in Nonces : OIDCLogin(n)
           \/ PurgeExpired
           \/ \E a \in AccountIds : Register(a) \/ RequestAccountDeletion(a) \/ CancelAccountDeletion(a)
                               \/ PurgeUserData(a)
           \/ ListPurgeableUsers
    PROVE  IdentitiesTypeOK'
<1>1. ASSUME NEW n \in Nonces, OIDCLogin(n) PROVE IdentitiesTypeOK'
  BY <1>1 DEF OIDCLogin, IdentitiesTypeOK
<1>2. CASE PurgeExpired
  BY <1>2 DEF PurgeExpired, ConsumeOAuth2Pick, IdentitiesTypeOK
<1>3. ASSUME NEW a \in AccountIds, Register(a) \/ RequestAccountDeletion(a) \/ CancelAccountDeletion(a)
      PROVE  IdentitiesTypeOK'
  <2>1. acct[a] \in Account
    BY DEF IdentitiesTypeOK
  <2>2. /\ [acct[a] EXCEPT !.needs = FALSE] \in Account
        /\ [acct[a] EXCEPT !.state = "deleted"] \in Account
        /\ [acct[a] EXCEPT !.state = "back"] \in Account
    BY <2>1 DEF Account, State
  <2>3. acct' \in [AccountIds -> Account]
    BY <1>3, <2>2 DEF Register, RequestAccountDeletion, CancelAccountDeletion, IdentitiesTypeOK
  <2> QED
    BY <1>3, <2>3 DEF Register, RequestAccountDeletion, CancelAccountDeletion, IdentitiesTypeOK
<1>4. ASSUME NEW a \in AccountIds, PurgeUserData(a) PROVE IdentitiesTypeOK'
  <2>1. [NoAccount EXCEPT !.state = "gone"] \in Account
    BY DEF NoAccount, Account, State
  <2>2. acct' \in [AccountIds -> Account]
    BY <1>4, <2>1, AcctType DEF PurgeUserData
  <2>3. acct[a].admin \in BOOLEAN
    BY DEF IdentitiesTypeOK, Account
  <2>4. ledger' \in Ledger
    BY <1>4, <2>3 DEF PurgeUserData, IdentitiesTypeOK, Ledger
  <2> QED
    BY <1>4, <2>2, <2>4 DEF PurgeUserData, IdentitiesTypeOK
<1>5. CASE ListPurgeableUsers
  BY <1>5 DEF ListPurgeableUsers, IdentitiesTypeOK
<1> QED
  BY <1>1, <1>2, <1>3, <1>4, <1>5
-----------------------------------------------------------------------------
(* SingleUse.  A step that mints nothing, opens nothing that was consumed   *)
(* and gives no request another nonce or ticket leaves it.                  *)
LEMMA SingleUseKept ==
    ASSUME SingleUse, UNCHANGED ledger.minted,
           \A x \in Nonces \cup Tickets : Consumed(x) => Consumed(x)',
           \A s \in Reqs : req'[s].by = req[s].by \/ req'[s].by = NoTicket,
           \A s \in Reqs : req[s].by \in Nonces \cup Tickets \cup {NoTicket}
    PROVE  SingleUse'
<1>1. ASSUME NEW x \in Nonces \cup Tickets
      PROVE  ledger'.minted[x] <= 1 /\ (ledger'.minted[x] = 1 => Consumed(x)')
  BY <1>1 DEF SingleUse
<1>2. ASSUME NEW s \in Reqs, req'[s].by # NoTicket
      PROVE  Consumed(req[s].by)' /\ ledger'.minted[req'[s].by] = 0
  <2>1. PICK x \in Nonces \cup Tickets : x = req[s].by /\ x = req'[s].by
    BY <1>2
  <2>2. Consumed(x) /\ ledger.minted[x] = 0
    BY <1>2, <2>1 DEF SingleUse
  <2>3. Consumed(x)'
    BY <2>2
  <2> QED
    BY <2>1, <2>2, <2>3 DEF Consumed
<1>3. ASSUME NEW s \in Reqs, NEW z \in Reqs, req'[s].by = req'[z].by, req'[s].by # NoTicket
      PROVE  s = z
  BY <1>3 DEF SingleUse
<1> QED
  BY <1>1, <1>2, <1>3 DEF SingleUse

(* A nonce or a ticket that is consumed now goes to one request.            *)
LEMMA SingleUseTaken ==
    ASSUME SingleUse, IdentitiesTypeOK, UNCHANGED ledger, NEW r \in Reqs,
           NEW x \in Nonces \cup Tickets, ~Consumed(x), Consumed(x)',
           \A y \in Nonces \cup Tickets : Consumed(y) => Consumed(y)',
           req'[r].by = x, \A s \in Reqs \ {r} : req'[s] = req[s]
    PROVE  SingleUse'
<1>0. \A s \in Reqs : req[s].by \in Nonces \cup Tickets \cup {NoTicket}
  BY DEF IdentitiesTypeOK, Req
<1>a. ledger.minted[x] = 0
  <2>1. ledger.minted[x] \in 0 .. Cardinality(Reqs) /\ Cardinality(Reqs) \in Nat
    BY IdentitiesAssumption, FS_CardinalityType DEF IdentitiesTypeOK, Ledger
  <2> QED
    BY <2>1 DEF SingleUse
<1>b. \A s \in Reqs : req[s].by # x
  BY IdentitiesAssumption DEF SingleUse
<1>1. ASSUME NEW y \in Nonces \cup Tickets
      PROVE  ledger'.minted[y] <= 1 /\ (ledger'.minted[y] = 1 => Consumed(y)')
  BY <1>1 DEF SingleUse
<1>2. ASSUME NEW s \in Reqs, req'[s].by # NoTicket
      PROVE  Consumed(req[s].by)' /\ ledger'.minted[req'[s].by] = 0
  <2>1. CASE s = r
    <3>1. req'[s].by = x
      BY <2>1
    <3> QED
      BY <1>a, <3>1 DEF Consumed
  <2>2. CASE s # r
    <3>1. PICK y \in Nonces \cup Tickets : y = req[s].by /\ y = req'[s].by
      BY <1>0, <1>2, <2>2
    <3>2. Consumed(y) /\ ledger.minted[y] = 0
      BY <1>2, <3>1 DEF SingleUse
    <3>3. Consumed(y)'
      BY <3>2
    <3> QED
      BY <3>1, <3>2, <3>3 DEF Consumed
  <2> QED
    BY <2>1, <2>2
<1>3. ASSUME NEW s \in Reqs, NEW z \in Reqs, req'[s].by = req'[z].by, req'[s].by # NoTicket
      PROVE  s = z
  BY <1>3, <1>b DEF SingleUse
<1> QED
  BY <1>1, <1>2, <1>3 DEF SingleUse

LEMMA SingleUseMinted ==
    ASSUME SingleUse, Shape, IdentitiesTypeOK, NEW r \in Reqs, CreateSession(r)
    PROVE  SingleUse'
<1>0. req[r] \in Req
  BY DEF IdentitiesTypeOK
<1>1. \A s \in Reqs : /\ req'[s].by = req[s].by \/ req'[s].by = NoTicket
                      /\ req[s].by \in Nonces \cup Tickets \cup {NoTicket}
  BY DEF CreateSession, Done, IdentitiesTypeOK, NoReq, Req
<1>2. \A x \in Nonces \cup Tickets : Consumed(x) => Consumed(x)'
  BY DEF CreateSession, Consumed
<1>3. CASE ~Row(req[r].id)
  BY <1>1, <1>2, <1>3, SingleUseKept DEF CreateSession
<1>4. CASE Row(req[r].id)
  <2>1. req[r].by \in Nonces \cup Tickets /\ req[r].by # NoTicket
    BY <1>0, IdentitiesAssumption DEF CreateSession, Shape, FitReq, Req
  <2>2. PICK x \in Nonces \cup Tickets : x = req[r].by
    BY <2>1
  <2>3. Consumed(x) /\ ledger.minted[x] = 0
    BY <2>1, <2>2 DEF SingleUse
  <2>4. ledger.minted \in [Nonces \cup Tickets -> 0 .. Cardinality(Reqs)] /\ ledger \in Ledger
    BY DEF IdentitiesTypeOK, Ledger
  <2>5. ledger'.minted = [ledger.minted EXCEPT ![x] = 1]
    BY <1>4, <2>2, <2>3, <2>4 DEF CreateSession, Ledger
  <2>6. \A y \in Nonces \cup Tickets : ledger'.minted[y] = IF y = x THEN 1 ELSE ledger.minted[y]
    BY <2>4, <2>5
  <2>7. req'[r].by = NoTicket /\ \A s \in Reqs \ {r} : req'[s] = req[s]
    BY DEF CreateSession, Done, IdentitiesTypeOK, NoReq
  <2>8. ASSUME NEW y \in Nonces \cup Tickets
        PROVE  ledger'.minted[y] <= 1 /\ (ledger'.minted[y] = 1 => Consumed(y)')
    BY <1>2, <2>3, <2>6 DEF SingleUse
  <2>9. ASSUME NEW s \in Reqs, req'[s].by # NoTicket
        PROVE  Consumed(req[s].by)' /\ ledger'.minted[req'[s].by] = 0
    <3>1. s # r /\ req'[s] = req[s]
      BY <2>7, <2>9
    <3>2. PICK y \in Nonces \cup Tickets : y = req[s].by
      BY <1>1, <2>9, <3>1
    <3>3. y # x
      BY <2>1, <2>2, <3>1, <3>2 DEF SingleUse
    <3>4. Consumed(y) /\ ledger.minted[y] = 0
      BY <2>9, <3>1, <3>2 DEF SingleUse
    <3>5. Consumed(y)' /\ ledger'.minted[y] = 0
      BY <1>2, <2>6, <3>3, <3>4
    <3> QED
      BY <3>1, <3>2, <3>5 DEF Consumed
  <2>10. ASSUME NEW s \in Reqs, NEW z \in Reqs, req'[s].by = req'[z].by, req'[s].by # NoTicket
         PROVE  s = z
    BY <2>7, <2>10 DEF SingleUse
  <2> QED
    BY <2>8, <2>9, <2>10 DEF SingleUse
<1> QED
  BY <1>3, <1>4

LEMMA SingleUseStep ==
    ASSUME IdentitiesTypeOK, SingleUse, Shape, [IdentitiesNext]_identitiesVars
    PROVE  SingleUse'
<1>0. \A s \in Reqs : req[s].by \in Nonces \cup Tickets \cup {NoTicket}
  BY DEF IdentitiesTypeOK, Req
<1>a. NoReq.by = NoTicket
  BY DEF NoReq
<1>k. ASSUME UNCHANGED <<ledger, nonce, ticket>>,
             \A s \in Reqs : req'[s].by = req[s].by \/ req'[s].by = NoTicket
      PROVE  SingleUse'
  BY <1>k, <1>0, SingleUseKept DEF Consumed
<1>1. ASSUME NEW n \in Nonces, OIDCLogin(n) PROVE SingleUse'
  <2>1. \A x \in Nonces \cup Tickets : Consumed(x) => Consumed(x)'
    BY <1>1 DEF OIDCLogin, Consumed, IdentitiesTypeOK
  <2> QED
    BY <1>0, <1>1, <2>1, SingleUseKept DEF OIDCLogin
<1>2. CASE PurgeExpired
  <2>1. \A x \in Nonces \cup Tickets : Consumed(x) => Consumed(x)'
    BY <1>2 DEF PurgeExpired, ConsumeOAuth2Pick, Consumed, IdentitiesTypeOK
  <2> QED
    BY <1>0, <1>2, <2>1, SingleUseKept DEF PurgeExpired
<1>3. ASSUME NEW r \in Reqs, Request(r) PROVE SingleUse'
  <2>1. ASSUME NEW n \in Nonces, NEW i \in Identities, OIDCCallback(r, n, i) PROVE SingleUse'
    <3>1. req'[r].by = n /\ \A s \in Reqs \ {r} : req'[s] = req[s]
      BY <2>1 DEF OIDCCallback, IdentitiesTypeOK, NoReq
    <3>2. ~Consumed(n) /\ Consumed(n)'
      BY <2>1 DEF OIDCCallback, ConsumeOIDCState, Consumed, IdentitiesTypeOK
    <3>3. \A y \in Nonces \cup Tickets : Consumed(y) => Consumed(y)'
      BY <2>1 DEF OIDCCallback, ConsumeOIDCState, Consumed, IdentitiesTypeOK
    <3> QED
      BY <2>1, <3>1, <3>2, <3>3, SingleUseTaken DEF OIDCCallback
  <2>2. CASE ResolveIdentity(r)
    <3>1. \A y \in Nonces \cup Tickets : Consumed(y) => Consumed(y)'
      BY <2>2 DEF ResolveIdentity, Consumed, IdentitiesTypeOK
    <3>2. \A s \in Reqs : req'[s].by = req[s].by \/ req'[s].by = NoTicket
      BY <2>2, <1>a DEF ResolveIdentity, Done, Go, IdentitiesTypeOK, Req
    <3> QED
      BY <1>0, <2>2, <3>1, <3>2, SingleUseKept DEF ResolveIdentity
  <2>3. CASE ProviderFails(r)
    <3>1. \A s \in Reqs : req'[s].by = req[s].by \/ req'[s].by = NoTicket
      BY <2>3, <1>a DEF ProviderFails, Answer, Done, IdentitiesTypeOK, Req
    <3> QED
      BY <2>3, <3>1, <1>k DEF ProviderFails, Answer
  <2>4. CASE CountUsers(r)
    <3>1. \A s \in Reqs : req'[s].by = req[s].by \/ req'[s].by = NoTicket
      BY <2>4 DEF CountUsers, IdentitiesTypeOK, Req
    <3> QED
      BY <2>4, <3>1, <1>k DEF CountUsers
  <2>5. CASE InsertUser(r)
    <3>1. \A s \in Reqs : req'[s].by = req[s].by \/ req'[s].by = NoTicket
      BY <2>5, <1>a DEF InsertUser, Done, IdentitiesTypeOK, Req
    <3> QED
      BY <2>5, <3>1, <1>k DEF InsertUser
  <2>6. CASE CreateSession(r)
    BY <2>6, SingleUseMinted
  <2>7. ASSUME NEW t \in Tickets, OIDCPickCreate(r, t) \/ \E a \in AccountIds : OIDCPickSelect(r, t, a)
        PROVE  SingleUse'
    <3>0. t \notin Nonces
      BY IdentitiesAssumption
    <3>1. req'[r].by = t /\ \A s \in Reqs \ {r} : req'[s] = req[s]
      BY <2>7 DEF OIDCPickCreate, OIDCPickSelect, IdentitiesTypeOK, NoReq
    <3>2. ConsumeOAuth2Pick(t) /\ ticket[t].state = "open" /\ UNCHANGED <<nonce, ledger>>
      BY <2>7 DEF OIDCPickCreate, OIDCPickSelect
    <3>3. ~Consumed(t) /\ Consumed(t)'
      BY <3>0, <3>2 DEF ConsumeOAuth2Pick, Consumed, IdentitiesTypeOK
    <3>4. \A y \in Nonces \cup Tickets : Consumed(y) => Consumed(y)'
      BY <3>2 DEF ConsumeOAuth2Pick, Consumed, IdentitiesTypeOK
    <3> QED
      BY <3>1, <3>2, <3>3, <3>4, SingleUseTaken
  <2>8. CASE LoadPicked(r)
    <3>1. \A s \in Reqs : req'[s].by = req[s].by \/ req'[s].by = NoTicket
      BY <2>8, <1>a DEF LoadPicked, Done, IdentitiesTypeOK, Req
    <3> QED
      BY <2>8, <3>1, <1>k DEF LoadPicked
  <2>9. CASE CheckQuota(r)
    <3>1. \A s \in Reqs : req'[s].by = req[s].by \/ req'[s].by = NoTicket
      BY <2>9, <1>a DEF CheckQuota, Done, Go, IdentitiesTypeOK, Req
    <3> QED
      BY <2>9, <3>1, <1>k DEF CheckQuota
  <2>10. ASSUME NEW a \in AccountIds, NEW i \in Identities, OIDCBind(r, a, i) PROVE SingleUse'
    <3>1. \A s \in Reqs : req'[s].by = req[s].by \/ req'[s].by = NoTicket
      BY <2>10 DEF OIDCBind, NoReq, IdentitiesTypeOK, Req
    <3> QED
      BY <2>10, <3>1, <1>k DEF OIDCBind
  <2>11. CASE LoadBound(r)
    <3>1. \A s \in Reqs : req'[s].by = req[s].by \/ req'[s].by = NoTicket
      BY <2>11, <1>a DEF LoadBound, Done, Go, IdentitiesTypeOK, Req
    <3> QED
      BY <2>11, <3>1, <1>k DEF LoadBound
  <2>12. CASE BindOAuth(r)
    <3>1. \A s \in Reqs : req'[s].by = req[s].by \/ req'[s].by = NoTicket
      BY <2>12, <1>a DEF BindOAuth, Done, IdentitiesTypeOK, Req
    <3>2. UNCHANGED <<nonce, ticket, ledger.minted>>
      BY <2>12 DEF BindOAuth, IdentitiesTypeOK, Ledger
    <3> QED
      BY <1>0, <3>1, <3>2, SingleUseKept DEF Consumed
  <2> QED
    BY <1>3, <2>1, <2>2, <2>3, <2>4, <2>5, <2>6, <2>7, <2>8, <2>9, <2>10, <2>11, <2>12 DEF Request
<1>4. ASSUME NEW a \in AccountIds, Register(a) \/ RequestAccountDeletion(a) \/ CancelAccountDeletion(a)
      PROVE  SingleUse'
  BY <1>4, <1>k DEF Register, RequestAccountDeletion, CancelAccountDeletion
<1>5. ASSUME NEW a \in AccountIds, PurgeUserData(a) PROVE SingleUse'
  <2>1. UNCHANGED <<nonce, ticket, req, ledger.minted>>
    BY <1>5 DEF PurgeUserData, IdentitiesTypeOK, Ledger
  <2> QED
    BY <1>0, <2>1, SingleUseKept DEF Consumed
<1>6. CASE ListPurgeableUsers
  BY <1>6, <1>k DEF ListPurgeableUsers
<1>7. CASE UNCHANGED identitiesVars
  BY <1>7, <1>k DEF identitiesVars
<1> QED
  BY <1>1, <1>2, <1>3, <1>4, <1>5, <1>6, <1>7 DEF IdentitiesNext
-----------------------------------------------------------------------------
(* Shape, and with it SignedInAsOwn: what a request says of the account it  *)
(* is about.                                                                *)
OwnReq(q) ==
    q.pc = "session" /\ Row(q.id) =>
        /\ acct[q.id].who = q.who \/ q.id \in ledger.rebound
        /\ q.needs \/ ~acct[q.id].needs

NoneKept == \A a \in AccountIds : acct[a].state # "none" => acct'[a].state # "none"
OwnKept ==
    \A q \in Req : FitReq(q) /\ OwnReq(q) => OwnReq(q)'

LEMMA OwnIsSignedIn == SignedInAsOwn <=> \A r \in Reqs : OwnReq(req[r])
BY DEF SignedInAsOwn, OwnReq

LEMMA ShapeKept ==
    ASSUME IdentitiesTypeOK, Shape, SignedInAsOwn, NEW r \in Reqs,
           \A s \in Reqs \ {r} : req'[s] = req[s],
           FitReq(req[r])', OwnReq(req[r])', NoneKept, OwnKept,
           \A t \in Tickets : ticket'[t].state = "open" => ticket'[t].who \in Identities
    PROVE  Shape' /\ SignedInAsOwn'
<1>1. ASSUME NEW s \in Reqs, s # r PROVE FitReq(req[s])' /\ OwnReq(req[s])'
  <2>1. PICK q \in Req : q = req[s] /\ q = req'[s]
    BY <1>1 DEF IdentitiesTypeOK
  <2>2. FitReq(q) /\ OwnReq(q)
    BY <2>1, OwnIsSignedIn DEF Shape
  <2>3. FitReq(q)'
    BY <2>2 DEF FitReq, NoneKept
  <2>4. OwnReq(q)'
    BY <2>2 DEF OwnKept
  <2>5. FitReq(req[s])'
    BY <2>1, <2>3 DEF FitReq
  <2>6. OwnReq(req[s])'
    BY <2>1, <2>4 DEF OwnReq, Row
  <2> QED
    BY <2>5, <2>6
<1>2. \A s \in Reqs : FitReq(req[s])' /\ OwnReq(req[s])'
  BY <1>1
<1>3. Shape'
  BY <1>2 DEF Shape
<1>4. SignedInAsOwn'
  BY <1>2 DEF SignedInAsOwn, OwnReq
<1> QED
  BY <1>3, <1>4

LEMMA OwnKeptAcct ==
    ASSUME UNCHANGED <<acct, ledger>>
    PROVE  NoneKept /\ OwnKept
BY DEF NoneKept, OwnKept, OwnReq, Row

LEMMA ShapeRead ==
    ASSUME IdentitiesTypeOK, Shape, SignedInAsOwn, NEW r \in Reqs,
           \A s \in Reqs \ {r} : req'[s] = req[s],
           FitReq(req[r])', OwnReq(req[r])', UNCHANGED <<acct, ledger, ticket>>
    PROVE  Shape' /\ SignedInAsOwn'
BY ShapeKept, OwnKeptAcct DEF Shape

LEMMA ShapeDone ==
    ASSUME IdentitiesTypeOK, Shape, SignedInAsOwn, NEW r \in Reqs, Done(r), NoneKept, OwnKept,
           \A t \in Tickets : ticket'[t].state = "open" => ticket'[t].who \in Identities
    PROVE  Shape' /\ SignedInAsOwn'
<1>1. req'[r] = NoReq /\ \A s \in Reqs \ {r} : req'[s] = req[s]
  BY DEF Done, IdentitiesTypeOK
<1>2. FitReq(req[r])' /\ OwnReq(req[r])'
  BY <1>1 DEF NoReq, FitReq, OwnReq
<1> QED
  BY <1>1, <1>2, ShapeKept

LEMMA ShapeGo ==
    ASSUME IdentitiesTypeOK, Shape, SignedInAsOwn, NEW r \in Reqs,
           NEW p \in {"count", "quota", "write"}, Go(r, p),
           req[r].pc # "idle",
           p = "count" => req[r].by # NoTicket,
           p = "quota" => (req[r].by = NoTicket => req[r].id \in AccountIds),
           p = "write" => req[r].by = NoTicket /\ req[r].id \in AccountIds,
           UNCHANGED <<acct, ledger, ticket>>
    PROVE  Shape' /\ SignedInAsOwn'
<1>1. req'[r] = [req[r] EXCEPT !.pc = p] /\ \A s \in Reqs \ {r} : req'[s] = req[s]
  BY DEF Go, IdentitiesTypeOK
<1>2. PICK q \in Req : q = req[r]
  BY DEF IdentitiesTypeOK
<1>3. /\ req'[r].pc = p /\ req'[r].by = q.by /\ req'[r].who = q.who /\ req'[r].id = q.id
  BY <1>1, <1>2 DEF Req
<1>4. FitReq(req[r])' /\ OwnReq(req[r])'
  BY <1>2, <1>3 DEF FitReq, OwnReq, Shape
<1> QED
  BY <1>1, <1>4, ShapeRead

(* A row whose fields change under the requests that sign in to it.         *)
LEMMA OwnKeptRow ==
    ASSUME IdentitiesTypeOK, NEW a \in AccountIds, NEW x \in Account, acct' = [acct EXCEPT ![a] = x], x.state # "none",
           ledger.rebound \subseteq ledger'.rebound,
           acct[a].state # "none" /\ x.state \in {"live", "deleted", "back"} =>
               /\ Row(a)
               /\ x.who = acct[a].who \/ acct[a].who = Nobody \/ a \in ledger'.rebound
               /\ (x.needs = FALSE \/ x.needs = acct[a].needs)
    PROVE  NoneKept /\ OwnKept
<1>1. acct'[a] = x /\ \A b \in AccountIds \ {a} : acct'[b] = acct[b]
  BY DEF IdentitiesTypeOK
<1>2. NoneKept
  BY <1>1 DEF NoneKept
<1>3. ASSUME NEW q \in Req, FitReq(q), OwnReq(q), q.pc = "session", Row(q.id)'
      PROVE  /\ acct'[q.id].who = q.who \/ q.id \in ledger'.rebound
             /\ q.needs \/ ~acct'[q.id].needs
  <2>1. q.id \in AccountIds /\ acct[q.id].state # "none" /\ q.who # Nobody
    BY <1>3, IdentitiesAssumption DEF FitReq
  <2>2. CASE q.id # a
    BY <1>1, <1>3, <2>1, <2>2 DEF OwnReq, Row
  <2>3. CASE q.id = a
    <3>1. x.state \in {"live", "deleted", "back"}
      BY <1>1, <1>3, <2>3 DEF Row
    <3>2. /\ Row(a) /\ (x.needs = FALSE \/ x.needs = acct[a].needs)
          /\ x.who = acct[a].who \/ acct[a].who = Nobody \/ a \in ledger'.rebound
      BY <2>1, <2>3, <3>1
    <3>3. /\ acct[a].who = q.who \/ a \in ledger.rebound
          /\ q.needs \/ ~acct[a].needs
      <4>0. Row(q.id)
        BY <2>3, <3>2
      <4>1. q.pc = "session" /\ Row(q.id) /\ OwnReq(q)
        BY <1>3, <4>0
      <4>2. acct[q.id].who = q.who \/ q.id \in ledger.rebound
        BY <4>1 DEF OwnReq
      <4>3. q.needs \/ ~acct[q.id].needs
        BY <4>1 DEF OwnReq
      <4> QED
        BY <2>3, <4>2, <4>3
    <3>4. acct'[q.id] = x
      BY <1>1, <2>3
    <3>5. x.who = q.who \/ a \in ledger'.rebound
      BY <2>1, <3>2, <3>3
    <3>6. q.needs \/ ~x.needs
      BY <3>2, <3>3
    <3> QED
      BY <2>3, <3>4, <3>5, <3>6
  <2> QED
    BY <2>2, <2>3
<1>4. OwnKept
  BY <1>3 DEF OwnKept, OwnReq
<1> QED
  BY <1>2, <1>4

LEMMA ShapeRequest ==
    ASSUME IdentitiesTypeOK, Shape, SignedInAsOwn, NEW r \in Reqs, Request(r)
    PROVE  Shape' /\ SignedInAsOwn'
<1>0. req[r] \in Req /\ FitReq(req[r])
  BY DEF IdentitiesTypeOK, Shape
<1>a. \A t \in Tickets : ticket[t].state = "open" => ticket[t].who \in Identities
  BY DEF Shape
<1>1. ASSUME NEW n \in Nonces, NEW i \in Identities, OIDCCallback(r, n, i)
      PROVE  Shape' /\ SignedInAsOwn'
  <2>1. /\ req'[r].pc = "resolve" /\ req'[r].by = n /\ req'[r].who = i
        /\ \A s \in Reqs \ {r} : req'[s] = req[s]
    BY <1>1 DEF OIDCCallback, IdentitiesTypeOK, NoReq
  <2>2. FitReq(req[r])' /\ OwnReq(req[r])'
    BY <2>1, IdentitiesAssumption DEF FitReq, OwnReq
  <2> QED
    BY <1>1, <2>1, <2>2, ShapeRead DEF OIDCCallback
<1>2. CASE ResolveIdentity(r)
  <2>1. CASE FindByOAuth2(req[r].who) # {}
    <3>1. \A t \in Tickets : ticket'[t].state = "open" => ticket'[t].who \in Identities
      BY <1>0, <1>2, <1>a, <2>1 DEF ResolveIdentity, FitReq, IdentitiesTypeOK
    <3> QED
      BY <1>2, <2>1, <3>1, ShapeDone, OwnKeptAcct DEF ResolveIdentity
  <2>2. CASE FindByOAuth2(req[r].who) = {}
    <3>1. Go(r, "count") /\ req[r].pc # "idle" /\ req[r].by # NoTicket
      BY <1>0, <1>2, <2>2 DEF ResolveIdentity, FitReq
    <3> QED
      BY <1>2, <2>2, <3>1, ShapeGo DEF ResolveIdentity
  <2> QED
    BY <2>1, <2>2
<1>3. CASE ProviderFails(r)
  BY <1>3, <1>a, ShapeDone, OwnKeptAcct DEF ProviderFails, Answer
<1>4. CASE CountUsers(r)
  <2>1. /\ req'[r].pc = "insert" /\ req'[r].by = req[r].by /\ req'[r].who = req[r].who
        /\ \A s \in Reqs \ {r} : req'[s] = req[s]
    BY <1>0, <1>4 DEF CountUsers, IdentitiesTypeOK, Req
  <2>2. FitReq(req[r])' /\ OwnReq(req[r])'
    BY <1>0, <1>4, <2>1 DEF CountUsers, FitReq, OwnReq
  <2> QED
    BY <1>4, <2>1, <2>2, ShapeRead DEF CountUsers
<1>5. CASE InsertUser(r)
  <2>1. CASE EmailTaken(req[r].who)
    BY <1>5, <1>a, <2>1, ShapeDone, OwnKeptAcct DEF InsertUser
  <2>2. CASE ~EmailTaken(req[r].who)
    <3> DEFINE x == [state |-> "live", who |-> req[r].who,
                     mail |-> IF req[r].who \in Addressed THEN req[r].who ELSE Nobody,
                     admin |-> req[r].admin, needs |-> TRUE]
    <3>1. Unused \in SUBSET Nat /\ Unused # {} /\ Unused \subseteq AccountIds
      BY <1>5, <2>2, IdentitiesAssumption DEF InsertUser, Unused
    <3>2. PICK a \in Unused : a = Min(Unused)
      BY <3>1, MinIn
    <3>3. a \in AccountIds /\ acct[a].state = "none"
      BY <3>1, <3>2 DEF Unused
    <3>4. acct' = [acct EXCEPT ![a] = x]
      BY <1>5, <2>2, <3>2 DEF InsertUser
    <3>5. /\ req'[r].pc = "session" /\ req'[r].by = req[r].by /\ req'[r].who = req[r].who
          /\ req'[r].id = a /\ req'[r].needs = TRUE
          /\ \A s \in Reqs \ {r} : req'[s] = req[s]
      BY <1>0, <1>5, <2>2, <3>2 DEF InsertUser, IdentitiesTypeOK, Req
    <3>6. acct'[a] = x
      BY <3>3, <3>4 DEF IdentitiesTypeOK
    <3>7. FitReq(req[r])'
      BY <1>0, <1>5, <3>3, <3>5, <3>6 DEF InsertUser, FitReq
    <3>8. OwnReq(req[r])'
      BY <3>5, <3>6 DEF OwnReq
    <3>9. UNCHANGED <<ledger, ticket>>
      BY <1>5 DEF InsertUser
    <3>10. NoneKept /\ OwnKept
      <4>1. x.state # "none" /\ x \in Account
        BY <1>0 DEF Account, Req, State
      <4> HIDE DEF x
      <4> QED
        BY <3>3, <3>4, <3>9, <4>1, OwnKeptRow
    <3> QED
      BY <1>a, <3>5, <3>7, <3>8, <3>9, <3>10, ShapeKept
  <2> QED
    BY <2>1, <2>2
<1>6. CASE CreateSession(r)
  <2>1. UNCHANGED <<acct, ticket, ledger.rebound>>
    BY <1>6 DEF CreateSession, IdentitiesTypeOK, Ledger
  <2>2. NoneKept /\ OwnKept
    BY <2>1 DEF NoneKept, OwnKept, OwnReq, Row
  <2> QED
    BY <1>6, <1>a, <2>1, <2>2, ShapeDone DEF CreateSession
<1>7. ASSUME NEW t \in Tickets, OIDCPickCreate(r, t) \/ \E a \in AccountIds : OIDCPickSelect(r, t, a)
      PROVE  Shape' /\ SignedInAsOwn'
  <2>1. /\ ConsumeOAuth2Pick(t) /\ UNCHANGED <<acct, ledger>>
        /\ ticket[t].who \in Identities
    BY <1>7, <1>a DEF OIDCPickCreate, OIDCPickSelect
  <2>2. \A u \in Tickets : ticket'[u].state = "open" => ticket'[u].who \in Identities
    BY <1>a, <2>1 DEF ConsumeOAuth2Pick, IdentitiesTypeOK
  <2>3. /\ req'[r].who = ticket[t].who /\ req'[r].by = t
        /\ \A s \in Reqs \ {r} : req'[s] = req[s]
        /\ req'[r].pc \in {"quota", "load"}
        /\ req'[r].pc = "load" => req'[r].id \in AccountIds
    <3>1. ASSUME NEW q, req' = [req EXCEPT ![r] = q]
          PROVE  req'[r] = q /\ \A s \in Reqs \ {r} : req'[s] = req[s]
      BY <3>1 DEF IdentitiesTypeOK
    <3>2. CASE OIDCPickCreate(r, t)
      BY <3>1, <3>2 DEF OIDCPickCreate, NoReq
    <3>3. ASSUME NEW a \in AccountIds, OIDCPickSelect(r, t, a)
          PROVE  /\ req'[r].who = ticket[t].who /\ req'[r].by = t
                 /\ \A s \in Reqs \ {r} : req'[s] = req[s]
                 /\ req'[r].pc = "load" /\ req'[r].id \in AccountIds
      BY <3>1, <3>3 DEF OIDCPickSelect, NoReq
    <3> QED
      BY <1>7, <3>2, <3>3
  <2>4. t # NoTicket
    BY IdentitiesAssumption
  <2>5. FitReq(req[r])' /\ OwnReq(req[r])'
    BY <2>1, <2>3, <2>4 DEF FitReq, OwnReq
  <2> QED
    BY <2>1, <2>2, <2>3, <2>5, ShapeKept, OwnKeptAcct
<1>8. CASE LoadPicked(r)
  <2>1. CASE ~Selectable(req[r].id, req[r].who)
    BY <1>8, <1>a, <2>1, ShapeDone, OwnKeptAcct DEF LoadPicked
  <2>2. CASE Selectable(req[r].id, req[r].who)
    <3>1. PICK q \in Req : q = req[r]
      BY <1>0
    <3>2. q.id \in AccountIds /\ Live(q.id) /\ acct[q.id].who = q.who /\ q.by # NoTicket /\ q.who \in Identities
      BY <1>0, <1>8, <2>2, <3>1 DEF LoadPicked, FitReq, Selectable
    <3>3. /\ req'[r].pc = "session" /\ req'[r].by = q.by /\ req'[r].who = q.who
          /\ req'[r].id = q.id /\ req'[r].needs = acct[q.id].needs
          /\ \A s \in Reqs \ {r} : req'[s] = req[s]
      BY <1>8, <2>2, <3>1 DEF LoadPicked, IdentitiesTypeOK, Req
    <3>4. acct' = acct /\ acct[q.id].needs \in BOOLEAN
      BY <1>8, <3>2 DEF LoadPicked, IdentitiesTypeOK, Account
    <3>5. FitReq(req[r])'
      BY <3>2, <3>3, <3>4 DEF FitReq, Live
    <3>6. OwnReq(req[r])'
      BY <3>2, <3>3, <3>4 DEF OwnReq
    <3> QED
      BY <1>8, <3>3, <3>5, <3>6, ShapeRead DEF LoadPicked
  <2> QED
    BY <2>1, <2>2
<1>9. CASE CheckQuota(r)
  <2>1. CASE QuotaExceeded(req[r].who)
    BY <1>9, <1>a, <2>1, ShapeDone, OwnKeptAcct DEF CheckQuota
  <2>2. CASE ~QuotaExceeded(req[r].who) /\ req[r].by = NoTicket
    <3>1. Go(r, "write") /\ req[r].pc # "idle" /\ req[r].id \in AccountIds
      BY <1>0, <1>9, <2>2 DEF CheckQuota, FitReq
    <3> QED
      BY <1>9, <2>2, <3>1, ShapeGo DEF CheckQuota
  <2>3. CASE ~QuotaExceeded(req[r].who) /\ req[r].by # NoTicket
    <3>1. Go(r, "count") /\ req[r].pc # "idle"
      BY <1>9, <2>3 DEF CheckQuota
    <3> QED
      BY <1>9, <2>3, <3>1, ShapeGo DEF CheckQuota
  <2> QED
    BY <2>1, <2>2, <2>3
<1>10. ASSUME NEW a \in AccountIds, NEW i \in Identities, OIDCBind(r, a, i)
       PROVE  Shape' /\ SignedInAsOwn'
  <2>1. /\ req'[r].pc = "load" /\ req'[r].by = NoTicket /\ req'[r].who = i /\ req'[r].id = a
        /\ \A s \in Reqs \ {r} : req'[s] = req[s]
    BY <1>10 DEF OIDCBind, IdentitiesTypeOK, NoReq
  <2>2. FitReq(req[r])' /\ OwnReq(req[r])'
    BY <2>1 DEF FitReq, OwnReq
  <2> QED
    BY <1>10, <2>1, <2>2, ShapeRead DEF OIDCBind
<1>11. CASE LoadBound(r)
  <2>1. CASE Row(req[r].id) /\ Unbound(req[r].id)
    <3>1. Go(r, "quota") /\ req[r].pc # "idle" /\ req[r].id \in AccountIds
      BY <1>0, <1>11, <2>1 DEF LoadBound, FitReq
    <3> QED
      BY <1>11, <3>1, ShapeGo DEF LoadBound
  <2>2. CASE ~(Row(req[r].id) /\ Unbound(req[r].id))
    BY <1>11, <1>a, <2>2, ShapeDone, OwnKeptAcct DEF LoadBound
  <2> QED
    BY <2>1, <2>2
<1>12. CASE BindOAuth(r)
  <2>1. Done(r) /\ UNCHANGED ticket
    BY <1>12 DEF BindOAuth
  <2>2. CASE ~Row(req[r].id)
    <3>1. UNCHANGED <<acct, ledger>>
      BY <1>12, <2>2 DEF BindOAuth
    <3> QED
      BY <1>a, <2>1, <3>1, ShapeDone, OwnKeptAcct
  <2>3. CASE Row(req[r].id)
    <3>1. PICK a \in AccountIds, i \in Identities : a = req[r].id /\ i = req[r].who
      BY <1>0, <1>12 DEF BindOAuth, FitReq
    <3>2. PICK x \in Account : x = [acct[a] EXCEPT !.who = i]
      <4>1. [acct[a] EXCEPT !.who = i] \in Account
        BY DEF IdentitiesTypeOK, Account
      <4> QED
        BY <4>1
    <3>3. /\ x.state = acct[a].state /\ x.needs = acct[a].needs
      BY <3>2 DEF IdentitiesTypeOK, Account
    <3>4. acct' = [acct EXCEPT ![a] = x]
      BY <1>12, <2>3, <3>1, <3>2 DEF BindOAuth
    <3>5. /\ ledger.rebound \subseteq ledger'.rebound
          /\ acct[a].who = Nobody \/ a \in ledger'.rebound
      BY <1>12, <2>3, <3>1 DEF BindOAuth, Unbound, IdentitiesTypeOK, Ledger
    <3>6. Row(a) /\ x.state # "none"
      BY <2>3, <3>1, <3>3 DEF Row
    <3>7. NoneKept /\ OwnKept
      BY <3>3, <3>4, <3>5, <3>6, OwnKeptRow
    <3> QED
      BY <1>a, <2>1, <3>7, ShapeDone
  <2> QED
    BY <2>2, <2>3
<1> QED
  BY <1>1, <1>2, <1>3, <1>4, <1>5, <1>6, <1>7, <1>8, <1>9, <1>10, <1>11, <1>12 DEF Request

LEMMA ShapeStep ==
    ASSUME IdentitiesTypeOK, Shape, SignedInAsOwn, [IdentitiesNext]_identitiesVars
    PROVE  Shape' /\ SignedInAsOwn'
<1>a. \A t \in Tickets : ticket[t].state = "open" => ticket[t].who \in Identities
  BY DEF Shape
<1>k. ASSUME UNCHANGED req, NoneKept, OwnKept,
             \A t \in Tickets : ticket'[t].state = "open" => ticket'[t].who \in Identities
      PROVE  Shape' /\ SignedInAsOwn'
  <2>1. CASE Reqs = {}
    BY <1>k, <2>1 DEF Shape, SignedInAsOwn
  <2>2. ASSUME NEW r \in Reqs PROVE Shape' /\ SignedInAsOwn'
    <3>1. PICK q \in Req : q = req[r] /\ q = req'[r]
      BY <1>k DEF IdentitiesTypeOK
    <3>2. FitReq(q) /\ OwnReq(q)
      BY <3>1, OwnIsSignedIn DEF Shape
    <3>3. FitReq(q)'
      BY <1>k, <3>2 DEF FitReq, NoneKept
    <3>4. OwnReq(q)'
      BY <1>k, <3>2 DEF OwnKept
    <3>5. FitReq(req[r])'
      BY <3>1, <3>3 DEF FitReq
    <3>6. OwnReq(req[r])'
      BY <3>1, <3>4 DEF OwnReq, Row
    <3> QED
      BY <1>k, <3>5, <3>6, ShapeKept
  <2> QED
    BY <2>1, <2>2
<1>1. ASSUME NEW n \in Nonces, OIDCLogin(n) PROVE Shape' /\ SignedInAsOwn'
  BY <1>1, <1>a, <1>k, OwnKeptAcct DEF OIDCLogin
<1>2. CASE PurgeExpired
  <2>1. \A t \in Tickets : ticket'[t].state = "open" => ticket'[t].who \in Identities
    BY <1>2, <1>a DEF PurgeExpired, ConsumeOAuth2Pick, IdentitiesTypeOK
  <2> QED
    BY <1>2, <1>k, <2>1, OwnKeptAcct DEF PurgeExpired
<1>3. ASSUME NEW r \in Reqs, Request(r) PROVE Shape' /\ SignedInAsOwn'
  BY <1>3, ShapeRequest
<1>4. ASSUME NEW a \in AccountIds, Register(a) \/ RequestAccountDeletion(a) \/ CancelAccountDeletion(a)
      PROVE  Shape' /\ SignedInAsOwn'
  <2>0. acct[a] \in Account
    BY DEF IdentitiesTypeOK
  <2>1. PICK x \in Account : /\ acct' = [acct EXCEPT ![a] = x] /\ x.state # "none"
                             /\ x.who = acct[a].who /\ (x.needs = FALSE \/ x.needs = acct[a].needs)
    <3>1. CASE Register(a)
      <4>1. PICK x \in Account : x = [acct[a] EXCEPT !.needs = FALSE]
        BY <2>0 DEF Account
      <4>2. acct' = [acct EXCEPT ![a] = x]
        BY <3>1, <4>1 DEF Register
      <4>3. x.state # "none" /\ x.who = acct[a].who /\ x.needs = FALSE
        BY <2>0, <3>1, <4>1 DEF Register, Row, Account
      <4> QED
        BY <4>2, <4>3
    <3>2. CASE RequestAccountDeletion(a)
      <4>1. PICK x \in Account : x = [acct[a] EXCEPT !.state = "deleted"]
        BY <2>0 DEF Account, State
      <4>2. acct' = [acct EXCEPT ![a] = x]
        BY <3>2, <4>1 DEF RequestAccountDeletion
      <4>3. x.state # "none" /\ x.who = acct[a].who /\ x.needs = acct[a].needs
        BY <2>0, <4>1 DEF Account
      <4> QED
        BY <4>2, <4>3
    <3>3. CASE CancelAccountDeletion(a)
      <4>1. PICK x \in Account : x = [acct[a] EXCEPT !.state = "back"]
        BY <2>0 DEF Account, State
      <4>2. acct' = [acct EXCEPT ![a] = x]
        BY <3>3, <4>1 DEF CancelAccountDeletion
      <4>3. x.state # "none" /\ x.who = acct[a].who /\ x.needs = acct[a].needs
        BY <2>0, <4>1 DEF Account
      <4> QED
        BY <4>2, <4>3
    <3> QED
      BY <1>4, <3>1, <3>2, <3>3
  <2>2. Row(a) /\ UNCHANGED <<ticket, req, ledger>>
    BY <1>4 DEF Register, RequestAccountDeletion, CancelAccountDeletion, Row, Live
  <2>3. NoneKept /\ OwnKept
    BY <2>1, <2>2, OwnKeptRow
  <2> QED
    BY <1>a, <1>k, <2>2, <2>3
<1>5. ASSUME NEW a \in AccountIds, PurgeUserData(a) PROVE Shape' /\ SignedInAsOwn'
  <2>1. PICK x \in Account : acct' = [acct EXCEPT ![a] = x] /\ x.state = "gone"
    <3>1. PICK x \in Account : x = [NoAccount EXCEPT !.state = "gone"]
      BY DEF NoAccount, Account, State
    <3>2. x.state = "gone"
      BY <3>1 DEF NoAccount
    <3> QED
      BY <1>5, <3>1, <3>2 DEF PurgeUserData
  <2>2. UNCHANGED <<ticket, req, ledger.rebound>>
    BY <1>5 DEF PurgeUserData, IdentitiesTypeOK, Ledger
  <2>3. NoneKept /\ OwnKept
    BY <2>1, <2>2, OwnKeptRow
  <2> QED
    BY <1>a, <1>k, <2>2, <2>3
<1>6. CASE ListPurgeableUsers
  BY <1>6, <1>a, <1>k, OwnKeptAcct DEF ListPurgeableUsers
<1>7. CASE UNCHANGED identitiesVars
  BY <1>7, <1>a, <1>k, OwnKeptAcct DEF identitiesVars
<1> QED
  BY <1>1, <1>2, <1>3, <1>4, <1>5, <1>6, <1>7 DEF IdentitiesNext
-----------------------------------------------------------------------------
(* QuotaBounded.  The accounts of an identity that never were deleted, and  *)
(* the requests that are about to add one.                                  *)
Held(i) == {a \in FindByOAuth2(i) : acct[a].state = "live"}

LEMMA QuotaFinite ==
    ASSUME NEW i
    PROVE  /\ IsFiniteSet(Held(i)) /\ IsFiniteSet(Entering(i))
           /\ Cardinality(Held(i)) \in Nat /\ Cardinality(Entering(i)) \in Nat
           /\ Cardinality(Entering(i)) <= Cardinality(Reqs) /\ Cardinality(Reqs) \in Nat
           /\ IsFiniteSet(Held(i)') /\ IsFiniteSet(Entering(i)')
           /\ Cardinality(Held(i)') \in Nat /\ Cardinality(Entering(i)') \in Nat
           /\ Cardinality(Entering(i)') <= Cardinality(Reqs)
<1>1. /\ Held(i) \in SUBSET AccountIds /\ Entering(i) \in SUBSET Reqs
      /\ Held(i)' \in SUBSET AccountIds /\ Entering(i)' \in SUBSET Reqs
  BY DEF Held, Entering, FindByOAuth2
<1>2. IsFiniteSet(AccountIds) /\ IsFiniteSet(Reqs)
  BY IdentitiesAssumption
<1> QED
  BY <1>1, <1>2, FS_Subset, FS_CardinalityType

LEMMA QuotaShrinks ==
    ASSUME QuotaBounded, NEW i \in Identities,
           Held(i)' \subseteq Held(i), Entering(i)' \subseteq Entering(i)
    PROVE  Cardinality(Held(i)') + Cardinality(Entering(i)') <= MaxAccounts + Cardinality(Reqs) - 1
<1>1. /\ Cardinality(Held(i)') <= Cardinality(Held(i))
      /\ Cardinality(Entering(i)') <= Cardinality(Entering(i))
  BY QuotaFinite, FS_Subset
<1>2. Cardinality(Held(i)) + Cardinality(Entering(i)) <= MaxAccounts + Cardinality(Reqs) - 1
  BY DEF QuotaBounded, Held
<1> QED
  BY <1>1, <1>2, QuotaFinite, IdentitiesAssumption

(* One that enters has seen a free place.                                   *)
LEMMA QuotaSeen ==
    ASSUME NEW i \in Identities, UNCHANGED acct, Cardinality(FindByOAuth2(i)) < MaxAccounts
    PROVE  Cardinality(Held(i)') + Cardinality(Entering(i)') <= MaxAccounts + Cardinality(Reqs) - 1
<1>1. Held(i)' = Held(i)
  BY DEF Held, FindByOAuth2, Live
<1>2. /\ FindByOAuth2(i) \in SUBSET AccountIds /\ Held(i) \in SUBSET FindByOAuth2(i)
      /\ IsFiniteSet(AccountIds)
  BY IdentitiesAssumption DEF Held, FindByOAuth2
<1>3. IsFiniteSet(FindByOAuth2(i)) /\ Cardinality(FindByOAuth2(i)) \in Nat
  BY <1>2, FS_Subset, FS_CardinalityType
<1>4. Cardinality(Held(i)) <= Cardinality(FindByOAuth2(i))
  BY <1>2, <1>3, FS_Subset
<1> QED
  BY <1>1, <1>3, <1>4, QuotaFinite, IdentitiesAssumption

(* One that adds an account is no longer about to.                          *)
LEMMA QuotaMoves ==
    ASSUME QuotaBounded, NEW i \in Identities, NEW a, NEW r \in Entering(i),
           Held(i)' \subseteq Held(i) \cup {a}, Entering(i)' \subseteq Entering(i) \ {r}
    PROVE  Cardinality(Held(i)') + Cardinality(Entering(i)') <= MaxAccounts + Cardinality(Reqs) - 1
<1>1. Cardinality(Held(i) \cup {a}) <= Cardinality(Held(i)) + 1 /\ IsFiniteSet(Held(i) \cup {a})
  <2>1. IsFiniteSet(Held(i)) /\ Cardinality(Held(i)) \in Nat
    BY QuotaFinite
  <2> QED
    BY <2>1, FS_AddElement
<1>2. Cardinality(Entering(i) \ {r}) = Cardinality(Entering(i)) - 1 /\ IsFiniteSet(Entering(i) \ {r})
  BY QuotaFinite, FS_RemoveElement
<1>3. Cardinality(Held(i)') <= Cardinality(Held(i) \cup {a})
  BY <1>1, FS_Subset
<1>4. Cardinality(Entering(i)') <= Cardinality(Entering(i) \ {r})
  BY <1>2, FS_Subset
<1>5. Cardinality(Held(i)) + Cardinality(Entering(i)) <= MaxAccounts + Cardinality(Reqs) - 1
  BY DEF QuotaBounded, Held
<1>6. Cardinality(Held(i) \cup {a}) \in Nat
  BY <1>1, FS_CardinalityType
<1> QED
  BY <1>1, <1>2, <1>3, <1>4, <1>5, <1>6, QuotaFinite, IdentitiesAssumption

LEMMA QuotaRequest ==
    ASSUME IdentitiesTypeOK, Shape, QuotaBounded, NEW r \in Reqs, Request(r), NEW i \in Identities
    PROVE  Cardinality(Held(i)') + Cardinality(Entering(i)') <= MaxAccounts + Cardinality(Reqs) - 1
<1>0. req[r] \in Req /\ FitReq(req[r])
  BY DEF IdentitiesTypeOK, Shape
<1>a. ASSUME UNCHANGED acct PROVE Held(i)' \subseteq Held(i)
  BY <1>a DEF Held, FindByOAuth2, Live
<1>b. ASSUME \A s \in Reqs \ {r} : req'[s] = req[s],
             req'[r].pc \in {"count", "insert", "write"} =>
                 /\ req[r].pc \in {"count", "insert", "write"}
                 /\ req'[r].who = req[r].who
      PROVE  Entering(i)' \subseteq Entering(i)
  BY <1>b DEF Entering
<1>c. ASSUME Done(r) PROVE Entering(i)' \subseteq Entering(i)
  BY <1>c, <1>b DEF Done, IdentitiesTypeOK, NoReq
<1>d. ASSUME NEW p \in Pc, Go(r, p), req[r].who # i PROVE Entering(i)' \subseteq Entering(i)
  BY <1>d, <1>0 DEF Go, IdentitiesTypeOK, Entering, Req
<1>1. ASSUME NEW n \in Nonces, NEW j \in Identities, OIDCCallback(r, n, j)
      PROVE  Held(i)' \subseteq Held(i) /\ Entering(i)' \subseteq Entering(i)
  BY <1>1, <1>a, <1>b DEF OIDCCallback, IdentitiesTypeOK, NoReq
<1>2. CASE ResolveIdentity(r)
  <2>1. CASE FindByOAuth2(req[r].who) # {}
    BY <1>2, <1>a, <1>c, <2>1, QuotaShrinks DEF ResolveIdentity
  <2>2. CASE FindByOAuth2(req[r].who) = {} /\ req[r].who # i
    BY <1>2, <1>a, <1>d, <2>2, QuotaShrinks DEF ResolveIdentity, Pc
  <2>3. CASE FindByOAuth2(i) = {}
    <3>1. Cardinality(FindByOAuth2(i)) < MaxAccounts
      BY <2>3, FS_EmptySet, IdentitiesAssumption
    <3> QED
      BY <1>2, <3>1, QuotaSeen DEF ResolveIdentity
  <2> QED
    BY <2>1, <2>2, <2>3
<1>3. CASE ProviderFails(r)
  BY <1>3, <1>a, <1>c, QuotaShrinks DEF ProviderFails, Answer
<1>4. CASE CountUsers(r)
  <2>1. Entering(i)' \subseteq Entering(i)
    BY <1>0, <1>4, <1>b DEF CountUsers, IdentitiesTypeOK, Req
  <2> QED
    BY <1>4, <1>a, <2>1, QuotaShrinks DEF CountUsers
<1>5. CASE InsertUser(r)
  <2>1. CASE EmailTaken(req[r].who)
    BY <1>5, <1>a, <1>c, <2>1, QuotaShrinks DEF InsertUser
  <2>2. CASE ~EmailTaken(req[r].who)
    <3>1. PICK a : a = Min(Unused)
      OBVIOUS
    <3>2. \A b \in AccountIds \ {a} : acct'[b] = acct[b]
      BY <1>5, <2>2, <3>1 DEF InsertUser, IdentitiesTypeOK
    <3>3. a \in AccountIds => acct'[a].who = req[r].who
      BY <1>5, <2>2, <3>1 DEF InsertUser, IdentitiesTypeOK
    <3>4. req'[r].pc = "session" /\ \A s \in Reqs \ {r} : req'[s] = req[s]
      BY <1>0, <1>5, <2>2 DEF InsertUser, IdentitiesTypeOK, Req
    <3>5. CASE req[r].who # i
      <4>1. Held(i)' \subseteq Held(i)
        BY <3>2, <3>3, <3>5 DEF Held, FindByOAuth2, Live
      <4> QED
        BY <1>b, <3>4, <4>1, QuotaShrinks
    <3>6. CASE req[r].who = i
      <4>1. Held(i)' \subseteq Held(i) \cup {a}
        BY <3>2 DEF Held, FindByOAuth2, Live
      <4>2. r \in Entering(i)
        BY <1>5, <3>6 DEF InsertUser, Entering
      <4>3. Entering(i)' \subseteq Entering(i) \ {r}
        BY <3>4 DEF Entering
      <4> QED
        BY <4>1, <4>2, <4>3, QuotaMoves
    <3> QED
      BY <3>5, <3>6
  <2> QED
    BY <2>1, <2>2
<1>6. CASE CreateSession(r)
  BY <1>6, <1>a, <1>c, QuotaShrinks DEF CreateSession
<1>7. ASSUME NEW t \in Tickets, OIDCPickCreate(r, t) \/ \E a \in AccountIds : OIDCPickSelect(r, t, a)
      PROVE  Held(i)' \subseteq Held(i) /\ Entering(i)' \subseteq Entering(i)
  <2>1. CASE OIDCPickCreate(r, t)
    BY <1>a, <1>b, <2>1 DEF OIDCPickCreate, IdentitiesTypeOK, NoReq
  <2>2. ASSUME NEW a \in AccountIds, OIDCPickSelect(r, t, a)
        PROVE  Held(i)' \subseteq Held(i) /\ Entering(i)' \subseteq Entering(i)
    BY <1>a, <1>b, <2>2 DEF OIDCPickSelect, IdentitiesTypeOK, NoReq
  <2> QED
    BY <1>7, <2>1, <2>2
<1>8. CASE LoadPicked(r)
  <2>1. CASE ~Selectable(req[r].id, req[r].who)
    BY <1>8, <1>a, <1>c, <2>1, QuotaShrinks DEF LoadPicked
  <2>2. CASE Selectable(req[r].id, req[r].who)
    <3>1. req'[r].pc = "session" /\ \A s \in Reqs \ {r} : req'[s] = req[s]
      BY <1>0, <1>8, <2>2 DEF LoadPicked, IdentitiesTypeOK, Req
    <3> QED
      BY <1>8, <1>a, <1>b, <3>1, QuotaShrinks DEF LoadPicked
  <2> QED
    BY <2>1, <2>2
<1>9. CASE CheckQuota(r)
  <2>1. CASE QuotaExceeded(req[r].who)
    BY <1>9, <1>a, <1>c, <2>1, QuotaShrinks DEF CheckQuota
  <2>2. CASE ~QuotaExceeded(req[r].who) /\ req[r].who # i
    BY <1>9, <1>a, <1>d, <2>2, QuotaShrinks DEF CheckQuota, Pc
  <2>3. CASE ~QuotaExceeded(i)
    <3>1. FindByOAuth2(i) \in SUBSET AccountIds /\ IsFiniteSet(AccountIds)
      BY IdentitiesAssumption DEF FindByOAuth2
    <3>2. Cardinality(FindByOAuth2(i)) \in Nat
      BY <3>1, FS_Subset, FS_CardinalityType
    <3>3. Cardinality(FindByOAuth2(i)) < MaxAccounts
      BY <2>3, <3>2, IdentitiesAssumption DEF QuotaExceeded
    <3> QED
      BY <1>9, <3>3, QuotaSeen DEF CheckQuota
  <2> QED
    BY <2>1, <2>2, <2>3
<1>10. ASSUME NEW a \in AccountIds, NEW j \in Identities, OIDCBind(r, a, j)
       PROVE  Held(i)' \subseteq Held(i) /\ Entering(i)' \subseteq Entering(i)
  BY <1>10, <1>a, <1>b DEF OIDCBind, IdentitiesTypeOK, NoReq
<1>11. CASE LoadBound(r)
  <2>1. CASE Row(req[r].id) /\ Unbound(req[r].id)
    <3>1. req'[r].pc = "quota" /\ \A s \in Reqs \ {r} : req'[s] = req[s]
      BY <1>0, <1>11, <2>1 DEF LoadBound, Go, IdentitiesTypeOK, Req
    <3> QED
      BY <1>11, <1>a, <1>b, <3>1, QuotaShrinks DEF LoadBound
  <2>2. CASE ~(Row(req[r].id) /\ Unbound(req[r].id))
    BY <1>11, <1>a, <1>c, <2>2, QuotaShrinks DEF LoadBound
  <2> QED
    BY <2>1, <2>2
<1>12. CASE BindOAuth(r)
  <2>1. CASE ~Row(req[r].id)
    BY <1>12, <1>a, <1>c, <2>1, QuotaShrinks DEF BindOAuth
  <2>2. CASE Row(req[r].id)
    <3>1. PICK a \in AccountIds, j \in Identities : a = req[r].id /\ j = req[r].who
      BY <1>0, <1>12 DEF BindOAuth, FitReq
    <3>2. acct[a] \in Account /\ acct' = [acct EXCEPT ![a].who = j]
      BY <1>12, <2>2, <3>1 DEF BindOAuth, IdentitiesTypeOK
    <3>3. acct'[a].who = j /\ \A b \in AccountIds \ {a} : acct'[b] = acct[b]
      BY <3>2 DEF IdentitiesTypeOK, Account
    <3>4. CASE j # i
      <4>1. Held(i)' \subseteq Held(i)
        BY <3>3, <3>4 DEF Held, FindByOAuth2, Live
      <4> QED
        BY <1>12, <1>c, <4>1, QuotaShrinks DEF BindOAuth
    <3>5. CASE j = i
      <4>1. Held(i)' \subseteq Held(i) \cup {a}
        BY <3>3 DEF Held, FindByOAuth2, Live
      <4>2. r \in Entering(i)
        BY <1>12, <3>1, <3>5 DEF BindOAuth, Entering
      <4>3. Entering(i)' \subseteq Entering(i) \ {r}
        BY <1>12 DEF BindOAuth, Done, Entering, IdentitiesTypeOK, NoReq
      <4> QED
        BY <4>1, <4>2, <4>3, QuotaMoves
    <3> QED
      BY <3>4, <3>5
  <2> QED
    BY <2>1, <2>2
<1> QED
  BY <1>1, <1>2, <1>3, <1>4, <1>5, <1>6, <1>7, <1>8, <1>9, <1>10, <1>11, <1>12, QuotaShrinks
     DEF Request

(* Rows that change outside the requests keep who they are bound to, and    *)
(* no deleted one comes back as if it never was.                            *)
LEMMA QuotaStep == ASSUME IdentitiesTypeOK, Shape, QuotaBounded, [IdentitiesNext]_identitiesVars PROVE QuotaBounded'
<1> SUFFICES ASSUME NEW i \in Identities
             PROVE  Cardinality(Held(i)') + Cardinality(Entering(i)')
                      <= MaxAccounts + Cardinality(Reqs) - 1
  BY DEF QuotaBounded, Held
<1>k. ASSUME UNCHANGED req, Held(i)' \subseteq Held(i)
      PROVE  Cardinality(Held(i)') + Cardinality(Entering(i)') <= MaxAccounts + Cardinality(Reqs) - 1
  BY <1>k, QuotaShrinks DEF Entering
<1>a. ASSUME UNCHANGED acct PROVE Held(i)' \subseteq Held(i)
  BY <1>a DEF Held, FindByOAuth2, Live
<1>1. ASSUME NEW r \in Reqs, Request(r)
      PROVE  Cardinality(Held(i)') + Cardinality(Entering(i)') <= MaxAccounts + Cardinality(Reqs) - 1
  BY <1>1, QuotaRequest
<1>2. ASSUME NEW a \in AccountIds, Register(a) \/ RequestAccountDeletion(a) \/ CancelAccountDeletion(a)
      PROVE  UNCHANGED req /\ Held(i)' \subseteq Held(i)
  <2>1. \A b \in AccountIds : /\ acct'[b].who = acct[b].who
                              /\ acct'[b].state = "live" => acct[b].state = "live"
    BY <1>2 DEF Register, RequestAccountDeletion, CancelAccountDeletion, IdentitiesTypeOK, Account
  <2> QED
    BY <1>2, <2>1 DEF Register, RequestAccountDeletion, CancelAccountDeletion, Held, FindByOAuth2, Live
<1>3. ASSUME NEW a \in AccountIds, PurgeUserData(a)
      PROVE  UNCHANGED req /\ Held(i)' \subseteq Held(i)
  <2>1. \A b \in AccountIds : acct'[b] = acct[b] \/ acct'[b].state = "gone"
    BY <1>3 DEF PurgeUserData, IdentitiesTypeOK, NoAccount
  <2> QED
    BY <1>3, <2>1 DEF PurgeUserData, Held, FindByOAuth2, Live
<1>4. CASE \/ \E n \in Nonces : OIDCLogin(n)
           \/ PurgeExpired \/ ListPurgeableUsers \/ UNCHANGED identitiesVars
  BY <1>4, <1>a, <1>k DEF OIDCLogin, PurgeExpired, ListPurgeableUsers, identitiesVars
<1> QED
  BY <1>1, <1>2, <1>3, <1>4, <1>k DEF IdentitiesNext
-----------------------------------------------------------------------------
(* Administered.  The administrators, and those that an insert is about to  *)
(* make.                                                                    *)
Admins == {a \in Rows : acct[a].admin}

LEMMA AdminsFinite ==
    /\ IsFiniteSet(Admins) /\ IsFiniteSet(Pending) /\ IsFiniteSet(Admins') /\ IsFiniteSet(Pending')
    /\ Cardinality(Admins) \in Nat /\ Cardinality(Pending) \in Nat
    /\ Cardinality(Admins') \in Nat /\ Cardinality(Pending') \in Nat
    /\ Cardinality(Reqs) \in Nat /\ Cardinality(Pending') <= Cardinality(Reqs)
<1>1. /\ Admins \in SUBSET AccountIds /\ Pending \in SUBSET Reqs
      /\ Admins' \in SUBSET AccountIds /\ Pending' \in SUBSET Reqs
  BY DEF Admins, Pending, Rows
<1>2. IsFiniteSet(AccountIds) /\ IsFiniteSet(Reqs)
  BY IdentitiesAssumption
<1> QED
  BY <1>1, <1>2, FS_Subset, FS_CardinalityType

AdminsBounded == Cardinality(Admins) + Cardinality(Pending) <= Cardinality(Reqs)
Governed == ledger.orphaned \/ Admins # {}

LEMMA AdministeredIs ==
    /\ Administered <=> (Rows # {} => Governed) /\ AdminsBounded
    /\ AdminSeen <=> \A r \in Reqs : req[r].pc = "insert" /\ ~req[r].admin => Governed
<1>1. Admins # {} <=> \E a \in Rows : acct[a].admin
  BY DEF Admins
<1>2. Administered <=> (Rows # {} => Governed) /\ AdminsBounded
  BY <1>1 DEF Administered, Governed, AdminsBounded, Admins
<1>3. AdminSeen <=> \A r \in Reqs : req[r].pc = "insert" /\ ~req[r].admin => Governed
  BY <1>1 DEF AdminSeen, Governed
<1> QED
  BY <1>2, <1>3

LEMMA AdminsShrink ==
    ASSUME AdminsBounded, Admins' \subseteq Admins, Pending' \subseteq Pending
    PROVE  AdminsBounded'
<1>1. Cardinality(Admins') <= Cardinality(Admins) /\ Cardinality(Pending') <= Cardinality(Pending)
  BY AdminsFinite, FS_Subset
<1> QED
  BY <1>1, AdminsFinite DEF AdminsBounded

LEMMA AdminsMove ==
    ASSUME AdminsBounded, NEW a, NEW r \in Pending,
           Admins' \subseteq Admins \cup {a}, Pending' \subseteq Pending \ {r}
    PROVE  AdminsBounded'
<1>0. /\ IsFiniteSet(Admins) /\ IsFiniteSet(Pending)
      /\ Cardinality(Admins) \in Nat /\ Cardinality(Pending) \in Nat
  BY AdminsFinite
<1>1. Cardinality(Admins \cup {a}) <= Cardinality(Admins) + 1 /\ IsFiniteSet(Admins \cup {a})
  <2>1. /\ IsFiniteSet(Admins \cup {a})
        /\ Cardinality(Admins \cup {a})
             = IF a \in Admins THEN Cardinality(Admins) ELSE Cardinality(Admins) + 1
    BY <1>0, FS_AddElement
  <2> QED
    BY <1>0, <2>1
<1>2. Cardinality(Pending \ {r}) = Cardinality(Pending) - 1 /\ IsFiniteSet(Pending \ {r})
  BY <1>0, FS_RemoveElement
<1>3. Cardinality(Admins') <= Cardinality(Admins \cup {a})
  BY <1>1, FS_Subset
<1>4. Cardinality(Pending') <= Cardinality(Pending \ {r})
  BY <1>2, FS_Subset
<1>5. Cardinality(Admins \cup {a}) \in Nat
  BY <1>1, FS_CardinalityType
<1> QED
  BY <1>0, <1>1, <1>2, <1>3, <1>4, <1>5, AdminsFinite DEF AdminsBounded

(* A step that leaves the accounts and starts no insert.                    *)
LEMMA AdminKept ==
    ASSUME IdentitiesTypeOK, Administered, AdminSeen, UNCHANGED <<acct, ledger.orphaned>>,
           \A s \in Reqs : req'[s] = req[s] \/ req'[s].pc # "insert"
    PROVE  Administered' /\ AdminSeen'
<1>1. /\ Admins' = Admins /\ Rows' = Rows /\ (Governed' <=> Governed)
  BY DEF Admins, Rows, Row, Governed
<1>2. Pending' \subseteq Pending
  BY DEF Pending
<1>3. AdminsBounded'
  BY <1>1, <1>2, AdminsShrink, AdministeredIs
<1>4. Administered'
  BY <1>1, <1>3, AdministeredIs DEF Administered, AdminsBounded, Admins, Governed
<1>5. AdminSeen'
  BY <1>1, AdministeredIs DEF AdminSeen, Admins, Governed
<1> QED
  BY <1>4, <1>5

LEMMA AdminDone ==
    ASSUME IdentitiesTypeOK, Administered, AdminSeen, UNCHANGED <<acct, ledger.orphaned>>, NEW r \in Reqs,
           req'[r].pc # "insert", \A s \in Reqs \ {r} : req'[s] = req[s]
    PROVE  Administered' /\ AdminSeen'
BY AdminKept

LEMMA AdminCounts ==
    ASSUME IdentitiesTypeOK, Administered, AdminSeen, NEW r \in Reqs, CountUsers(r)
    PROVE  Administered' /\ AdminSeen'
<1>0. req[r] \in Req
  BY DEF IdentitiesTypeOK
<1>1. /\ Admins' = Admins /\ Rows' = Rows /\ (Governed' <=> Governed)
  BY DEF Admins, Rows, Row, Governed, CountUsers
<1>2. PICK b \in BOOLEAN : b = RoleIsAdmin
  BY DEF RoleIsAdmin
<1>3. /\ req'[r].pc = "insert" /\ req'[r].admin = b /\ \A s \in Reqs \ {r} : req'[s] = req[s]
  BY <1>0, <1>2 DEF CountUsers, IdentitiesTypeOK, Req
<1>4. CASE Rows = {}
  <2>1. Admins' = {}
    BY <1>1, <1>4 DEF Admins
  <2>2. AdminsBounded'
    <3>1. Cardinality(Admins') = 0
      BY <2>1, FS_EmptySet
    <3> QED
      BY <3>1, AdminsFinite DEF AdminsBounded
  <2>3. req'[r].admin
    BY <1>2, <1>3, <1>4 DEF RoleIsAdmin
  <2>4. Administered'
    BY <1>1, <1>4, <2>2 DEF Administered, AdminsBounded, Admins
  <2>5. AdminSeen'
    BY <1>1, <1>3, <2>3, AdministeredIs DEF AdminSeen, Admins, Governed
  <2> QED
    BY <2>4, <2>5
<1>5. CASE Rows # {}
  <2>1. Governed /\ AdminsBounded
    BY <1>5, AdministeredIs
  <2>2. ~req'[r].admin
    BY <1>2, <1>3, <1>5 DEF RoleIsAdmin
  <2>3. Pending' \subseteq Pending
    BY <1>3, <2>2 DEF Pending
  <2>4. AdminsBounded'
    BY <1>1, <2>1, <2>3, AdminsShrink
  <2>5. Administered'
    BY <1>1, <2>1, <2>4 DEF Administered, AdminsBounded, Admins, Governed
  <2>6. AdminSeen'
    BY <1>1, <2>1 DEF AdminSeen, Admins, Governed
  <2> QED
    BY <2>5, <2>6
<1> QED
  BY <1>4, <1>5

LEMMA AdminInserts ==
    ASSUME IdentitiesTypeOK, Administered, AdminSeen, NEW r \in Reqs, InsertUser(r), ~EmailTaken(req[r].who)
    PROVE  Administered' /\ AdminSeen'
<1>0. PICK q \in Req : q = req[r]
  BY DEF IdentitiesTypeOK
<1>a. Unused \in SUBSET Nat /\ Unused # {} /\ Unused \subseteq AccountIds
  BY IdentitiesAssumption DEF InsertUser, Unused
<1>b. PICK a \in Unused : a = Min(Unused)
  BY <1>a, MinIn
<1>c. a \in AccountIds /\ acct[a].state = "none" /\ a \notin Rows
  BY <1>a, <1>b DEF Unused, Rows, Row
<1>1. /\ acct'[a].state = "live" /\ acct'[a].admin = q.admin
      /\ \A b \in AccountIds \ {a} : acct'[b] = acct[b]
  BY <1>0, <1>b, <1>c DEF InsertUser, IdentitiesTypeOK
<1>2. req'[r].pc = "session" /\ \A s \in Reqs \ {r} : req'[s] = req[s]
  BY DEF InsertUser, IdentitiesTypeOK, Req
<1>3. Rows' = Rows \cup {a} /\ ledger' = ledger
  BY <1>1, <1>c DEF Rows, Row, InsertUser
<1>4. Admins' = IF q.admin THEN Admins \cup {a} ELSE Admins
  BY <1>1, <1>3, <1>c DEF Admins, Rows
<1>5. AdminsBounded /\ req[r].pc = "insert"
  BY AdministeredIs DEF InsertUser
<1>6. Pending' = Pending \ {r}
  BY <1>2 DEF Pending
<1>7. CASE q.admin
  <2>1. AdminsBounded'
    BY <1>0, <1>4, <1>5, <1>6, <1>7, AdminsMove DEF Pending
  <2>2. Governed'
    BY <1>4, <1>7 DEF Governed
  <2> QED
    BY <2>1, <2>2 DEF Administered, AdminsBounded, Admins, Governed, AdminSeen
<1>8. CASE ~q.admin
  <2>1. AdminsBounded'
    BY <1>4, <1>5, <1>6, <1>8, AdminsShrink
  <2>2. Governed
    BY <1>0, <1>5, <1>8, AdministeredIs
  <2>3. Governed'
    BY <1>3, <1>4, <1>8, <2>2 DEF Governed
  <2> QED
    BY <2>1, <2>3 DEF Administered, AdminsBounded, Admins, Governed, AdminSeen
<1> QED
  BY <1>0, <1>7, <1>8 DEF Req

(* An administrator's row that is purged is remembered.                     *)
LEMMA AdminPurged ==
    ASSUME IdentitiesTypeOK, Administered, AdminSeen, NEW a \in AccountIds, PurgeUserData(a)
    PROVE  Administered' /\ AdminSeen'
<1>1. acct'[a].state = "gone" /\ \A b \in AccountIds \ {a} : acct'[b] = acct[b]
  BY DEF PurgeUserData, IdentitiesTypeOK, NoAccount
<1>2. Rows' = Rows \ {a} /\ Admins' = Admins \ {a}
  BY <1>1 DEF Rows, Row, Admins
<1>3. ledger'.orphaned <=> ledger.orphaned \/ acct[a].admin
  BY DEF PurgeUserData, IdentitiesTypeOK, Ledger
<1>4. Governed => Governed'
  BY <1>2, <1>3 DEF Governed, Admins
<1>5. AdminsBounded'
  BY <1>2, AdminsShrink, AdministeredIs DEF PurgeUserData, Pending
<1>6. Administered'
  BY <1>2, <1>4, <1>5, AdministeredIs DEF Administered, AdminsBounded, Admins, Governed
<1>7. AdminSeen'
  BY <1>4, AdministeredIs DEF AdminSeen, Admins, Governed, PurgeUserData
<1> QED
  BY <1>6, <1>7

LEMMA AdminStep ==
    ASSUME IdentitiesTypeOK, Shape, Administered, AdminSeen, [IdentitiesNext]_identitiesVars
    PROVE  Administered' /\ AdminSeen'
<1>d. ASSUME NEW r \in Reqs, Done(r), UNCHANGED <<acct, ledger.orphaned>>
      PROVE  Administered' /\ AdminSeen'
  <2>1. req'[r].pc = "idle" /\ \A s \in Reqs \ {r} : req'[s] = req[s]
    BY <1>d DEF Done, NoReq, IdentitiesTypeOK
  <2> QED
    BY <1>d, <2>1, AdminDone
<1>g. ASSUME NEW r \in Reqs, NEW p \in Pc \ {"insert"}, Go(r, p), UNCHANGED <<acct, ledger.orphaned>>
      PROVE  Administered' /\ AdminSeen'
  BY <1>g, AdminKept DEF Go, IdentitiesTypeOK, Req
<1>1. ASSUME NEW r \in Reqs, Request(r) PROVE Administered' /\ AdminSeen'
  <2>1. ASSUME NEW n \in Nonces, NEW i \in Identities, OIDCCallback(r, n, i)
        PROVE  Administered' /\ AdminSeen'
    <3>1. req'[r].pc = "resolve" /\ \A s \in Reqs \ {r} : req'[s] = req[s]
      BY <2>1 DEF OIDCCallback, NoReq, IdentitiesTypeOK
    <3> QED
      BY <2>1, <3>1, AdminDone DEF OIDCCallback
  <2>2. CASE ResolveIdentity(r) \/ ProviderFails(r) \/ CheckQuota(r) \/ LoadBound(r)
    BY <2>2, <1>d, <1>g DEF ResolveIdentity, ProviderFails, Answer, CheckQuota, LoadBound, Pc
  <2>3. CASE CountUsers(r)
    BY <2>3, AdminCounts
  <2>4. CASE InsertUser(r)
    BY <2>4, <1>d, AdminInserts DEF InsertUser
  <2>5. CASE CreateSession(r)
    <3>1. UNCHANGED <<acct, ledger.orphaned>>
      BY <2>5 DEF CreateSession, IdentitiesTypeOK, Ledger
    <3> QED
      BY <2>5, <3>1, <1>d DEF CreateSession
  <2>6. ASSUME NEW t \in Tickets, OIDCPickCreate(r, t) \/ \E a \in AccountIds : OIDCPickSelect(r, t, a)
        PROVE  Administered' /\ AdminSeen'
    <3>1. CASE OIDCPickCreate(r, t)
      <4>1. req'[r].pc = "quota" /\ \A s \in Reqs \ {r} : req'[s] = req[s]
        BY <3>1 DEF OIDCPickCreate, NoReq, IdentitiesTypeOK
      <4> QED
        BY <3>1, <4>1, AdminDone DEF OIDCPickCreate
    <3>2. ASSUME NEW a \in AccountIds, OIDCPickSelect(r, t, a) PROVE Administered' /\ AdminSeen'
      <4>1. req'[r].pc = "load" /\ \A s \in Reqs \ {r} : req'[s] = req[s]
        BY <3>2 DEF OIDCPickSelect, NoReq, IdentitiesTypeOK
      <4> QED
        BY <3>2, <4>1, AdminDone DEF OIDCPickSelect
    <3> QED
      BY <2>6, <3>1, <3>2
  <2>7. CASE LoadPicked(r)
    <3>1. CASE ~Selectable(req[r].id, req[r].who)
      BY <2>7, <1>d, <3>1 DEF LoadPicked
    <3>2. CASE Selectable(req[r].id, req[r].who)
      <4>1. req'[r].pc = "session" /\ \A s \in Reqs \ {r} : req'[s] = req[s]
        BY <2>7, <3>2 DEF LoadPicked, IdentitiesTypeOK, Req
      <4> QED
        BY <2>7, <4>1, AdminKept DEF LoadPicked
    <3> QED
      BY <3>1, <3>2
  <2>8. ASSUME NEW a \in AccountIds, NEW i \in Identities, OIDCBind(r, a, i)
        PROVE  Administered' /\ AdminSeen'
    <3>1. req'[r].pc = "load" /\ \A s \in Reqs \ {r} : req'[s] = req[s]
      BY <2>8 DEF OIDCBind, NoReq, IdentitiesTypeOK
    <3> QED
      BY <2>8, <3>1, AdminDone DEF OIDCBind
  <2>9. CASE BindOAuth(r)
    <3>1. \A b \in AccountIds : acct'[b].state = acct[b].state /\ acct'[b].admin = acct[b].admin
      BY <2>9 DEF BindOAuth, IdentitiesTypeOK, Account
    <3>2. ledger'.orphaned = ledger.orphaned
      BY <2>9 DEF BindOAuth, IdentitiesTypeOK, Ledger
    <3>3. Rows' = Rows /\ Admins' = Admins /\ (Governed' <=> Governed)
      BY <3>1, <3>2 DEF Rows, Row, Admins, Governed
    <3>4. req'[r].pc = "idle" /\ \A s \in Reqs \ {r} : req'[s] = req[s]
      BY <2>9 DEF BindOAuth, Done, NoReq, IdentitiesTypeOK
    <3>5. Pending' \subseteq Pending
      BY <3>4 DEF Pending
    <3>6. AdminsBounded'
      BY <3>3, <3>5, AdminsShrink, AdministeredIs
    <3>7. Administered'
      BY <3>3, <3>6, AdministeredIs DEF Administered, AdminsBounded, Admins, Governed
    <3>8. AdminSeen'
      BY <3>3, <3>4, AdministeredIs DEF AdminSeen, Admins, Governed
    <3> QED
      BY <3>7, <3>8
  <2> QED
    BY <1>1, <2>1, <2>2, <2>3, <2>4, <2>5, <2>6, <2>7, <2>8, <2>9 DEF Request
<1>2. ASSUME NEW a \in AccountIds, Register(a) \/ RequestAccountDeletion(a) \/ CancelAccountDeletion(a)
      PROVE  Administered' /\ AdminSeen'
  <2>1. \A b \in AccountIds : (Row(b)' <=> Row(b)) /\ acct'[b].admin = acct[b].admin
    BY <1>2 DEF Register, RequestAccountDeletion, CancelAccountDeletion, IdentitiesTypeOK, Account, Row, Live
  <2>2. UNCHANGED <<req, ledger>>
    BY <1>2 DEF Register, RequestAccountDeletion, CancelAccountDeletion
  <2>3. Rows' = Rows /\ Admins' = Admins /\ (Governed' <=> Governed) /\ Pending' = Pending
    BY <2>1, <2>2 DEF Rows, Admins, Governed, Pending
  <2>4. AdminsBounded'
    BY <2>3, AdminsShrink, AdministeredIs
  <2>5. Administered'
    BY <2>3, <2>4, AdministeredIs DEF Administered, AdminsBounded, Admins, Governed
  <2>6. AdminSeen'
    BY <2>2, <2>3, AdministeredIs DEF AdminSeen, Admins, Governed
  <2> QED
    BY <2>5, <2>6
<1>3. ASSUME NEW a \in AccountIds, PurgeUserData(a) PROVE Administered' /\ AdminSeen'
  BY <1>3, AdminPurged
<1>4. CASE \/ \E n \in Nonces : OIDCLogin(n)
           \/ PurgeExpired \/ ListPurgeableUsers \/ UNCHANGED identitiesVars
  BY <1>4, AdminKept DEF OIDCLogin, PurgeExpired, ListPurgeableUsers, identitiesVars
<1> QED
  BY <1>1, <1>2, <1>3, <1>4 DEF IdentitiesNext

-----------------------------------------------------------------------------
LEMMA UsedOnceIs == SingleUse => UsedOnce
BY DEF SingleUse, UsedOnce

LEMMA InitHolds == IdentitiesInit => IdentitiesInv
<1> SUFFICES ASSUME IdentitiesInit PROVE IdentitiesInv
  OBVIOUS
<1>0. acct \in Tables /\ acct \in [AccountIds -> Account] /\ Cardinality(Reqs) \in Nat
  BY TablesAssumption, IdentitiesAssumption, FS_CardinalityType DEF IdentitiesInit
<1>1. IdentitiesTypeOK
  BY <1>0, NoReqType DEF IdentitiesInit, IdentitiesTypeOK, Ledger
<1>2. SingleUse
  BY DEF IdentitiesInit, SingleUse, NoReq
<1>3. Shape
  BY DEF IdentitiesInit, Shape, FitReq, NoReq
<1>4. SignedInAsOwn
  BY DEF IdentitiesInit, SignedInAsOwn, NoReq
<1>5. AdminSeen
  BY DEF IdentitiesInit, AdminSeen, NoReq
<1>6. Administered
  <2>1. Pending = {}
    BY DEF IdentitiesInit, Pending, NoReq
  <2>2. Admins = TableAdmins(acct)
    BY DEF Admins, Rows, Row, TableAdmins
  <2>3. /\ Cardinality(TableAdmins(acct)) <= Cardinality(Reqs)
        /\ (\E a \in AccountIds : acct[a].state \in {"live", "deleted", "back"}) => TableAdmins(acct) # {}
    BY <1>0, TablesAssumption
  <2>4. AdminsBounded
    BY <1>0, <2>1, <2>2, <2>3, FS_EmptySet, AdminsFinite DEF AdminsBounded
  <2>5. Rows # {} => Governed
    BY <2>2, <2>3 DEF Rows, Row, Governed
  <2> QED
    BY <2>4, <2>5, AdministeredIs
<1>7. QuotaBounded
  <2> SUFFICES ASSUME NEW i \in Identities
               PROVE  Cardinality(Held(i)) + Cardinality(Entering(i))
                        <= MaxAccounts + Cardinality(Reqs) - 1
    BY DEF QuotaBounded, Held
  <2>1. Entering(i) = {}
    BY DEF IdentitiesInit, Entering, NoReq
  <2>2. Held(i) = TableAccounts(acct, i)
    BY DEF Held, FindByOAuth2, Live, TableAccounts
  <2>3. Cardinality(TableAccounts(acct, i)) <= MaxAccounts + Cardinality(Reqs) - 1
    BY <1>0, TablesAssumption
  <2>4. Cardinality(Entering(i)) = 0
    BY <2>1, FS_EmptySet
  <2> QED
    BY <2>2, <2>3, <2>4, QuotaFinite
<1> QED
  BY <1>1, <1>2, <1>3, <1>4, <1>5, <1>6, <1>7 DEF IdentitiesInv

LEMMA IdentitiesTypeStep == ASSUME IdentitiesInv, [IdentitiesNext]_identitiesVars PROVE IdentitiesTypeOK'
<1>1. ASSUME NEW r \in Reqs, Request(r) PROVE IdentitiesTypeOK'
  BY <1>1, SignInType, WriteType DEF Request, IdentitiesInv
<1>2. CASE UNCHANGED identitiesVars
  BY <1>2 DEF IdentitiesInv, IdentitiesTypeOK, identitiesVars
<1> QED
  BY <1>1, <1>2, OtherType DEF IdentitiesNext, IdentitiesInv

LEMMA StepHolds == IdentitiesInv /\ [IdentitiesNext]_identitiesVars => IdentitiesInv'
BY IdentitiesTypeStep, SingleUseStep, ShapeStep, AdminStep, QuotaStep DEF IdentitiesInv

(* Whatever callbacks, picks, bindings and deletions overlap: a nonce or a *)
(* ticket signs in once (ConsumeOIDCState, ConsumeOAuth2Pick), to an       *)
(* account of the identity it proved (Bind), the quota is exceeded by one  *)
(* account for each overlapping request at the most (OIDCPickCreate), and  *)
(* the system that has accounts has an administrator                       *)
(* (createUserFromOAuth2).                                                 *)
THEOREM IdentitiesCorrect == IdentitiesSpec => []IdentityInv
<1>1. IdentitiesInv => IdentityInv
  BY UsedOnceIs DEF IdentitiesInv, IdentityInv
<1> QED
  BY <1>1, InitHolds, StepHolds, PTL DEF IdentitiesSpec
=============================================================================
