------------------------- MODULE CallsMembersProofs --------------------------
(* Proofs about Members, and then about Calls: two components that share no  *)
(* variable and no definition, only the sets that their constants name. No   *)
(* proof of the one cites an assumption of the other.                        *)
EXTENDS Calls, Members, FiniteSetTheorems, TLAPS

(* Why a membership lasts what was paid for, and a PIN is guessed at a few *)
(* times at the most, for any number of requests, levels, prices and days. *)

(* Why: while an entry is open it counts the wrong entries, and a lockout  *)
(* that has been served has forgotten them.                                *)
CountsOf(s) ==
    /\ limiter[s].lock = "none" =>
          ledger.wrong[s] = limiter[s].failures /\ limiter[s].failures < MaxFailures
    /\ limiter[s].lock = "served" => ledger.wrong[s] = 0

EntryCounts == \A s \in Service : CountsOf(s)

(* The requests that a limiter has let pass, before they compare.          *)
Unread == {"purchase", "enable", "set", "tip"}
PassedBy(q) == q.pc = "compare" \/ (q.pc = "read" /\ q.kind \notin Unread)
Passed(s) == {r \in Reqs : Serves(r) = s /\ PassedBy(memberReq[r])}

(* The wrong entries of a lockout, those made and those that may come, are *)
(* no more than the ones that lock and the other requests.                 *)
BudgetOf(s) ==
    Locked(s) => ledger.wrong[s] + Cardinality(Passed(s)) <= MaxFailures + Cardinality(Reqs) - 1

LockBudget == \A s \in Service : BudgetOf(s)

(* Whoever has a level has paid for it, whether it has lapsed or not.      *)
PaidUp ==
    (count.grants = 0 /\ member.level > 0) => ledger.spent >= Price[member.level]

MInv == MembersTypeOK /\ EntryCounts /\ LockBudget /\ TermsStand /\ PaidUp

-----------------------------------------------------------------------------
LEMMA Numbers ==
    /\ Levels \in Nat \ {0} /\ Term \in Nat \ {0} /\ MaxFailures \in Nat \ {0} /\ Days \in Nat \ {0}
    /\ Window \in Nat /\ Fund \in Nat /\ MaxGrants \in Nat /\ MaxRestarts \in Nat
BY MembersAssumption

LEMMA Prices ==
    /\ \A l \in Level : Price[l] \in Nat /\ Price[l] > 0
    /\ \A l, m \in Level : l < m => Price[l] < Price[m]
    /\ 1 \in Level /\ Level \subseteq Nat
BY MembersAssumption, Numbers DEF Level

LEMMA NoReqType == NoMemberReq \in MemberReq /\ NoRenewal \in Renewer /\ NoEntry \in Limiter
BY Numbers, Prices DEF NoMemberReq, MemberReq, Pc, Kind, Hash, Day, NoRenewal, Renewer, NoEntry, Limiter

(* What a purchase offers is one of three things.                          *)
LEMMA OfferIs ==
    ASSUME MembersTypeOK, NEW l \in Level, NEW day \in Day, NEW o \in Offers(l, day)
    PROVE  /\ o.level = l /\ o.charge \in Nat /\ o.expires \in Nat
           /\ \/ ~Active(day) /\ o.kind = "purchase" /\ o.expires = day + Term /\ o.charge = Price[l]
              \/ /\ Active(day) /\ o.kind = "renew" /\ o.expires = member.expires + Term
                 /\ o.charge = Price[l]
              \/ /\ Active(day) /\ o.kind = "upgrade" /\ o.expires = member.expires
                 /\ member.level \in Level /\ o.charge = Price[l] - Price[member.level]
<1>0. /\ member.level \in 0 .. Levels /\ member.expires \in Nat /\ day \in Nat
  BY DEF MembersTypeOK, Member, Day
<1>1. CASE ~Active(day)
  <2>1. o = [level |-> l, expires |-> day + Term, charge |-> Price[l], kind |-> "purchase"]
    BY <1>1 DEF Offers
  <2> QED
    BY <2>1, <1>0, <1>1, Numbers, Prices
<1>2. CASE Active(day) /\ l = member.level
  <2>1. o = [level |-> l, expires |-> member.expires + Term, charge |-> Price[l], kind |-> "renew"]
    <3>1. ~(l > member.level)
      BY <1>0, <1>2, Numbers DEF Level
    <3> QED
      BY <1>2, <3>1 DEF Offers
  <2> QED
    BY <2>1, <1>0, <1>2, Numbers, Prices
<1>3. CASE Active(day) /\ l > member.level
  <2>1. o = [level |-> l, expires |-> member.expires,
             charge |-> Price[l] - Price[member.level], kind |-> "upgrade"]
    <3>1. l # member.level
      BY <1>0, <1>3, Numbers DEF Level
    <3> QED
      BY <1>3, <3>1 DEF Offers
  <2>2. member.level \in Level
    BY <1>0, <1>3, Numbers DEF Active, Level
  <2>3. Price[member.level] < Price[l]
    BY <1>3, <2>2, Prices
  <2>4. Price[l] - Price[member.level] \in Nat
    <3>1. Price[l] \in Nat /\ Price[member.level] \in Nat
      BY <2>2, Prices
    <3> QED
      BY <2>3, <3>1
  <2> QED
    BY <2>1, <2>2, <2>4, <1>0, <1>3
<1>4. ASSUME l # member.level, ~(l > member.level), Active(day) PROVE Offers(l, day) = {}
  BY <1>4 DEF Offers
<1> QED
  BY <1>1, <1>2, <1>3, <1>4

LEMMA PurchaseIs ==
    ASSUME MembersTypeOK, NEW o, NEW day, Purchase(o, day)
    PROVE  /\ coins' = coins - o.charge
           /\ member' = [level |-> o.level, expires |-> o.expires, auto |-> member.auto]
           /\ ledger'.terms = IF o.kind = "upgrade" THEN ledger.terms ELSE ledger.terms + 1
           /\ ledger'.spent = IF o.kind = "purchase" THEN o.charge ELSE ledger.spent + o.charge
           /\ ledger'.late = (ledger.late \/ day # today)
           /\ ledger'.served = ledger.served /\ ledger'.wrong = ledger.wrong
           /\ ledger' = [terms |-> ledger'.terms, served |-> ledger.served, spent |-> ledger'.spent,
                         late |-> ledger'.late, wrong |-> ledger.wrong]
BY DEF Purchase, MembersTypeOK, Member, Ledger

LEMMA PurchaseType ==
    ASSUME MembersTypeOK, NEW l \in Level, NEW day \in Day, NEW o \in Offers(l, day),
           Covers(o.charge), Purchase(o, day)
    PROVE  member' \in Member /\ coins' \in Nat /\ ledger' \in Ledger
<1>1. /\ o.level = l /\ o.charge \in Nat /\ o.expires \in Nat
  BY OfferIs
<1>2. l \in 0 .. Levels /\ member.auto \in BOOLEAN
  BY Numbers DEF Level, MembersTypeOK, Member
<1>3. member' \in Member
  BY <1>1, <1>2, PurchaseIs DEF Member
<1>4. coins' \in Nat
  BY <1>1, PurchaseIs DEF MembersTypeOK, Covers
<1>5. /\ ledger.terms \in Nat /\ ledger.served \in Nat /\ ledger.spent \in Nat
      /\ ledger.late \in BOOLEAN /\ ledger.wrong \in [Service -> Nat]
  BY DEF MembersTypeOK, Ledger
<1>6. ledger'.terms \in Nat /\ ledger'.spent \in Nat
  BY <1>1, <1>5, PurchaseIs
<1>8. ledger'.late \in BOOLEAN
  <2>1. (ledger.late \/ day # today) \in BOOLEAN
    BY <1>5
  <2> QED
    BY <2>1, PurchaseIs
<1>7. ledger' \in Ledger
  BY <1>5, <1>6, <1>8, PurchaseIs DEF Ledger
<1> QED
  BY <1>3, <1>4, <1>7

-----------------------------------------------------------------------------
(* Types.                                                                  *)
LEMMA AskType ==
    ASSUME MembersTypeOK, NEW r \in Reqs, Ask(r)
    PROVE  MembersTypeOK' /\ \A s \in Reqs \ {r} : memberReq'[s] = memberReq[s]
<1>1. PICK kind \in client \cap Kind : \E i \in Inputs(kind) :
         memberReq' = [memberReq EXCEPT ![r] = [NoMemberReq EXCEPT
                    !.pc = Start(kind), !.kind = kind, !.level = i.level,
                    !.pin = i.pin, !.new = i.new]]
  BY DEF Ask
<1>2. PICK i \in Inputs(kind) :
         memberReq' = [memberReq EXCEPT ![r] = [NoMemberReq EXCEPT
                    !.pc = Start(kind), !.kind = kind, !.level = i.level,
                    !.pin = i.pin, !.new = i.new]]
  BY <1>1
<1>3. Start(kind) \in Pc
  BY DEF Start, Pc, Kind
<1>4. i.level \in Level /\ i.pin \in Hash /\ i.new \in Hash
  BY Prices DEF Inputs, Hash
<1>5. [NoMemberReq EXCEPT !.pc = Start(kind), !.kind = kind, !.level = i.level,
                          !.pin = i.pin, !.new = i.new] \in MemberReq
  BY <1>3, <1>4, NoReqType DEF MemberReq
<1>6. count' \in Count
  BY Numbers DEF Ask, MembersTypeOK, Count
<1> QED
  BY <1>2, <1>5, <1>6 DEF Ask, MembersTypeOK

LEMMA GoType ==
    ASSUME MembersTypeOK, NEW r \in Reqs, NEW pc \in Pc, Go(r, pc)
    PROVE  /\ memberReq' \in [Reqs -> MemberReq] /\ memberReq'[r].pc = pc /\ memberReq'[r].kind = memberReq[r].kind
           /\ \A s \in Reqs \ {r} : memberReq'[s] = memberReq[s]
BY DEF Go, MembersTypeOK, MemberReq

LEMMA MemberDoneType ==
    ASSUME MembersTypeOK, NEW r \in Reqs, MemberDone(r)
    PROVE  /\ memberReq' \in [Reqs -> MemberReq] /\ memberReq'[r].pc = "idle"
           /\ \A s \in Reqs \ {r} : memberReq'[s] = memberReq[s]
BY NoReqType DEF MemberDone, MembersTypeOK, NoMemberReq

LEMMA FailedIs ==
    ASSUME NEW e \in Limiter, e.lock = "none" => e.failures < MaxFailures
    PROVE  /\ Failed(e) \in Limiter
           /\ e.lock = "on" => Failed(e) = e
           /\ e.lock = "served" =>
                 Failed(e) = [failures |-> 1, lock |-> IF 1 >= MaxFailures THEN "on" ELSE "none"]
           /\ e.lock = "none" =>
                 Failed(e) = [failures |-> e.failures + 1,
                              lock |-> IF e.failures + 1 >= MaxFailures THEN "on" ELSE "none"]
<1>0. e.failures \in 0 .. MaxFailures /\ e.lock \in {"none", "on", "served"}
  BY DEF Limiter
<1>1. CASE e.lock = "on"
  BY <1>0, <1>1 DEF Failed
<1>2. CASE e.lock = "served"
  <2>1. Failed(e) = [failures |-> 1, lock |-> IF 1 >= MaxFailures THEN "on" ELSE "none"]
    BY <1>2 DEF Failed
  <2> QED
    BY <2>1, <1>2, Numbers DEF Limiter
<1>3. CASE e.lock = "none"
  <2>1. Failed(e) = [failures |-> e.failures + 1,
                     lock |-> IF e.failures + 1 >= MaxFailures THEN "on" ELSE "none"]
    BY <1>3 DEF Failed
  <2>2. e.failures + 1 \in 0 .. MaxFailures
    BY <1>0, <1>3, Numbers
  <2> QED
    BY <2>1, <2>2, <1>3 DEF Limiter
<1> QED
  BY <1>0, <1>1, <1>2, <1>3

LEMMA ServesIn == \A r \in Reqs : Serves(r) \in Service
BY DEF Serves, Service

(* A limiter writes the history of its own wrong entries only.             *)
LEMMA WrongIs ==
    ASSUME MembersTypeOK, NEW s \in Service, NEW n \in Nat, ledger' = [ledger EXCEPT !.wrong[s] = n]
    PROVE  /\ ledger' \in Ledger /\ ledger' = [ledger EXCEPT !.wrong = ledger'.wrong]
           /\ ledger'.served = ledger.served /\ ledger'.terms = ledger.terms
           /\ ledger'.spent = ledger.spent /\ ledger'.late = ledger.late
           /\ ledger'.wrong[s] = n
           /\ \A u \in Service \ {s} : ledger'.wrong[u] = ledger.wrong[u]
<1>1. ledger \in Ledger /\ ledger.wrong \in [Service -> Nat]
  BY DEF MembersTypeOK, Ledger
<1>2. [ledger.wrong EXCEPT ![s] = n] \in [Service -> Nat]
  BY <1>1
<1>3. ledger' = [ledger EXCEPT !.wrong = [ledger.wrong EXCEPT ![s] = n]]
  BY <1>1
<1> QED
  BY <1>1, <1>2, <1>3 DEF Ledger

LEMMA EntryType ==
    ASSUME MembersTypeOK, NEW s \in Service
    PROVE  /\ limiter[s] \in Limiter /\ ledger.wrong[s] \in Nat
           /\ limiter[s].failures \in Nat /\ limiter[s].lock \in {"none", "on", "served"}
<1>1. limiter[s] \in Limiter /\ ledger.wrong \in [Service -> Nat]
  BY DEF MembersTypeOK, Ledger
<1> QED
  BY <1>1, Numbers DEF Limiter

LEMMA CompareIs ==
    ASSUME MembersTypeOK, EntryCounts, NEW r \in Reqs, ComparePin(r), NEW s \in Service, s = Serves(r)
    PROVE  /\ memberReq' \in [Reqs -> MemberReq] /\ memberReq'[r].pc \in {"idle", "act"}
           /\ \A t \in Reqs \ {r} : memberReq'[t] = memberReq[t]
           /\ limiter' \in [Service -> Limiter]
           /\ \A u \in Service \ {s} : limiter'[u] = limiter[u] /\ ledger'.wrong[u] = ledger.wrong[u]
           /\ ledger' = [ledger EXCEPT !.wrong = ledger'.wrong] /\ ledger' \in Ledger
           /\ \/ limiter'[s] = NoEntry /\ ledger'.wrong[s] = 0
              \/ limiter'[s] = Failed(limiter[s]) /\ ledger'.wrong[s] = ledger.wrong[s] + 1
<1>0. /\ ledger \in Ledger /\ today \in Day /\ memberReq[r] \in MemberReq
      /\ limiter \in [Service -> Limiter] /\ ledger.wrong \in [Service -> Nat]
  BY DEF MembersTypeOK, Ledger
<1>1. CASE memberReq[r].pin = memberReq[r].hash
  <2>1. limiter' = [limiter EXCEPT ![s] = NoEntry] /\ ledger' = [ledger EXCEPT !.wrong[s] = 0]
    BY <1>1 DEF ComparePin
  <2>2. /\ limiter' \in [Service -> Limiter] /\ limiter'[s] = NoEntry
        /\ \A u \in Service \ {s} : limiter'[u] = limiter[u]
    BY <2>1, <1>0, NoReqType
  <2>3. CASE memberReq[r].kind \in {"verify", "tip"}
    <3>1. MemberDone(r)
      BY <1>1, <2>3 DEF ComparePin
    <3> QED
      BY <2>1, <2>2, <3>1, WrongIs, MemberDoneType
  <2>4. CASE memberReq[r].kind \notin {"verify", "tip"}
    <3>1. memberReq' = [memberReq EXCEPT ![r].pc = "act", ![r].day = today]
      BY <1>1, <2>4 DEF ComparePin
    <3>2. [memberReq[r] EXCEPT !.pc = "act", !.day = today] \in MemberReq
      BY <1>0 DEF MemberReq, Pc
    <3>3. /\ memberReq' \in [Reqs -> MemberReq] /\ memberReq'[r].pc = "act"
          /\ \A t \in Reqs \ {r} : memberReq'[t] = memberReq[t]
      BY <1>0, <3>1, <3>2 DEF MembersTypeOK, MemberReq
    <3> QED
      BY <2>1, <2>2, <3>3, WrongIs
  <2> QED
    BY <2>3, <2>4
<1>2. CASE memberReq[r].pin # memberReq[r].hash
  <2>1. /\ limiter' = [limiter EXCEPT ![s] = Failed(@)]
        /\ ledger' = [ledger EXCEPT !.wrong[s] = @ + 1] /\ MemberDone(r)
    BY <1>2 DEF ComparePin
  <2>2. limiter[s].lock = "none" => limiter[s].failures < MaxFailures
    BY DEF EntryCounts, CountsOf
  <2>3. Failed(limiter[s]) \in Limiter
    BY <1>0, <2>2, FailedIs
  <2>4. /\ limiter' \in [Service -> Limiter] /\ limiter'[s] = Failed(limiter[s])
        /\ \A u \in Service \ {s} : limiter'[u] = limiter[u]
    BY <1>0, <2>1, <2>3
  <2>5. PICK n \in Nat : n = ledger.wrong[s] + 1
    BY <1>0
  <2>6. ledger' = [ledger EXCEPT !.wrong[s] = n]
    BY <1>0, <2>1, <2>5
  <2> QED
    BY <2>1, <2>4, <2>5, <2>6, WrongIs, MemberDoneType
<1> QED
  BY <1>1, <1>2

LEMMA ReadIs ==
    ASSUME MembersTypeOK, NEW r \in Reqs, ReadHash(r)
    PROVE  /\ memberReq' \in [Reqs -> MemberReq]
           /\ \A t \in Reqs \ {r} : memberReq'[t] = memberReq[t]
           /\ memberReq'[r].pc \in {"idle", "gate", "act", "compare"}
           /\ memberReq'[r].pc = "compare" =>
                 PassedBy(memberReq[r]) /\ memberReq'[r].kind = memberReq[r].kind
<1>0. memberReq[r] \in MemberReq /\ pin \in Hash /\ memberReq[r].pc = "read"
  BY DEF MembersTypeOK, ReadHash
<1>1. PICK q \in MemberReq : q = memberReq[r]
  BY <1>0
<1>2. AfterRead(q) \in {"idle", "gate", "act", "compare"}
  BY DEF AfterRead
<1>3. AfterRead(q) = "compare" => q.kind \notin Unread
  BY DEF AfterRead, Unread
<1>4. CASE AfterRead(q) = "idle"
  BY <1>1, <1>4, MemberDoneType DEF ReadHash
<1>5. CASE AfterRead(q) # "idle"
  <2>1. memberReq' = [memberReq EXCEPT ![r].pc = AfterRead(q), ![r].hash = pin]
    BY <1>1, <1>5 DEF ReadHash
  <2>2. [memberReq[r] EXCEPT !.pc = AfterRead(q), !.hash = pin] \in MemberReq
    BY <1>0, <1>2 DEF MemberReq, Pc
  <2>3. /\ memberReq' \in [Reqs -> MemberReq] /\ memberReq'[r].pc = AfterRead(q)
        /\ memberReq'[r].kind = memberReq[r].kind
        /\ \A t \in Reqs \ {r} : memberReq'[t] = memberReq[t]
    BY <1>0, <2>1, <2>2 DEF MembersTypeOK, MemberReq
  <2> QED
    BY <1>0, <1>1, <1>2, <1>3, <2>3 DEF PassedBy
<1> QED
  BY <1>4, <1>5

LEMMA GateIs ==
    ASSUME MembersTypeOK, NEW r \in Reqs, Gate(r)
    PROVE  /\ memberReq' \in [Reqs -> MemberReq]
           /\ \A t \in Reqs \ {r} : memberReq'[t] = memberReq[t]
           /\ memberReq'[r].pc = "idle" \/ memberReq'[r].kind = memberReq[r].kind
           /\ Locked(Serves(r)) => memberReq'[r].pc = "idle"
<1>1. PastGate(memberReq[r]) \in {"idle", "read", "compare"}
  BY DEF PastGate
<1>2. PICK pc \in {"idle", "read", "compare"} :
        /\ pc = (IF Locked(Serves(r)) THEN "idle" ELSE PastGate(memberReq[r]))
        /\ Proceed(r, pc)
  BY <1>1 DEF Gate
<1>3. CASE pc = "idle"
  BY <1>2, <1>3, MemberDoneType DEF Proceed
<1>4. CASE pc # "idle"
  BY <1>2, <1>4, GoType DEF Proceed, Pc
<1> QED
  BY <1>3, <1>4

(* What a step may do to the limiter's entry and the requests.             *)
LEMMA RequestType ==
    ASSUME MInv, NEW r \in Reqs,
           \/ Ask(r) \/ ReadHash(r) \/ Gate(r) \/ ComparePin(r)
           \/ BuyMembership(r) \/ SetAutoRenew(r) \/ SetPinHash(r)
    PROVE  MembersTypeOK'
<1>0. MembersTypeOK /\ EntryCounts /\ memberReq[r] \in MemberReq
  BY DEF MInv, MembersTypeOK
<1>1. CASE Ask(r)
  BY <1>0, <1>1, AskType
<1>2. CASE ReadHash(r)
  <2>1. UNCHANGED <<today, member, coins, pin, limiter, renewer, client, count, ledger>>
    BY <1>2 DEF ReadHash
  <2> QED
    BY <1>0, <1>2, <2>1, ReadIs DEF MembersTypeOK
<1>3. CASE Gate(r)
  <2>1. UNCHANGED <<today, member, coins, pin, limiter, renewer, client, count, ledger>>
    BY <1>3 DEF Gate
  <2> QED
    BY <1>0, <1>3, <2>1, GateIs DEF MembersTypeOK
<1>4. CASE ComparePin(r)
  <2>1. UNCHANGED <<today, member, coins, pin, renewer, client, count>>
    BY <1>4 DEF ComparePin
  <2>2. PICK s \in Service : s = Serves(r)
    BY ServesIn
  <2> QED
    BY <1>0, <1>4, <2>1, <2>2, CompareIs DEF MembersTypeOK
<1>5. CASE BuyMembership(r)
  <2>1. UNCHANGED <<today, pin, limiter, renewer, client, count>> /\ MemberDone(r)
    BY <1>5 DEF BuyMembership
  <2>2. memberReq[r].level \in Level /\ memberReq[r].day \in Day
    BY <1>0 DEF MemberReq
  <2>3. member' \in Member /\ coins' \in Nat /\ ledger' \in Ledger
    <3>1. ASSUME NEW o \in Offers(memberReq[r].level, memberReq[r].day), Covers(o.charge), Purchase(o, memberReq[r].day)
          PROVE  member' \in Member /\ coins' \in Nat /\ ledger' \in Ledger
      BY <1>0, <2>2, <3>1, PurchaseType
    <3>2. CASE UNCHANGED <<member, coins, ledger>>
      BY <1>0, <3>2 DEF MembersTypeOK
    <3> QED
      BY <1>5, <3>1, <3>2 DEF BuyMembership
  <2> QED
    BY <1>0, <2>1, <2>3, MemberDoneType DEF MembersTypeOK
<1>6. CASE SetAutoRenew(r)
  <2>1. member' \in Member
    BY <1>0, <1>6 DEF SetAutoRenew, MembersTypeOK, Member
  <2> QED
    BY <1>0, <1>6, <2>1, MemberDoneType DEF SetAutoRenew, MembersTypeOK
<1>7. CASE SetPinHash(r)
  <2>1. pin' \in Hash
    BY <1>0, <1>7 DEF SetPinHash, MemberReq
  <2> QED
    BY <1>0, <1>7, <2>1, MemberDoneType DEF SetPinHash, MembersTypeOK
<1> QED
  BY <1>1, <1>2, <1>3, <1>4, <1>5, <1>6, <1>7

LEMMA OtherType ==
    ASSUME MInv, Renew \/ Grant \/ (\E s \in Service : ServeLockout(s) \/ Restart(s)) \/ NextDay
    PROVE  MembersTypeOK'
<1>0. MembersTypeOK /\ ledger \in Ledger /\ member \in Member /\ today \in Day /\ count \in Count
  BY DEF MInv, MembersTypeOK
<1>1. CASE ListDue
  <2>1. renewer' \in Renewer
    BY <1>0, <1>1 DEF ListDue, Due, Renewer
  <2> QED
    BY <1>0, <1>1, <2>1 DEF ListDue, MembersTypeOK
<1>2. CASE ChargeDue
  <2>1. UNCHANGED <<today, pin, limiter, memberReq, client, count>>
    BY <1>2 DEF ChargeDue
  <2>2. renewer.level \in Level /\ renewer.day \in Day
    BY <1>0 DEF MembersTypeOK, Renewer
  <2>3. renewer' \in Renewer
    BY <1>0, <1>2, NoReqType DEF ChargeDue, AfterCharge, MembersTypeOK, Renewer
  <2>4. member' \in Member /\ coins' \in Nat /\ ledger' \in Ledger
    <3>1. ASSUME NEW o \in Offers(renewer.level, renewer.day), Covers(o.charge), Purchase(o, renewer.day)
          PROVE  member' \in Member /\ coins' \in Nat /\ ledger' \in Ledger
      BY <1>0, <2>2, <3>1, PurchaseType
    <3>2. CASE UNCHANGED <<member, coins, ledger>>
      BY <1>0, <3>2 DEF MembersTypeOK
    <3> QED
      BY <1>2, <3>1, <3>2 DEF ChargeDue
  <2> QED
    BY <1>0, <2>1, <2>3, <2>4 DEF MembersTypeOK
<1>3. CASE SwitchOff
  <2>1. member' \in Member /\ renewer' \in Renewer
    BY <1>0, <1>3, NoReqType DEF SwitchOff, Member
  <2> QED
    BY <1>0, <1>3, <2>1 DEF SwitchOff, MembersTypeOK
<1>4. CASE Grant
  <2>1. PICK l \in 0 .. Levels :
          member' = [member EXCEPT !.level = l, !.expires = IF l = 0 THEN 0 ELSE today + Term]
    BY <1>4 DEF Grant
  <2>2. today + Term \in Nat
    BY <1>0, Numbers DEF Day
  <2>3. member' \in Member
    BY <1>0, <2>1, <2>2 DEF Member
  <2>4. count' \in Count
    <3>1. count' = [count EXCEPT !.grants = @ + 1] /\ count.grants < MaxGrants
      BY <1>4 DEF Grant
    <3> QED
      BY <1>0, <3>1, Numbers DEF Count
  <2> QED
    BY <1>0, <1>4, <2>3, <2>4 DEF Grant, MembersTypeOK
<1>5. ASSUME NEW s \in Service, ServeLockout(s) PROVE MembersTypeOK'
  <2>1. limiter' \in [Service -> Limiter]
    BY <1>0, <1>5, EntryType DEF ServeLockout, MembersTypeOK, Limiter
  <2>2. ledger' \in Ledger
    BY <1>0, <1>5, WrongIs DEF ServeLockout
  <2> QED
    BY <1>0, <1>5, <2>1, <2>2 DEF ServeLockout, MembersTypeOK
<1>6. ASSUME NEW s \in Service, Restart(s) PROVE MembersTypeOK'
  <2>1. limiter' \in [Service -> Limiter] /\ memberReq' \in [Reqs -> MemberReq]
    BY <1>0, <1>6, NoReqType DEF Restart, MembersTypeOK
  <2>2. renewer' \in Renewer /\ count' \in Count
    BY <1>0, <1>6, NoReqType, Numbers DEF Restart, Count, MembersTypeOK
  <2>3. ledger' \in Ledger
    BY <1>0, <1>6, WrongIs DEF Restart
  <2> QED
    BY <1>0, <1>6, <2>1, <2>2, <2>3 DEF Restart, MembersTypeOK
<1>7. CASE NextDay
  <2>1. today' \in Day
    BY <1>0, <1>7, Numbers DEF NextDay, Day
  <2>2. ledger' \in Ledger
    <3>1. PICK b \in {ledger.served, ledger.served + 1} : ledger' = [ledger EXCEPT !.served = b]
      BY <1>7 DEF NextDay
    <3>2. b \in Nat
      BY <1>0, <3>1 DEF Ledger
    <3> QED
      BY <1>0, <3>1, <3>2 DEF Ledger
  <2> QED
    BY <1>0, <1>7, <2>1, <2>2 DEF NextDay, MembersTypeOK
<1> QED
  BY <1>1, <1>2, <1>3, <1>4, <1>5, <1>6, <1>7 DEF Renew

-----------------------------------------------------------------------------
(* The limiter.                                                            *)
LEMMA EntryStep ==
    ASSUME MInv, [MembersNext]_membersVars
    PROVE  EntryCounts'
<1> SUFFICES ASSUME NEW s \in Service PROVE CountsOf(s)'
  BY DEF EntryCounts
<1>0. /\ MembersTypeOK /\ EntryCounts /\ CountsOf(s) /\ ledger.wrong[s] \in Nat
      /\ limiter[s] \in Limiter /\ limiter[s].failures \in Nat /\ limiter[s].lock \in {"none", "on", "served"}
  BY EntryType DEF MInv, EntryCounts
<1>k. ASSUME limiter'[s] = limiter[s], ledger'.wrong[s] = ledger.wrong[s] PROVE CountsOf(s)'
  BY <1>0, <1>k DEF CountsOf
<1>1. ASSUME NEW r \in Reqs, ComparePin(r) PROVE CountsOf(s)'
  <2>0. PICK u \in Service : u = Serves(r)
    BY ServesIn
  <2>1. CASE s # u
    BY <1>0, <1>1, <1>k, <2>0, <2>1, CompareIs
  <2>2. CASE s = u /\ limiter'[s] = NoEntry /\ ledger'.wrong[s] = 0
    BY <2>2, Numbers DEF CountsOf, NoEntry
  <2>3. CASE s = u /\ limiter'[s] = Failed(limiter[s]) /\ ledger'.wrong[s] = ledger.wrong[s] + 1
    <3>0. limiter[s].lock = "none" => limiter[s].failures < MaxFailures
      BY <1>0 DEF CountsOf
    <3>1. CASE limiter[s].lock = "on"
      BY <1>0, <2>3, <3>0, <3>1, FailedIs DEF CountsOf
    <3>2. CASE limiter[s].lock = "served"
      BY <1>0, <2>3, <3>0, <3>2, FailedIs, Numbers DEF CountsOf
    <3>3. CASE limiter[s].lock = "none"
      BY <1>0, <2>3, <3>0, <3>3, FailedIs, Numbers DEF CountsOf
    <3> QED
      BY <1>0, <3>1, <3>2, <3>3
  <2> QED
    BY <1>0, <1>1, <2>0, <2>1, <2>2, <2>3, CompareIs
<1>3. ASSUME NEW o, NEW day, Purchase(o, day), UNCHANGED limiter PROVE CountsOf(s)'
  BY <1>0, <1>k, <1>3, PurchaseIs
<1>4. ASSUME NEW r \in Reqs, BuyMembership(r) PROVE CountsOf(s)'
  BY <1>4, <1>k, <1>3 DEF BuyMembership
<1>5. CASE ChargeDue
  BY <1>5, <1>k, <1>3 DEF ChargeDue
<1>6. ASSUME NEW u \in Service, ServeLockout(u) \/ Restart(u) PROVE CountsOf(s)'
  <2>1. ledger' = [ledger EXCEPT !.wrong[u] = 0]
    BY <1>6 DEF ServeLockout, Restart
  <2>2. CASE s = u
    <3>1. limiter'[s] = NoEntry \/ limiter'[s] = [limiter[s] EXCEPT !.lock = "served"]
      BY <1>0, <1>6, <2>2 DEF ServeLockout, Restart, MembersTypeOK
    <3> QED
      BY <1>0, <2>1, <2>2, <3>1, WrongIs, Numbers DEF CountsOf, NoEntry, Limiter
  <2>3. CASE s # u
    <3>1. limiter'[s] = limiter[s]
      BY <1>0, <1>6, <2>3 DEF ServeLockout, Restart, MembersTypeOK
    <3> QED
      BY <1>0, <1>k, <2>1, <2>3, <3>1, WrongIs
  <2> QED
    BY <2>2, <2>3
<1>7. CASE NextDay
  <2>1. ledger'.wrong = ledger.wrong
    BY <1>0, <1>7 DEF NextDay, MembersTypeOK, Ledger
  <2> QED
    BY <1>k, <1>7, <2>1 DEF NextDay
<1>8. CASE ListDue \/ SwitchOff \/ Grant \/ UNCHANGED membersVars
  BY <1>8, <1>k DEF ListDue, SwitchOff, Grant, membersVars
<1>9. ASSUME NEW r \in Reqs, Ask(r) \/ ReadHash(r) \/ Gate(r) \/ SetAutoRenew(r) \/ SetPinHash(r)
      PROVE CountsOf(s)'
  BY <1>9, <1>k DEF Ask, ReadHash, Gate, SetAutoRenew, SetPinHash
<1> QED
  BY <1>1, <1>4, <1>5, <1>6, <1>7, <1>8, <1>9 DEF MembersNext, Renew

LEMMA PassedFinite ==
    ASSUME NEW s \in Service
    PROVE  /\ IsFiniteSet(Passed(s)) /\ IsFiniteSet(Passed(s)')
           /\ Cardinality(Passed(s)) \in Nat /\ Cardinality(Passed(s)') \in Nat /\ Cardinality(Reqs) \in Nat
           /\ Cardinality(Passed(s)') <= Cardinality(Reqs)
<1>1. Passed(s) \in SUBSET Reqs /\ Passed(s)' \in SUBSET Reqs /\ IsFiniteSet(Reqs)
  BY MembersAssumption DEF Passed
<1> QED
  BY <1>1, FS_Subset, FS_CardinalityType

(* A request that leaves the compared ones makes room for its failure.     *)
LEMMA PassedLess ==
    ASSUME NEW s \in Service, NEW r \in Passed(s), Passed(s)' \subseteq Passed(s) \ {r}
    PROVE  Cardinality(Passed(s)') <= Cardinality(Passed(s)) - 1
<1>1. Cardinality(Passed(s) \ {r}) = Cardinality(Passed(s)) - 1 /\ IsFiniteSet(Passed(s) \ {r})
  <2>1. IsFiniteSet(Passed(s))
    BY PassedFinite
  <2> QED
    BY <2>1, FS_RemoveElement
<1>2. Cardinality(Passed(s)') <= Cardinality(Passed(s) \ {r})
  BY <1>1, FS_Subset
<1> QED
  BY <1>1, <1>2

(* Of the requests, the one that locks is no longer to be compared.        *)
LEMMA PassedRest ==
    ASSUME NEW s \in Service, NEW r \in Reqs, Passed(s)' \subseteq Reqs \ {r}
    PROVE  Cardinality(Passed(s)') <= Cardinality(Reqs) - 1
<1>1. Cardinality(Reqs \ {r}) = Cardinality(Reqs) - 1 /\ IsFiniteSet(Reqs \ {r})
  BY MembersAssumption, FS_RemoveElement
<1>2. Cardinality(Passed(s)') <= Cardinality(Reqs \ {r})
  BY <1>1, FS_Subset
<1> QED
  BY <1>1, <1>2

LEMMA LockStep ==
    ASSUME MInv, [MembersNext]_membersVars
    PROVE  LockBudget'
<1> SUFFICES ASSUME NEW s \in Service PROVE BudgetOf(s)'
  BY DEF LockBudget
<1>0. /\ MembersTypeOK /\ EntryCounts /\ BudgetOf(s) /\ CountsOf(s) /\ ledger.wrong[s] \in Nat
      /\ limiter[s] \in Limiter /\ limiter[s].failures \in Nat /\ limiter[s].lock \in {"none", "on", "served"}
      /\ Cardinality(Reqs) \in Nat /\ MaxFailures \in Nat \ {0}
  BY PassedFinite, Numbers, EntryType DEF MInv, LockBudget, EntryCounts
<1>k. ASSUME limiter'[s] = limiter[s], ledger'.wrong[s] = ledger.wrong[s],
             Locked(s) => Passed(s)' \subseteq Passed(s)
      PROVE  BudgetOf(s)'
  <2> SUFFICES ASSUME Locked(s) PROVE BudgetOf(s)'
    BY <1>k DEF BudgetOf, Locked
  <2>1. Cardinality(Passed(s)') <= Cardinality(Passed(s))
    BY <1>k, PassedFinite, FS_Subset
  <2> QED
    BY <1>0, <1>k, <2>1, PassedFinite DEF BudgetOf
<1>s. ASSUME NEW r \in Reqs, \A t \in Reqs \ {r} : memberReq'[t] = memberReq[t],
             (r \in Passed(s)') => r \in Passed(s)
      PROVE  Passed(s)' \subseteq Passed(s)
  BY <1>s DEF Passed, Serves
<1>n. ASSUME NEW r \in Reqs, memberReq'[r].pc \in {"idle", "gate", "act"}, \A t \in Reqs \ {r} : memberReq'[t] = memberReq[t]
      PROVE  Passed(s)' \subseteq Passed(s) \ {r}
  BY <1>n DEF Passed, Serves, PassedBy
<1>1. ASSUME NEW r \in Reqs, ComparePin(r) PROVE BudgetOf(s)'
  <2>0. PICK u \in Service : u = Serves(r)
    BY ServesIn
  <2>1. Passed(s)' \subseteq Passed(s) \ {r} /\ (s = u => r \in Passed(s)) /\ Passed(s)' \subseteq Reqs \ {r}
    <3>1. Passed(s)' \subseteq Passed(s) \ {r}
      BY <1>0, <1>1, <1>n, <2>0, CompareIs
    <3>2. s = u => r \in Passed(s)
      BY <1>1, <2>0 DEF ComparePin, Passed, PassedBy
    <3> QED
      BY <3>1, <3>2 DEF Passed
  <2>2. CASE s # u
    BY <1>0, <1>1, <1>k, <2>0, <2>1, <2>2, CompareIs
  <2>3. CASE s = u /\ limiter'[s] = NoEntry /\ ledger'.wrong[s] = 0
    BY <2>3 DEF BudgetOf, Locked, NoEntry
  <2>4. CASE s = u /\ limiter'[s] = Failed(limiter[s]) /\ ledger'.wrong[s] = ledger.wrong[s] + 1
    <3>1. CASE Locked(s)
      <4>1. ledger.wrong[s] + Cardinality(Passed(s)) <= MaxFailures + Cardinality(Reqs) - 1
        BY <1>0, <3>1 DEF BudgetOf
      <4>2. ledger'.wrong[s] + Cardinality(Passed(s)') <= MaxFailures + Cardinality(Reqs) - 1
        BY <1>0, <2>1, <2>4, <4>1, PassedLess, PassedFinite
      <4> QED
        BY <4>2 DEF BudgetOf
    <3>2. CASE ~Locked(s)
      <4>1. ledger.wrong[s] < MaxFailures
        BY <1>0, <3>2 DEF CountsOf, Locked
      <4>2. ledger'.wrong[s] + Cardinality(Passed(s)') <= MaxFailures + Cardinality(Reqs) - 1
        BY <1>0, <2>1, <2>4, <4>1, PassedRest, PassedFinite
      <4> QED
        BY <4>2 DEF BudgetOf
    <3> QED
      BY <3>1, <3>2
  <2> QED
    BY <1>0, <1>1, <2>0, <2>2, <2>3, <2>4, CompareIs
<1>2. ASSUME NEW r \in Reqs, Ask(r) PROVE BudgetOf(s)'
  <2>a. PICK kind \in client \cap Kind : \E i \in Inputs(kind) :
         memberReq' = [memberReq EXCEPT ![r] = [NoMemberReq EXCEPT
                    !.pc = Start(kind), !.kind = kind, !.level = i.level,
                    !.pin = i.pin, !.new = i.new]]
    BY <1>2 DEF Ask
  <2>1. PICK i \in Inputs(kind) :
         memberReq' = [memberReq EXCEPT ![r] = [NoMemberReq EXCEPT
                    !.pc = Start(kind), !.kind = kind, !.level = i.level,
                    !.pin = i.pin, !.new = i.new]]
    BY <2>a
  <2>2. memberReq'[r].pc = Start(kind) /\ memberReq'[r].kind = kind
    BY <1>0, <2>1 DEF MembersTypeOK, NoMemberReq
  <2>3. r \notin Passed(s)'
    BY <2>2 DEF Start, Passed, PassedBy, Unread
  <2>4. Passed(s)' \subseteq Passed(s)
    BY <1>0, <1>2, <1>s, <2>3, AskType
  <2> QED
    BY <1>2, <1>k, <2>4 DEF Ask
<1>3. ASSUME NEW r \in Reqs, ReadHash(r) PROVE BudgetOf(s)'
  <2>1. r \in Passed(s)' => r \in Passed(s)
    BY <1>0, <1>3, ReadIs DEF Passed, PassedBy, Serves
  <2>2. Passed(s)' \subseteq Passed(s)
    BY <1>0, <1>3, <1>s, <2>1, ReadIs
  <2> QED
    BY <1>3, <1>k, <2>2 DEF ReadHash
<1>4. ASSUME NEW r \in Reqs, Gate(r) PROVE BudgetOf(s)'
  <2>1. Locked(s) => r \notin Passed(s)'
    BY <1>0, <1>4, GateIs DEF Passed, PassedBy, Serves
  <2>2. Locked(s) => Passed(s)' \subseteq Passed(s)
    BY <1>0, <1>4, <1>s, <2>1, GateIs
  <2> QED
    BY <1>4, <1>k, <2>2 DEF Gate
<1>5. ASSUME NEW r \in Reqs, BuyMembership(r) \/ SetAutoRenew(r) \/ SetPinHash(r) PROVE BudgetOf(s)'
  <2>1. Passed(s)' \subseteq Passed(s)
    BY <1>0, <1>5, <1>n, MemberDoneType DEF BuyMembership, SetAutoRenew, SetPinHash
  <2>2. UNCHANGED limiter /\ ledger'.wrong = ledger.wrong
    BY <1>0, <1>5, PurchaseIs DEF BuyMembership, SetAutoRenew, SetPinHash
  <2> QED
    BY <1>k, <2>1, <2>2
<1>6. ASSUME NEW u \in Service, ServeLockout(u) PROVE BudgetOf(s)'
  <2>1. CASE s = u
    BY <1>0, <1>6, <2>1 DEF ServeLockout, BudgetOf, Locked, MembersTypeOK, Limiter
  <2>2. CASE s # u
    <3>1. limiter'[s] = limiter[s] /\ ledger'.wrong[s] = ledger.wrong[s] /\ Passed(s)' = Passed(s)
      BY <1>0, <1>6, <2>2, WrongIs DEF ServeLockout, MembersTypeOK, Passed, Serves
    <3> QED
      BY <1>k, <3>1
  <2> QED
    BY <2>1, <2>2
<1>8. ASSUME NEW u \in Service, Restart(u) PROVE BudgetOf(s)'
  <2>1. CASE s = u
    BY <1>0, <1>8, <2>1 DEF Restart, BudgetOf, Locked, NoEntry, MembersTypeOK
  <2>2. CASE s # u
    <3>1. limiter'[s] = limiter[s] /\ ledger'.wrong[s] = ledger.wrong[s]
      BY <1>0, <1>8, <2>2, WrongIs DEF Restart, MembersTypeOK
    <3>2. \A t \in Reqs : memberReq'[t] = memberReq[t] \/ memberReq'[t] = NoMemberReq
      BY <1>8 DEF Restart
    <3>3. ~PassedBy(NoMemberReq)
      BY DEF PassedBy, NoMemberReq
    <3>4. Passed(s)' \subseteq Passed(s)
      BY <3>2, <3>3 DEF Passed, Serves
    <3> QED
      BY <1>k, <3>1, <3>4
  <2> QED
    BY <2>1, <2>2
<1>7. CASE Renew \/ Grant \/ NextDay \/ UNCHANGED membersVars
  <2>1. UNCHANGED <<limiter, memberReq>>
    BY <1>7 DEF Renew, ListDue, ChargeDue, SwitchOff, Grant, NextDay, membersVars
  <2>2. ledger'.wrong = ledger.wrong
    <3>1. CASE ChargeDue
      BY <1>0, <3>1, PurchaseIs DEF ChargeDue
    <3>2. CASE NextDay
      BY <1>0, <3>2 DEF NextDay, MembersTypeOK, Ledger
    <3> QED
      BY <1>7, <3>1, <3>2 DEF Renew, ListDue, SwitchOff, Grant, membersVars
  <2>3. Passed(s)' = Passed(s)
    BY <2>1 DEF Passed, Serves
  <2> QED
    BY <1>k, <2>1, <2>2, <2>3
<1> QED
  BY <1>1, <1>2, <1>3, <1>4, <1>5, <1>6, <1>7, <1>8 DEF MembersNext

LEMMA BudgetHolds ==
    ASSUME MembersTypeOK, EntryCounts, LockBudget
    PROVE  PinBudget
<1> SUFFICES ASSUME NEW s \in Service
             PROVE  /\ ledger.wrong[s] >= MaxFailures => Locked(s)
                    /\ ledger.wrong[s] <= MaxFailures + Cardinality(Reqs) - 1
  BY DEF PinBudget
<1>0. /\ ledger.wrong[s] \in Nat /\ limiter[s].failures \in Nat /\ limiter[s].lock \in {"none", "on", "served"}
      /\ Cardinality(Reqs) \in Nat /\ Cardinality(Passed(s)) \in Nat /\ MaxFailures \in Nat \ {0}
      /\ CountsOf(s) /\ BudgetOf(s)
  BY PassedFinite, Numbers, EntryType DEF EntryCounts, LockBudget
<1>1. CASE Locked(s)
  BY <1>0, <1>1 DEF BudgetOf
<1>2. CASE ~Locked(s)
  BY <1>0, <1>2 DEF CountsOf, Locked
<1> QED
  BY <1>1, <1>2

-----------------------------------------------------------------------------
(* The membership.                                                         *)
LEMMA Terms == \A n \in Nat : Term * (n + 1) = Term * n + Term /\ Term * n \in Nat
BY Numbers

LEMMA TermsPurchase ==
    ASSUME MembersTypeOK, TermsStand, NEW l \in Level, NEW day \in Day, NEW o \in Offers(l, day),
           Purchase(o, day), UNCHANGED <<today, count>>
    PROVE  TermsStand'
<1> SUFFICES ASSUME count'.grants = 0, ~ledger'.late
             PROVE  ledger'.served + Left' = Term * ledger'.terms
  BY DEF TermsStand
<1>1. ~ledger.late /\ day = today
  <2>1. ledger'.late = (ledger.late \/ day # today)
    BY PurchaseIs
  <2> QED
    BY <2>1
<1>2. /\ today \in Nat /\ member.expires \in Nat /\ member.level \in Nat
      /\ ledger.served \in Nat /\ ledger.terms \in Nat /\ l \in Nat \ {0}
  BY Numbers DEF MembersTypeOK, Day, Member, Ledger, Level
<1>3. ledger.served + Left = Term * ledger.terms
  BY <1>1 DEF TermsStand
<1>9. /\ Term * (ledger.terms + 1) = Term * ledger.terms + Term
      /\ Term * ledger.terms \in Nat /\ Term \in Nat
  BY <1>2, Terms, Numbers
<1>4. ledger'.served = ledger.served /\ member'.level = l /\ member'.expires = o.expires
  BY OfferIs, PurchaseIs
<1>5. CASE ~Active(day) /\ o.kind = "purchase" /\ o.expires = day + Term
  <2>1. Left = 0
    BY <1>1, <1>5 DEF Left
  <2>2. Left' = Term
    BY <1>1, <1>2, <1>4, <1>5, Numbers DEF Left, Active
  <2>3. ledger'.terms = ledger.terms + 1
    BY <1>5, PurchaseIs
  <2> QED
    BY <1>2, <1>3, <1>4, <1>9, <2>1, <2>2, <2>3
<1>6. CASE Active(day) /\ o.kind = "renew" /\ o.expires = member.expires + Term
  <2>1. Left = member.expires - today
    BY <1>1, <1>6 DEF Left
  <2>2. Left' = member.expires + Term - today
    BY <1>1, <1>2, <1>4, <1>6, Numbers DEF Left, Active
  <2>3. ledger'.terms = ledger.terms + 1
    BY <1>6, PurchaseIs
  <2> QED
    BY <1>2, <1>3, <1>4, <1>9, <2>1, <2>2, <2>3
<1>7. CASE Active(day) /\ o.kind = "upgrade" /\ o.expires = member.expires
  <2>1. Left = member.expires - today
    BY <1>1, <1>7 DEF Left
  <2>2. Left' = member.expires - today
    BY <1>1, <1>2, <1>4, <1>7 DEF Left, Active
  <2>3. ledger'.terms = ledger.terms
    BY <1>7, PurchaseIs
  <2> QED
    BY <1>2, <1>3, <1>4, <2>1, <2>2, <2>3
<1> QED
  BY <1>5, <1>6, <1>7, OfferIs

LEMMA PaidPurchase ==
    ASSUME MembersTypeOK, PaidUp, NEW l \in Level, NEW day \in Day, NEW o \in Offers(l, day),
           Purchase(o, day), UNCHANGED count
    PROVE  PaidUp'
<1> SUFFICES ASSUME count'.grants = 0 PROVE ledger'.spent >= Price[member'.level]
  BY DEF PaidUp
<1>1. member'.level = l /\ Price[l] \in Nat /\ ledger.spent \in Nat
  BY OfferIs, PurchaseIs, Prices DEF MembersTypeOK, Ledger
<1>2. CASE o.kind = "purchase" /\ o.charge = Price[l]
  BY <1>1, <1>2, PurchaseIs
<1>3. CASE o.kind = "renew" /\ o.charge = Price[l]
  BY <1>1, <1>3, PurchaseIs
<1>4. CASE /\ o.kind = "upgrade" /\ member.level \in Level
           /\ o.charge = Price[l] - Price[member.level]
  <2>1. Price[member.level] \in Nat /\ member.level > 0
    BY <1>4, Prices DEF Level
  <2>2. ledger.spent >= Price[member.level]
    BY <2>1 DEF PaidUp
  <2> QED
    BY <1>1, <1>4, <2>1, <2>2, PurchaseIs
<1> QED
  BY <1>2, <1>3, <1>4, OfferIs

(* A day that passes is served if it was paid for.                         *)
LEMMA TermsDay ==
    ASSUME MembersTypeOK, TermsStand, NextDay
    PROVE  TermsStand'
<1> SUFFICES ASSUME count'.grants = 0, ~ledger'.late
             PROVE  ledger'.served + Left' = Term * ledger'.terms
  BY DEF TermsStand
<1>1. /\ today \in Nat /\ member.expires \in Nat /\ member.level \in Nat
      /\ ledger.served \in Nat /\ ledger.terms \in Nat
  BY DEF MembersTypeOK, Day, Member, Ledger
<1>2. ledger'.terms = ledger.terms /\ ledger'.late = ledger.late
      /\ ledger'.served = IF Active(today) THEN ledger.served + 1 ELSE ledger.served
  BY DEF NextDay, MembersTypeOK, Ledger
<1>3. today' = today + 1 /\ member' = member /\ count' = count
  BY DEF NextDay
<1>4. ledger.served + Left = Term * ledger.terms
  BY <1>2, <1>3 DEF TermsStand
<1>5. CASE Active(today)
  <2>1. Left = member.expires - today
    BY <1>5 DEF Left
  <2>2. Left' = member.expires - today - 1
    BY <1>1, <1>3, <1>5 DEF Left, Active
  <2> QED
    BY <1>1, <1>2, <1>4, <1>5, <2>1, <2>2
<1>6. CASE ~Active(today)
  <2>1. Left = 0 /\ Left' = 0
    BY <1>1, <1>3, <1>6 DEF Left, Active
  <2> QED
    BY <1>1, <1>2, <1>4, <1>6, <2>1
<1> QED
  BY <1>5, <1>6

LEMMA MemberStep ==
    ASSUME MInv, [MembersNext]_membersVars
    PROVE  TermsStand' /\ PaidUp'
<1>0. MembersTypeOK /\ TermsStand /\ PaidUp
  BY DEF MInv
<1>k. ASSUME UNCHANGED <<today, count>>, member'.level = member.level, member'.expires = member.expires,
             ledger'.served = ledger.served, ledger'.terms = ledger.terms,
             ledger'.spent = ledger.spent, ledger'.late = ledger.late
      PROVE  TermsStand' /\ PaidUp'
  <2>1. Left' = Left
    BY <1>k DEF Left, Active
  <2> QED
    BY <1>0, <1>k, <2>1 DEF TermsStand, PaidUp
<1>p. ASSUME NEW l \in Level, NEW day \in Day, NEW o \in Offers(l, day), Purchase(o, day),
             UNCHANGED <<today, count>>
      PROVE  TermsStand' /\ PaidUp'
  BY <1>0, <1>p, TermsPurchase, PaidPurchase
<1>1. ASSUME NEW r \in Reqs, BuyMembership(r) PROVE TermsStand' /\ PaidUp'
  <2>1. memberReq[r].level \in Level /\ memberReq[r].day \in Day
    BY <1>0 DEF MembersTypeOK, MemberReq
  <2> QED
    BY <1>1, <1>k, <1>p, <2>1 DEF BuyMembership
<1>2. CASE ChargeDue
  <2>1. renewer.level \in Level /\ renewer.day \in Day
    BY <1>0 DEF MembersTypeOK, Renewer
  <2> QED
    BY <1>2, <1>k, <1>p, <2>1 DEF ChargeDue
<1>3. CASE NextDay
  <2>1. ledger'.spent = ledger.spent
    BY <1>0, <1>3 DEF NextDay, MembersTypeOK, Ledger
  <2> QED
    BY <1>0, <1>3, <2>1, TermsDay DEF NextDay, PaidUp
<1>4. CASE Grant
  <2>1. count'.grants # 0
    BY <1>0, <1>4 DEF Grant, MembersTypeOK, Count
  <2> QED
    BY <2>1 DEF TermsStand, PaidUp
<1>5. ASSUME NEW s \in Service, Restart(s) PROVE TermsStand' /\ PaidUp'
  <2>1. count'.grants = count.grants
    BY <1>0, <1>5 DEF Restart, MembersTypeOK, Count
  <2>2. /\ ledger'.served = ledger.served /\ ledger'.terms = ledger.terms
        /\ ledger'.spent = ledger.spent /\ ledger'.late = ledger.late
    BY <1>0, <1>5, WrongIs DEF Restart
  <2>3. Left' = Left /\ member' = member
    BY <1>5 DEF Restart, Left, Active
  <2> QED
    BY <1>0, <2>1, <2>2, <2>3 DEF TermsStand, PaidUp
<1>6. ASSUME NEW r \in Reqs, Ask(r) PROVE TermsStand' /\ PaidUp'
  <2>1. count'.grants = count.grants
    BY <1>0, <1>6 DEF Ask, MembersTypeOK, Count
  <2>2. UNCHANGED <<today, member, ledger>>
    BY <1>6 DEF Ask
  <2>3. Left' = Left
    BY <2>2 DEF Left, Active
  <2> QED
    BY <1>0, <2>1, <2>2, <2>3 DEF TermsStand, PaidUp
<1>7. ASSUME NEW r \in Reqs, ComparePin(r) PROVE TermsStand' /\ PaidUp'
  <2>0. PICK s \in Service : s = Serves(r)
    BY ServesIn
  <2>1. ledger' = [ledger EXCEPT !.wrong = ledger'.wrong]
    BY <1>0, <1>7, <2>0, CompareIs DEF MInv
  <2>2. /\ ledger'.served = ledger.served /\ ledger'.terms = ledger.terms
        /\ ledger'.spent = ledger.spent /\ ledger'.late = ledger.late
    BY <1>0, <2>1 DEF MembersTypeOK, Ledger
  <2> QED
    BY <1>7, <1>k, <2>2 DEF ComparePin
<1>8. ASSUME NEW s \in Service, ServeLockout(s) PROVE TermsStand' /\ PaidUp'
  <2>1. /\ ledger'.served = ledger.served /\ ledger'.terms = ledger.terms
        /\ ledger'.spent = ledger.spent /\ ledger'.late = ledger.late
    BY <1>0, <1>8, WrongIs DEF ServeLockout
  <2> QED
    BY <1>8, <1>k, <2>1 DEF ServeLockout
<1>9. ASSUME NEW r \in Reqs, SetAutoRenew(r) PROVE TermsStand' /\ PaidUp'
  <2>1. member'.level = member.level /\ member'.expires = member.expires
    BY <1>0, <1>9 DEF SetAutoRenew, MembersTypeOK, Member
  <2> QED
    BY <1>9, <1>k, <2>1 DEF SetAutoRenew
<1>10. CASE SwitchOff
  <2>1. member'.level = member.level /\ member'.expires = member.expires
    BY <1>0, <1>10 DEF SwitchOff, MembersTypeOK, Member
  <2> QED
    BY <1>10, <1>k, <2>1 DEF SwitchOff
<1>11. ASSUME NEW r \in Reqs, ReadHash(r) \/ Gate(r) \/ SetPinHash(r) PROVE TermsStand' /\ PaidUp'
  BY <1>11, <1>k DEF ReadHash, Gate, SetPinHash
<1>12. CASE ListDue \/ UNCHANGED membersVars
  BY <1>12, <1>k DEF ListDue, membersVars
<1> QED
  BY <1>1, <1>2, <1>3, <1>4, <1>5, <1>6, <1>7, <1>8, <1>9, <1>10, <1>11, <1>12 DEF MembersNext, Renew

-----------------------------------------------------------------------------
LEMMA MInvHolds == MembersInit => MInv
<1> SUFFICES ASSUME MembersInit PROVE MInv
  OBVIOUS
<1>1. MembersTypeOK
  BY Numbers, NoReqType DEF MembersInit, MembersTypeOK, Day, Member, Count, Ledger
<1>2. EntryCounts
  BY Numbers DEF MembersInit, EntryCounts, CountsOf, NoEntry
<1>3. LockBudget
  BY DEF MembersInit, LockBudget, BudgetOf, Locked, NoEntry
<1>4. TermsStand
  BY Numbers DEF MembersInit, TermsStand, Left, Active
<1>5. PaidUp
  BY DEF MembersInit, PaidUp
<1> QED
  BY <1>1, <1>2, <1>3, <1>4, <1>5 DEF MInv

LEMMA MInvKept == MInv /\ [MembersNext]_membersVars => MInv'
<1> SUFFICES ASSUME MInv, [MembersNext]_membersVars PROVE MInv'
  OBVIOUS
<1>1. MembersTypeOK'
  <2>1. CASE UNCHANGED membersVars
    BY <2>1 DEF MInv, MembersTypeOK, membersVars
  <2> QED
    BY <2>1, RequestType, OtherType DEF MembersNext
<1> QED
  BY <1>1, EntryStep, LockStep, MemberStep DEF MInv

LEMMA PaidIs == MembersTypeOK /\ PaidUp => LevelPaid
BY DEF MembersTypeOK, PaidUp, LevelPaid, Active

(* Whatever the tiers cost and however long they last, whoever asks, pays, *)
(* guesses and restarts in whatever order: every day paid for is served or *)
(* to come, a level has its price paid, and at each of the two services a  *)
(* PIN is guessed at as often as locks, and once more by each other        *)
(* request that had passed that service's limiter.                         *)
THEOREM MembersCorrect == MembersSpec => []MemberInv
<1>1. MInv => MemberInv
  BY BudgetHolds, PaidIs DEF MInv, MemberInv
<1> QED
  BY <1>1, MInvHolds, MInvKept, PTL DEF MembersSpec

-----------------------------------------------------------------------------
(* Proofs about Calls: for any roster, any number of calls and requests.    *)

USE DEF Procs

(* The values the actions build are of the right type, and what they keep   *)
(* and change of the value they are built from.                             *)
LEMMA CallTypes ==
    /\ \A u \in Users : NewCall("ringing", u) \in Call
    /\ NewCall("none", None) \in Call
    /\ \A c \in Call : Answered(c) \in Call
    /\ \A c \in Call, s \in Reason \cup {"none"} : Closed(c, s) \in Call
    /\ \A c \in Call : Erase(c) \in Call
  BY DEF NewCall, Answered, Closed, Erase, Call, States, Reason

LEMMA ReqTypes ==
    /\ NoReq \in Req /\ NoReq.pc = "idle"
    /\ \A pc \in {"answer", "decline", "leave"}, u \in Users, i \in Ids,
          s, g \in BOOLEAN : NewReq(pc, u, i, s, g, "none") \in Req
    /\ \A i \in Ids : NewReq("publish", None, i, FALSE, FALSE, "timeout") \in Req
    /\ \A pc, u, i, s, g, x : /\ NewReq(pc, u, i, s, g, x).pc = pc
                              /\ NewReq(pc, u, i, s, g, x).id = i
    /\ \A i : /\ NewReq("publish", None, i, FALSE, FALSE, "timeout").pc = "publish"
              /\ NewReq("publish", None, i, FALSE, FALSE, "timeout").id = i
  BY DEF NoReq, NewReq, Req, Reason

LEMMA AtType ==
  ASSUME NEW r \in Req, NEW s \in Reason \cup {"none"},
         NEW pc \in {"reread", "join", "remaining", "end", "publish", "record"}
  PROVE  At(r, pc, s) \in Req /\ At(r, pc, s).id = r.id /\ At(r, pc, s).pc = pc
  BY DEF At, Req

LEMMA WrittenType ==
  /\ \A n \in Nat, o \in Outcome \cup {"none"} : Written(n, o) \in Record
  /\ \A n, o : Written(n, o).count = n /\ Written(n, o).outcome = o
  BY DEF Written, Record

LEMMA OutcomeType == ASSUME NEW c PROVE CallOutcome(c) \in Outcome
  BY DEF CallOutcome, Outcome

----------------------------------------------------------------------------
LEMMA InitType == Init => TypeOK
  BY CallTypes, ReqTypes, WrittenType DEF Init, TypeOK

(* A request that goes on is well-formed: it still names the same call.     *)
ReqOK ==
    /\ req \in [Procs -> Req]
    /\ \A p \in Procs : req[p].pc # "idle" => req[p].id \in Ids

LEMMA DoneType == ASSUME NEW p \in Procs, ReqOK, Done(p) PROVE ReqOK'
  BY ReqTypes DEF ReqOK, Done

LEMMA GotoType ==
  ASSUME NEW p \in Procs, ReqOK, req[p].pc # "idle",
         NEW pc \in {"reread", "join", "remaining", "end", "publish", "record"},
         NEW s \in Reason \cup {"none"}, Goto(p, pc, s)
  PROVE  ReqOK'
<1>1. At(req[p], pc, s) \in Req /\ At(req[p], pc, s).id = req[p].id
  BY AtType DEF ReqOK
<1> QED
  BY <1>1 DEF ReqOK, Goto

LEMMA StepType ==
  ASSUME NEW p \in Procs, ReqOK, req[p].pc # "idle",
         NEW pc \in {"reread", "join", "remaining", "end", "publish", "record"}, Step(p, pc)
  PROVE  ReqOK'
<1>1. req[p].reason \in Reason \cup {"none"}
  BY DEF ReqOK, Req
<1> QED
  BY <1>1, GotoType DEF Step

LEMMA MarkType ==
  ASSUME NEW p \in Procs, NEW s \in {"accepted", "declined", "left"}, TypeOK, Mark(p, s)
  PROVE  part' \in [Ids -> [Users -> {"none", "invited", "accepted", "declined", "left"}]]
  BY DEF TypeOK, Mark

LEMMA AcceptType ==
  ASSUME NEW p \in Procs, TypeOK, Accept(p)
  PROVE  /\ part' \in [Ids -> [Users -> {"none", "invited", "accepted", "declined", "left"}]]
         /\ deserted' \subseteq Ids
  BY MarkType DEF TypeOK, Accept

LEMMA ServeType == ASSUME NEW p \in Procs, TypeOK, Serve(p) PROVE TypeOK'
<1>0. ReqOK /\ (ReqOK' => (req \in [Procs -> Req])' /\ (\A q \in Procs : req[q].pc # "idle" => req[q].id \in Ids)')
  BY DEF TypeOK, ReqOK
<1>1. CASE Answer(p)
  <2>1. ReqOK'
    BY <1>0, <1>1, DoneType, StepType DEF Answer
  <2>2. call' \in [Ids -> Call]
    BY <1>1, CallTypes DEF Answer, TypeOK
  <2> QED
    BY <1>0, <1>1, <2>1, <2>2, AcceptType DEF Answer, TypeOK
<1>2. CASE Reread(p)
  <2>1. ReqOK'
    BY <1>0, <1>2, DoneType, StepType DEF Reread
  <2> QED
    BY <1>0, <1>2, <2>1 DEF Reread, db, lost, TypeOK
<1>3. CASE Join(p)
  BY <1>0, <1>3, DoneType, AcceptType DEF Join, TypeOK
<1>4. CASE Decline(p)
  <2>1. ReqOK'
    BY <1>0, <1>4, DoneType, GotoType DEF Decline, Reason
  <2> QED
    BY <1>0, <1>4, <2>1, MarkType DEF Decline, TypeOK
<1>5. CASE Leave(p)
  <2>1. ReqOK'
    BY <1>0, <1>5, GotoType DEF Leave, Reason
  <2>2. CASE Mark(p, "left") /\ UNCHANGED faults
    BY <1>0, <1>5, <2>1, <2>2, MarkType DEF Leave, lost, TypeOK
  <2>3. CASE faults' = faults + 1 /\ UNCHANGED part
    BY <1>0, <1>5, <2>1, <2>3 DEF Leave, lost, TypeOK
  <2> QED
    BY <1>5, <2>2, <2>3 DEF Leave
<1>6. CASE Remaining(p)
  <2>1. ReqOK'
    BY <1>0, <1>6, DoneType, StepType DEF Remaining
  <2> QED
    BY <1>0, <1>6, <2>1 DEF Remaining, db, lost, TypeOK
<1>7. CASE End(p)
  <2>1. ReqOK'
    BY <1>0, <1>7, DoneType, StepType DEF End
  <2>2. req[p].id \in Ids /\ req[p].reason \in Reason \cup {"none"}
    BY <1>0, <1>7 DEF End, ReqOK, Req
  <2>3. call' \in [Ids -> Call]
    BY <1>7, <2>2, CallTypes DEF End, TypeOK
  <2> QED
    BY <1>0, <1>7, <2>1, <2>3 DEF End, lost, TypeOK
<1>8. CASE PublishEnded(p)
  <2>1. ReqOK'
    BY <1>0, <1>8, DoneType, StepType DEF PublishEnded
  <2> QED
    BY <1>0, <1>8, <2>1 DEF PublishEnded, db, lost, TypeOK
<1>9. CASE RecordCall(p)
  <2>1. ReqOK'
    BY <1>0, <1>9, DoneType DEF RecordCall
  <2>2. "missed" \in Outcome /\ \A i \in Ids : record[i].count \in Nat
    BY DEF Outcome, TypeOK, Record
  <2>3. record' \in [Ids -> Record]
    BY <1>9, <2>2, OutcomeType, WrittenType DEF RecordCall, TypeOK
  <2> QED
    BY <1>0, <1>9, <2>1, <2>3 DEF RecordCall, lost, TypeOK
<1> QED
  BY <1>1, <1>2, <1>3, <1>4, <1>5, <1>6, <1>7, <1>8, <1>9 DEF Serve

LEMMA SweepType == TypeOK /\ Sweep => TypeOK'
<1> SUFFICES ASSUME TypeOK, Sweep PROVE TypeOK'
  OBVIOUS
<1>1. CASE SweepRinging
  <2>1. \A i \in Ids : Closed(call[i], "timeout") \in Call
    BY CallTypes DEF TypeOK, Reason
  <2> QED
    BY <1>1, <2>1 DEF SweepRinging, lost, TypeOK
<1>2. CASE \E i \in Ids : ReportSwept(i)
  <2>1. PICK i \in Ids : ReportSwept(i)
    BY <1>2
  <2>2. PICK r \in Req : r = NewReq("publish", None, i, FALSE, FALSE, "timeout")
    BY ReqTypes
  <2>3. req' = [req EXCEPT ![Sweeper] = r] /\ r.id \in Ids
    BY <2>1, <2>2, ReqTypes DEF ReportSwept
  <2> QED
    BY <2>1, <2>3 DEF ReportSwept, db, lost, TypeOK
<1> QED
  BY <1>1, <1>2 DEF Sweep

LEMMA NextType == TypeOK /\ [Next]_vars => TypeOK'
<1> SUFFICES ASSUME TypeOK, [Next]_vars PROVE TypeOK'
  OBVIOUS
<1>1. ASSUME NEW i \in Ids, NEW u \in Users, CreateRinging(i, u) PROVE TypeOK'
  <2>1. part' \in [Ids -> [Users -> {"none", "invited", "accepted", "declined", "left"}]]
    BY <1>1 DEF CreateRinging, TypeOK
  <2> QED
    BY <1>1, <2>1, CallTypes DEF CreateRinging, Roster, lost, TypeOK
<1>2. ASSUME NEW i \in Ids, RingTimeout(i) PROVE TypeOK'
  BY <1>2 DEF RingTimeout, lost, TypeOK
<1>3. ASSUME NEW p \in Handlers, NEW pc \in {"answer", "decline", "leave"},
             NEW u \in Users, NEW i \in Ids, Load(p, pc, u, i)
      PROVE  TypeOK'
  <2>1. (call[i].state = "ringing") \in BOOLEAN /\ IsGroup(i) \in BOOLEAN
    BY DEF IsGroup
  <2>2. NewReq(pc, u, i, call[i].state = "ringing", IsGroup(i), "none") \in Req
    BY <2>1, ReqTypes
  <2> QED
    BY <1>3, <2>2, ReqTypes DEF Load, db, lost, TypeOK
<1>4. ASSUME NEW p \in Procs, Fault(p) PROVE TypeOK'
  BY <1>4, ReqTypes DEF Fault, Done, db, lost, TypeOK
<1>5. CASE SweepLost
  BY <1>5 DEF SweepLost, db, lost, TypeOK
<1>6. CASE Crash
  BY <1>6, ReqTypes DEF Crash, db, lost, TypeOK
<1>7. CASE UNCHANGED vars
  BY <1>7 DEF vars, lost, TypeOK
<1>8. ASSUME NEW u \in Users, PurgeUser(u) PROVE TypeOK'
  <2>1. call' \in [Ids -> Call]
    BY <1>8, CallTypes DEF PurgeUser, TypeOK
  <2>2. part' \in [Ids -> [Users -> {"none", "invited", "accepted", "declined", "left"}]]
    BY <1>8 DEF PurgeUser, TypeOK
  <2> QED
    BY <1>8, <2>1, <2>2 DEF PurgeUser, TypeOK
<1> QED
  BY <1>1, <1>2, <1>3, <1>4, <1>5, <1>6, <1>7, <1>8, ServeType, SweepType DEF Next

(* Every variable keeps its type.                                           *)
THEOREM TypeCorrect == Spec => []TypeOK
<1> QED
  BY InitType, NextType, PTL DEF Spec

----------------------------------------------------------------------------
(* What the constructors of a call keep and change.                         *)
LEMMA CallFields ==
    /\ \A u : NewCall("ringing", u).state = "ringing" /\ ~NewCall("ringing", u).answered
    /\ NewCall("none", None).state = "none" /\ ~NewCall("none", None).answered
    /\ \A c \in Call : Answered(c).state = "active"
    /\ \A c \in Call, s \in Reason \cup {"none"} :
         Closed(c, s).state = "ended" /\ Closed(c, s).answered = c.answered
         /\ Closed(c, s).reason = s
    /\ \A c \in Call : /\ Erase(c).state = "erased" /\ Erase(c).answered = c.answered
                        /\ Erase(c).reason = c.reason
  BY DEF NewCall, Answered, Closed, Erase, Call

LEMMA ClosedMissed ==
  ASSUME NEW c \in Call, ~c.answered PROVE CallOutcome(Closed(c, "timeout")) = "missed"
<1>1. ~Closed(c, "timeout").answered /\ Closed(c, "timeout").reason = "timeout"
  BY CallFields DEF Reason
<1> QED
  BY <1>1 DEF CallOutcome

(* A step by which nobody becomes the reporter of a call, and which leaves  *)
(* the calls and their reports alone, keeps the invariant: giving up halfway*)
(* can only lose a report.                                                  *)
LEMMA QuietStep ==
  ASSUME TypeOK, CallInv, UNCHANGED <<call, ended, record>>, swept' \subseteq swept,
         \A p \in Procs : req'[p] = req[p] \/ req'[p].pc \notin {"publish", "record"},
         req'[Sweeper] = req[Sweeper] \/ req'[Sweeper].pc = "idle"
  PROVE  CallInv'
<1>1. \A p \in Procs, i \in Ids : Reporting(p, i)' => Reporting(p, i) /\ req'[p] = req[p]
  BY DEF Reporting
<1>2. OneLiveCall'
  BY DEF CallInv, OneLiveCall, Live, Over
<1>3. ReportedOnce'
  BY DEF CallInv, ReportedOnce, CallOutcome, Over
<1>4. OneReporter'
  BY <1>1 DEF CallInv, OneReporter, TypeOK
<1>5. ReportPending'
  BY <1>1 DEF CallInv, ReportPending, Over
<1>6. SweptMissed'
  BY <1>1 DEF CallInv, SweptMissed, CallOutcome, Over
<1> QED
  BY <1>2, <1>3, <1>4, <1>5, <1>6 DEF CallInv

(* One request goes on to a statement that reports nothing.                 *)
LEMMA QuietRequest ==
  ASSUME TypeOK, CallInv, NEW p \in Procs, NEW r, req' = [req EXCEPT ![p] = r],
         r.pc \notin {"publish", "record"}, p = Sweeper => r.pc = "idle",
         UNCHANGED <<call, ended, record, swept>>
  PROVE  CallInv'
<1>1. req'[p] = r /\ \A q \in Procs : q # p => req'[q] = req[q]
  BY DEF TypeOK
<1> QED
  BY <1>1, QuietStep

(* A call that is live has not been reported, nobody is reporting it.       *)
LEMMA LiveUnreported ==
  ASSUME TypeOK, CallInv, NEW i \in Ids, ~Over(i)
  PROVE  /\ ended[i] = 0 /\ record[i].count = 0
         /\ i \notin swept
         /\ \A p \in Procs : ~Reporting(p, i)
  BY DEF CallInv, ReportPending, Over

LEMMA InitInv == Init => CallInv
<1> SUFFICES ASSUME Init PROVE CallInv
  OBVIOUS
<1>1. \A i \in Ids : call[i].state = "none" /\ ~call[i].answered /\ ended[i] = 0 /\ record[i].count = 0
  BY CallFields, WrittenType DEF Init
<1>2. swept = {} /\ \A p \in Procs : req[p].pc = "idle"
  BY ReqTypes DEF Init
<1> QED
  BY <1>1, <1>2 DEF CallInv, OneLiveCall, Live, ReportedOnce, OneReporter, ReportPending,
    SweptMissed, Reporting, Over

LEMMA CreateInv ==
  ASSUME TypeOK, CallInv, NEW i \in Ids, NEW u \in Users, CreateRinging(i, u)
  PROVE  CallInv'
<1>1. /\ call'[i] = NewCall("ringing", u)
      /\ \A j \in Ids : j # i => call'[j] = call[j]
      /\ UNCHANGED <<req, swept, ended, record>>
      /\ call[i].state = "none"
      /\ swept \subseteq Ids
      /\ \A j \in Ids : ~Live(j)
  BY DEF CreateRinging, TypeOK, LineFree
<1>2. call'[i].state = "ringing" /\ ~call'[i].answered
  BY <1>1, CallFields
<1>3. ended[i] = 0 /\ record[i].count = 0 /\ i \notin swept /\ \A p \in Procs : ~Reporting(p, i)
  BY <1>1, LiveUnreported DEF Over
<1>4. \A p \in Procs, j \in Ids : Reporting(p, j)' <=> Reporting(p, j)
  BY <1>1 DEF Reporting
<1>a. \A j \in Ids : j # i => CallOutcome(call'[j]) = CallOutcome(call[j])
  BY <1>1
<1>5. OneLiveCall'
  BY <1>1 DEF OneLiveCall, Live, Over
<1>6. ReportedOnce'
  BY <1>1, <1>a, <1>3 DEF CallInv, ReportedOnce, Over
<1>7. OneReporter'
  BY <1>1, <1>4 DEF CallInv, OneReporter
<1>8. ReportPending'
  BY <1>1, <1>2, <1>3, <1>4 DEF CallInv, ReportPending, Over
<1>9. SweptMissed'
  BY <1>1, <1>a, <1>2, <1>3, <1>4 DEF CallInv, SweptMissed, Over
<1> QED
  BY <1>5, <1>6, <1>7, <1>8, <1>9 DEF CallInv

LEMMA AnswerInv ==
  ASSUME TypeOK, CallInv, NEW p \in Procs, Answer(p) PROVE CallInv'
<1> DEFINE i == req[p].id
<1>0. i \in Ids /\ p # Sweeper
  BY DEF Answer, TypeOK, CallInv, SweptMissed, Over
<1>1. CASE MayAnswer(i)
  <2>1. /\ call'[i] = Answered(call[i])
        /\ \A j \in Ids : j # i => call'[j] = call[j]
        /\ req'[p] = NoReq
        /\ \A q \in Procs : q # p => req'[q] = req[q]
        /\ UNCHANGED <<swept, ended, record>>
        /\ call[i].state = "ringing"
        /\ swept \subseteq Ids
    BY <1>0, <1>1 DEF Answer, Done, MayAnswer, TypeOK, Over
  <2>a. \A j \in Ids : j # i => CallOutcome(call'[j]) = CallOutcome(call[j])
    BY <2>1
  <2>2. call'[i].state = "active"
    BY <1>0, <2>1, CallFields DEF TypeOK
  <2>3. ended[i] = 0 /\ record[i].count = 0 /\ i \notin swept /\ \A q \in Procs : ~Reporting(q, i)
    BY <1>0, <2>1, LiveUnreported DEF Over
  <2>4. \A q \in Procs, j \in Ids : Reporting(q, j)' => Reporting(q, j) /\ req'[q] = req[q]
    BY <2>1, ReqTypes DEF Reporting
  <2>5. OneLiveCall'
    BY <2>1, <2>2 DEF CallInv, OneLiveCall, Live, Over
  <2>6. ReportedOnce'
    BY <2>1, <2>a, <2>3 DEF CallInv, ReportedOnce, Over
  <2>7. OneReporter'
    BY <2>1, <2>4 DEF CallInv, OneReporter
  <2>8. ReportPending'
    BY <2>1, <2>2, <2>3, <2>4 DEF CallInv, ReportPending, Over
  <2>9. SweptMissed'
    BY <1>0, <2>1, <2>a, <2>2, <2>3, <2>4 DEF CallInv, SweptMissed, Over
  <2> QED
    BY <2>5, <2>6, <2>7, <2>8, <2>9 DEF CallInv
<1>2. CASE ~MayAnswer(i)
  <2>1. At(req[p], "reread", req[p].reason).pc = "reread"
    BY AtType DEF TypeOK, Req
  <2> QED
    BY <1>0, <1>2, <2>1, QuietRequest DEF Answer, Step, Goto
<1> QED
  BY <1>1, <1>2

LEMMA EndInv ==
  ASSUME TypeOK, CallInv, NEW p \in Procs, End(p) PROVE CallInv'
<1> DEFINE i == req[p].id
<1>0. i \in Ids /\ p # Sweeper /\ req[p] \in Req /\ req[p].reason \in Reason \cup {"none"}
  BY DEF End, TypeOK, CallInv, SweptMissed, Req, Over
<1>1. CASE MayEnd(i)
  <2>1. /\ call'[i] = Closed(call[i], req[p].reason)
        /\ \A j \in Ids : j # i => call'[j] = call[j]
        /\ req'[p] = At(req[p], "publish", req[p].reason)
        /\ \A q \in Procs : q # p => req'[q] = req[q]
        /\ UNCHANGED <<swept, ended, record>>
        /\ ~Over(i)
        /\ swept \subseteq Ids
    BY <1>0, <1>1 DEF End, Step, Goto, MayEnd, Live, TypeOK, Over
  <2>a. \A j \in Ids : j # i => CallOutcome(call'[j]) = CallOutcome(call[j])
    BY <2>1
  <2>2. call'[i].state = "ended"
    BY <1>0, <2>1, CallFields DEF TypeOK
  <2>3. ended[i] = 0 /\ record[i].count = 0 /\ i \notin swept /\ \A q \in Procs : ~Reporting(q, i)
    BY <1>0, <2>1, LiveUnreported DEF Over
  <2>4. req'[p].pc = "publish" /\ req'[p].id = i
    <3>1. At(req[p], "publish", req[p].reason).id = req[p].id
          /\ At(req[p], "publish", req[p].reason).pc = "publish"
      BY <1>0, AtType
    <3> QED
      BY <2>1, <3>1
  <2>5. \A q \in Procs, j \in Ids :
          Reporting(q, j)' <=> IF q = p THEN j = i ELSE Reporting(q, j)
    BY <2>1, <2>4 DEF Reporting
  <2>6. OneLiveCall'
    BY <2>1, <2>2 DEF CallInv, OneLiveCall, Live, Over
  <2>7. ReportedOnce'
    BY <2>1, <2>a, <2>3 DEF CallInv, ReportedOnce, Over
  <2>8. OneReporter'
    BY <2>1, <2>3, <2>5 DEF CallInv, OneReporter
  <2>9. ReportPending'
    BY <2>1, <2>2, <2>3, <2>4, <2>5 DEF CallInv, ReportPending, Over
  <2>10. SweptMissed'
    BY <1>0, <2>1, <2>a, <2>2, <2>3, <2>5 DEF CallInv, SweptMissed, Over
  <2> QED
    BY <2>6, <2>7, <2>8, <2>9, <2>10 DEF CallInv
<1>2. CASE ~MayEnd(i)
  BY <1>0, <1>2, ReqTypes, QuietRequest DEF End, Done
<1> QED
  BY <1>1, <1>2

(* The event goes out.                                                     *)
Published(p) ==
    /\ req[p].pc = "publish"
    /\ ended' = [ended EXCEPT ![req[p].id] = @ + 1]
    /\ Step(p, "record")
    /\ UNCHANGED <<db, swept>>

LEMMA PublishedInv ==
  ASSUME TypeOK, CallInv, NEW p \in Procs, Published(p) PROVE CallInv'
<1> DEFINE i == req[p].id
<1>0. i \in Ids /\ req[p] \in Req /\ req[p].reason \in Reason \cup {"none"} /\ swept \subseteq Ids
  BY DEF Published, TypeOK, Req
<1>1. Reporting(p, i) /\ req[p].pc = "publish"
  BY DEF Reporting, Published
<1>2. /\ Over(i) /\ ended[i] = 0 /\ record[i].count = 0
      /\ i \notin swept
      /\ \A q \in Procs : q # p => ~Reporting(q, i)
  BY <1>0, <1>1 DEF CallInv, ReportPending, OneReporter, Over
<1>3. /\ ended'[i] = 1
      /\ \A j \in Ids : j # i => ended'[j] = ended[j]
      /\ req'[p] = At(req[p], "record", req[p].reason)
      /\ \A q \in Procs : q # p => req'[q] = req[q]
      /\ UNCHANGED <<call, record, swept>>
  BY <1>0, <1>2 DEF Published, Step, Goto, TypeOK, db
<1>4. req'[p].pc = "record" /\ req'[p].id = i
  <2>1. At(req[p], "record", req[p].reason).id = req[p].id
        /\ At(req[p], "record", req[p].reason).pc = "record"
    BY <1>0, AtType
  <2> QED
    BY <1>3, <2>1
<1>5. \A q \in Procs, j \in Ids : Reporting(q, j)' <=> Reporting(q, j)
  BY <1>1, <1>3, <1>4 DEF Reporting
<1>6. \A j \in Ids : CallOutcome(call'[j]) = CallOutcome(call[j])
  BY <1>3
<1>7. OneLiveCall'
  BY <1>3 DEF CallInv, OneLiveCall, Live, Over
<1>8. ReportedOnce'
  BY <1>2, <1>3, <1>6 DEF CallInv, ReportedOnce, Over
<1>9. OneReporter'
  BY <1>0, <1>3, <1>5 DEF CallInv, OneReporter
<1>10. ReportPending'
  <2>1. (\A j \in swept : Over(j) /\ ended[j] = 0 /\ record[j].count = 0)'
    BY <1>0, <1>2, <1>3 DEF CallInv, ReportPending, Over
  <2>2. ASSUME NEW q \in Procs, NEW j \in Ids, Reporting(q, j)'
        PROVE  (/\ Over(j)
                /\ record[j].count = 0
                /\ ended[j] = IF req[q].pc = "publish" THEN 0 ELSE 1)'
    <3>1. Reporting(q, j)
      BY <1>5, <2>2
    <3>2. CASE q = p
      BY <1>2, <1>3, <1>4, <3>1, <3>2 DEF Reporting, Over
    <3>3. CASE q # p
      BY <1>2, <1>3, <3>1, <3>3 DEF CallInv, ReportPending, Over
    <3> QED
      BY <3>2, <3>3
  <2>3. (\A j \in Ids : ~Over(j) => ended[j] = 0 /\ record[j].count = 0)'
    BY <1>2, <1>3 DEF CallInv, ReportPending, Over
  <2> QED
    BY <2>1, <2>2, <2>3 DEF ReportPending, Over
<1>11. SweptMissed'
  <2>1. req'[Sweeper].pc \in {"idle", "publish", "record"}
    BY <1>3, <1>4 DEF CallInv, SweptMissed, Over
  <2> QED
    BY <1>0, <1>3, <1>5, <1>6, <2>1 DEF CallInv, SweptMissed, Over
<1> QED
  BY <1>7, <1>8, <1>9, <1>10, <1>11 DEF CallInv

LEMMA PublishInv ==
  ASSUME TypeOK, CallInv, NEW p \in Procs, PublishEnded(p) PROVE CallInv'
<1>1. CASE Erased(req[p].id) /\ p # Sweeper /\ Done(p) /\ UNCHANGED ended
  BY <1>1, ReqTypes, QuietRequest DEF PublishEnded, Done, db
<1>2. CASE ~(Erased(req[p].id) /\ p # Sweeper /\ Done(p) /\ UNCHANGED ended)
  <2>1. Published(p)
    BY <1>2 DEF PublishEnded, Published
  <2> QED BY <2>1, PublishedInv
<1> QED BY <1>1, <1>2

LEMMA RecordedInv ==
  ASSUME TypeOK, CallInv, NEW p \in Procs, RecordCall(p), ~Erased(req[p].id)
  PROVE  CallInv'
<1> DEFINE i == req[p].id
<1>0. i \in Ids /\ swept \subseteq Ids
  BY DEF RecordCall, TypeOK
<1>1. Reporting(p, i) /\ req[p].pc = "record"
  BY DEF Reporting, RecordCall
<1>2. /\ Over(i) /\ ended[i] = 1 /\ record[i].count = 0
      /\ i \notin swept
      /\ \A q \in Procs : q # p => ~Reporting(q, i)
  BY <1>0, <1>1 DEF CallInv, ReportPending, OneReporter, Over
<1>3. /\ record'[i] = Written(record[i].count + 1,
                              IF p = Sweeper THEN "missed" ELSE CallOutcome(call[i]))
      /\ \A j \in Ids : j # i => record'[j] = record[j]
      /\ req'[p] = NoReq
      /\ \A q \in Procs : q # p => req'[q] = req[q]
      /\ UNCHANGED <<call, ended, swept>>
  BY <1>0 DEF RecordCall, Done, TypeOK
<1>4. record'[i].count = 1 /\ record'[i].outcome = CallOutcome(call[i])
  <2>1. p = Sweeper => CallOutcome(call[i]) = "missed"
    BY <1>0, <1>1 DEF CallInv, SweptMissed, Over
  <2>2. record'[i] = Written(1, CallOutcome(call[i]))
    BY <1>2, <1>3, <2>1
  <2> QED
    BY <2>2, WrittenType
<1>5. \A q \in Procs, j \in Ids : Reporting(q, j)' => Reporting(q, j) /\ q # p /\ j # i
  BY <1>0, <1>2, <1>3, ReqTypes DEF Reporting
<1>6. \A j \in Ids : CallOutcome(call'[j]) = CallOutcome(call[j])
  BY <1>3
<1>7. OneLiveCall'
  BY <1>3 DEF CallInv, OneLiveCall, Live, Over
<1>8. ReportedOnce'
  BY <1>2, <1>3, <1>4, <1>6 DEF CallInv, ReportedOnce, Over
<1>9. OneReporter'
  BY <1>0, <1>3, <1>5 DEF CallInv, OneReporter
<1>10. ReportPending'
  BY <1>0, <1>2, <1>3, <1>5 DEF CallInv, ReportPending, Over
<1>11. SweptMissed'
  <2>1. req'[Sweeper].pc \in {"idle", "publish", "record"}
    BY <1>3, ReqTypes DEF CallInv, SweptMissed, Over
  <2> QED
    BY <1>0, <1>3, <1>5, <1>6, <2>1 DEF CallInv, SweptMissed, Over
<1> QED
  BY <1>7, <1>8, <1>9, <1>10, <1>11 DEF CallInv

LEMMA RecordInv ==
  ASSUME TypeOK, CallInv, NEW p \in Procs, RecordCall(p) PROVE CallInv'
<1>a. CASE Erased(req[p].id)
  BY <1>a, ReqTypes, QuietRequest DEF RecordCall, Done
<1>b. CASE ~Erased(req[p].id)
  BY <1>b, RecordedInv
<1> QED BY <1>a, <1>b

LEMMA SweepRingingInv == ASSUME TypeOK, CallInv, SweepRinging PROVE CallInv'
<1> DEFINE due == {i \in overdue : Sweepable(i)}
<1>1. /\ due \subseteq Ids
      /\ swept = {} /\ swept' = due
      /\ \A i \in due : call[i].state = "ringing" /\ ~call[i].answered
      /\ \A i \in due : call'[i] = Closed(call[i], "timeout")
      /\ \A i \in Ids \ due : call'[i] = call[i]
      /\ UNCHANGED <<req, ended, record>>
  BY DEF SweepRinging, Sweepable, TypeOK, CallInv, SweptMissed, Over
<1>2. \A i \in due : call'[i].state = "ended" /\ CallOutcome(call'[i]) = "missed"
                     /\ call'[i].answered = call[i].answered
  BY <1>1, CallFields, ClosedMissed DEF TypeOK, Reason
<1>3. \A i \in due : ended[i] = 0 /\ record[i].count = 0 /\ \A p \in Procs : ~Reporting(p, i)
  BY <1>1, LiveUnreported DEF Over
<1>4. \A p \in Procs, i \in Ids : Reporting(p, i)' <=> Reporting(p, i)
  BY <1>1 DEF Reporting
<1>5. \A i \in Ids \ due : CallOutcome(call'[i]) = CallOutcome(call[i])
  BY <1>1
<1>6. OneLiveCall'
  BY <1>1, <1>2 DEF CallInv, OneLiveCall, Live, Over
<1>7. ReportedOnce'
  BY <1>1, <1>3, <1>5 DEF CallInv, ReportedOnce, Over
<1>8. OneReporter'
  BY <1>1, <1>3, <1>4 DEF CallInv, OneReporter
<1>9. ReportPending'
  BY <1>1, <1>2, <1>3, <1>4 DEF CallInv, ReportPending, Over
<1>10. SweptMissed'
  BY <1>1, <1>2, <1>3, <1>4, <1>5 DEF CallInv, SweptMissed, Over
<1> QED
  BY <1>6, <1>7, <1>8, <1>9, <1>10 DEF CallInv

LEMMA ReportSweptInv ==
  ASSUME TypeOK, CallInv, NEW i \in Ids, ReportSwept(i) PROVE CallInv'
<1>1. /\ i \in swept /\ swept \subseteq Ids
      /\ swept' = swept \ {i}
      /\ req'[Sweeper] = NewReq("publish", None, i, FALSE, FALSE, "timeout")
      /\ \A q \in Procs : q # Sweeper => req'[q] = req[q]
      /\ UNCHANGED <<call, ended, record>>
  BY DEF ReportSwept, TypeOK, db
<1>2. req'[Sweeper].pc = "publish" /\ req'[Sweeper].id = i
  <2>1. PICK r : r = NewReq("publish", None, i, FALSE, FALSE, "timeout")
    OBVIOUS
  <2>2. r.pc = "publish" /\ r.id = i
    BY <2>1, ReqTypes
  <2> QED
    BY <1>1, <2>1, <2>2
<1>3. /\ Over(i) /\ ended[i] = 0 /\ record[i].count = 0
      /\ \A q \in Procs : ~Reporting(q, i)
      /\ CallOutcome(call[i]) = "missed"
  BY <1>1 DEF CallInv, ReportPending, OneReporter, SweptMissed, Over
<1>4. \A q \in Procs, j \in Ids :
        Reporting(q, j)' <=> IF q = Sweeper THEN j = i ELSE Reporting(q, j)
  BY <1>1, <1>2 DEF Reporting
<1>5. \A j \in Ids : CallOutcome(call'[j]) = CallOutcome(call[j])
  BY <1>1
<1>6. OneLiveCall'
  BY <1>1 DEF CallInv, OneLiveCall, Live, Over
<1>7. ReportedOnce'
  BY <1>1, <1>5 DEF CallInv, ReportedOnce, Over
<1>8. OneReporter'
  BY <1>1, <1>3, <1>4 DEF CallInv, OneReporter
<1>9. ReportPending'
  BY <1>1, <1>2, <1>3, <1>4 DEF CallInv, ReportPending, Over
<1>10. SweptMissed'
  BY <1>1, <1>2, <1>3, <1>4, <1>5 DEF CallInv, SweptMissed, Over
<1> QED
  BY <1>6, <1>7, <1>8, <1>9, <1>10 DEF CallInv

(* Every statement of a request keeps the invariant.                         *)
LEMMA ServeInv == ASSUME TypeOK, CallInv, NEW p \in Procs, Serve(p) PROVE CallInv'
<1>0. req[p] \in Req /\ \A pc \in {"reread", "join", "remaining", "end"}, s \in Reason \cup {"none"} :
        At(req[p], pc, s).pc = pc
  BY AtType DEF TypeOK
<1>1. req[p].reason \in Reason \cup {"none"}
  BY <1>0 DEF Req
<1>2. p = Sweeper => req[p].pc \in {"idle", "publish", "record"}
  BY DEF CallInv, SweptMissed, Over
<1>3. CASE Answer(p)
  BY <1>3, AnswerInv
<1>4. CASE Reread(p)
  BY <1>0, <1>1, <1>2, <1>4, ReqTypes, QuietRequest DEF Reread, Step, Goto, Done, db
<1>5. CASE Join(p)
  BY <1>2, <1>5, ReqTypes, QuietRequest DEF Join, Done
<1>6. CASE Decline(p)
  BY <1>0, <1>2, <1>6, ReqTypes, QuietRequest DEF Decline, Goto, Done, Reason
<1>7. CASE Leave(p)
  BY <1>0, <1>2, <1>7, QuietRequest DEF Leave, Goto, Reason
<1>8. CASE Remaining(p)
  BY <1>0, <1>1, <1>2, <1>8, ReqTypes, QuietRequest DEF Remaining, Step, Goto, Done, db
<1>9. CASE End(p)
  BY <1>9, EndInv
<1>10. CASE PublishEnded(p)
  BY <1>10, PublishInv
<1>11. CASE RecordCall(p)
  BY <1>11, RecordInv
<1> QED
  BY <1>3, <1>4, <1>5, <1>6, <1>7, <1>8, <1>9, <1>10, <1>11 DEF Serve

(* The calls that go with their initiator take nobody's report along but   *)
(* their own.                                                              *)
LEMMA PurgeInv == ASSUME TypeOK, CallInv, NEW u \in Users, PurgeUser(u) PROVE CallInv'
<1> DEFINE own == {i \in Ids : call[i].initiator = u}
<1>1. /\ \A i \in Ids : call'[i] = IF i \in own THEN Erase(call[i]) ELSE call[i]
      /\ UNCHANGED <<req, swept, ended, record>>
      /\ \A i \in Ids : call[i] \in Call
      /\ swept \subseteq Ids
  BY DEF PurgeUser, TypeOK
<1> HIDE DEF own
<1>2. \A i \in Ids : /\ call'[i].state \in {call[i].state, "erased"}
                     /\ call'[i].answered = call[i].answered
                     /\ call'[i].reason = call[i].reason
  BY <1>1, CallFields
<1>3. \A i \in Ids : CallOutcome(call'[i]) = CallOutcome(call[i])
  BY <1>2 DEF CallOutcome
<1>4. \A p \in Procs, i \in Ids : Reporting(p, i)' <=> Reporting(p, i)
  BY <1>1 DEF Reporting
<1>5. OneLiveCall'
  BY <1>2 DEF CallInv, OneLiveCall, Live
<1>6. ReportedOnce'
  BY <1>1, <1>2, <1>3 DEF CallInv, ReportedOnce, Over
<1>7. OneReporter'
  BY <1>1, <1>4 DEF CallInv, OneReporter
<1>8. ReportPending'
  BY <1>1, <1>2, <1>4 DEF CallInv, ReportPending, Over
<1>9. SweptMissed'
  BY <1>1, <1>2, <1>3, <1>4 DEF CallInv, SweptMissed, Over
<1> QED
  BY <1>5, <1>6, <1>7, <1>8, <1>9 DEF CallInv

LEMMA NextInv == TypeOK /\ CallInv /\ [Next]_vars => CallInv'
<1> SUFFICES ASSUME TypeOK, CallInv, [Next]_vars PROVE CallInv'
  OBVIOUS
<1>1. ASSUME NEW i \in Ids, NEW u \in Users, CreateRinging(i, u) PROVE CallInv'
  BY <1>1, CreateInv
<1>2. ASSUME NEW i \in Ids, RingTimeout(i) PROVE CallInv'
  BY <1>2, QuietStep DEF RingTimeout
<1>3. ASSUME NEW p \in Handlers, NEW pc \in {"answer", "decline", "leave"},
             NEW u \in Users, NEW i \in Ids, Load(p, pc, u, i)
      PROVE  CallInv'
  <2>1. NewReq(pc, u, i, call[i].state = "ringing", IsGroup(i), "none").pc = pc
    BY ReqTypes
  <2>2. p \in Procs /\ p # Sweeper
    BY CallsAssumption
  <2> QED
    BY <1>3, <2>1, <2>2, QuietRequest DEF Load, db
<1>4. CASE \E p \in Procs : Serve(p)
  BY <1>4, ServeInv
<1>5. CASE Sweep
  BY <1>5, SweepRingingInv, ReportSweptInv DEF Sweep
<1>6. ASSUME NEW p \in Procs, Fault(p) PROVE CallInv'
  BY <1>6, ReqTypes, QuietRequest DEF Fault, Done, db
<1>7. CASE SweepLost
  BY <1>7, QuietStep DEF SweepLost, db
<1>8. CASE Crash
  BY <1>8, ReqTypes, QuietStep DEF Crash, db
<1>9. CASE UNCHANGED vars
  BY <1>9, QuietStep DEF vars
<1>10. CASE \E u \in Users : PurgeUser(u)
  BY <1>10, PurgeInv
<1> QED
  BY <1>1, <1>2, <1>3, <1>4, <1>5, <1>6, <1>7, <1>8, <1>9, <1>10 DEF Next

(* At most one call is live, each is reported at most once, by the one that *)
(* ended it, and with the outcome it really had.                            *)
THEOREM CallsHold == Spec => []CallInv
<1> QED
  BY InitType, NextType, InitInv, NextInv, PTL DEF Spec

----------------------------------------------------------------------------
LEMMA EndedKept ==
  ASSUME TypeOK, [Next]_vars, NEW i \in Ids, Over(i)
  PROVE  call'[i] \in {call[i], Erase(call[i])}
<1>1. ASSUME NEW j \in Ids, NEW u \in Users, CreateRinging(j, u) PROVE call'[i] = call[i]
  BY <1>1 DEF CreateRinging, TypeOK, Over
<1>2. ASSUME NEW p \in Procs, Serve(p) PROVE call'[i] = call[i]
  <2>1. CASE Answer(p)
    BY <2>1 DEF Answer, MayAnswer, TypeOK, Over
  <2>2. CASE End(p)
    BY <2>2 DEF End, MayEnd, Live, TypeOK, Over
  <2> QED
    BY <1>2, <2>1, <2>2
    DEF Serve, Reread, Join, Decline, Leave, Remaining, PublishEnded, RecordCall, db
<1>3. CASE SweepRinging
  BY <1>3 DEF SweepRinging, Sweepable, Over
<1>4. ASSUME NEW u \in Users, PurgeUser(u) PROVE call'[i] \in {call[i], Erase(call[i])}
  BY <1>4 DEF PurgeUser
<1> QED
  BY <1>1, <1>2, <1>3, <1>4
  DEF Next, RingTimeout, Load, Sweep, ReportSwept, Fault, SweepLost, Crash, vars, db

(* A late answer, decline, hangup or sweep never changes how a call ended.  *)
THEOREM EndingsFinal == Spec => EndedIsFinal
<1>1. TypeOK /\ [Next]_vars
      => [\A i \in Ids : Over(i) => call'[i] \in {call[i], Erase(call[i])}]_vars
  BY EndedKept
<1> QED
  BY <1>1, TypeCorrect, PTL DEF Spec, EndedIsFinal

----------------------------------------------------------------------------
(* LastHangupEnds made inductive: while a call is live and no statement    *)
(* has failed, somebody is in it, or it was left otherwise, or a request   *)
(* that left it has still to count who remains, or to end it.              *)
Joining == {"answer", "reread", "join", "decline", "leave"}

NamesUser == \A p \in Procs : req[p].pc \in Joining => req[p].user \in Users

Present(i) == i \in deserted \/ \E u \in Users : part[i][u] = "accepted"

Ending(p, i) == req[p].id = i /\ req[p].pc \in {"remaining", "end"}

Attended ==
    \A i \in Ids :
      Live(i) /\ faults = 0 => Present(i) \/ \E p \in Procs : Ending(p, i)

LeaveInv == NamesUser /\ Attended

(* A request goes on, or ends, and keeps its user and its call.            *)
LEMMA OneRequest ==
  ASSUME TypeOK, LeaveInv, NEW p \in Procs, NEW r, req' = [req EXCEPT ![p] = r],
         r.pc \in Joining => r.user \in Users
  PROVE  /\ NamesUser'
         /\ req'[p] = r
         /\ \A q \in Procs : q # p => req'[q] = req[q]
<1>1. req'[p] = r /\ \A q \in Procs : q # p => req'[q] = req[q]
  BY DEF TypeOK
<1> QED  BY <1>1 DEF LeaveInv, NamesUser

(* The fields of the requests the actions build.                           *)
LEMMA ReqFields ==
    /\ NoReq.pc \notin Joining
    /\ \A pc, u, i, s, g, x : /\ NewReq(pc, u, i, s, g, x).pc = pc
                              /\ NewReq(pc, u, i, s, g, x).user = u
                              /\ NewReq(pc, u, i, s, g, x).id = i
    /\ \A i : NewReq("publish", None, i, FALSE, FALSE, "timeout").pc = "publish"
    /\ \A r \in Req : \A pc, x : /\ At(r, pc, x).pc = pc
                                 /\ At(r, pc, x).user = r.user
                                 /\ At(r, pc, x).id = r.id
  BY DEF NoReq, NewReq, At, Req, Joining

(* A request writes its user's row, and nobody else's.                     *)
LEMMA MarkFields ==
  ASSUME TypeOK, NEW p \in Procs, NEW s, Mark(p, s), req[p].id \in Ids
  PROVE  /\ req[p].user \in Users /\ Listed(p) => part'[req[p].id][req[p].user] = s
         /\ ~Listed(p) => UNCHANGED part
         /\ \A i \in Ids, u \in Users :
              i # req[p].id \/ u # req[p].user => part'[i][u] = part[i][u]
  BY DEF TypeOK, Mark

(* A statement of a request keeps the invariant when it makes no call      *)
(* active without company, and when nobody, itself included, stops to      *)
(* attend a call unless it goes on to end it.                              *)
LEMMA LeaveStep ==
  ASSUME TypeOK, LeaveInv, NEW p \in Procs, NEW i, i = req[p].id,
         NEW r, req' = [req EXCEPT ![p] = r], r.pc \in Joining => r.user \in Users,
         \/ req[p].pc \notin {"remaining", "end"}
         \/ r.pc = "end" /\ r.id = i
         \/ i \in Ids => ~Live(i)' \/ Present(i)',
         \A j \in Ids : Live(j)' => Live(j) \/ Present(j)',
         \A j \in Ids : Present(j) =>
           \/ Present(j)'
           \/ faults' # 0
           \/ j = i /\ r.id = i /\ r.pc \in {"remaining", "end"},
         faults' = 0 => faults = 0
  PROVE  LeaveInv'
<1>1. NamesUser' /\ req'[p] = r /\ \A q \in Procs : q # p => req'[q] = req[q]
  BY OneRequest
<1>2. ASSUME NEW j \in Ids, Live(j)', faults' = 0
      PROVE  Present(j)' \/ \E q \in Procs : Ending(q, j)'
  <2>1. CASE Present(j)
    BY <1>1, <1>2, <2>1 DEF Ending
  <2>2. CASE ~Present(j) /\ ~Present(j)'
    <3>1. PICK q \in Procs : Ending(q, j)
      BY <1>2, <2>2 DEF LeaveInv, Attended
    <3>2. CASE q # p
      BY <1>1, <3>1, <3>2 DEF Ending
    <3>3. CASE q = p
      <4>1. r.pc = "end" /\ r.id = j
        BY <1>2, <2>2, <3>1, <3>3 DEF Ending
      <4> QED  BY <1>1, <4>1 DEF Ending
    <3> QED  BY <3>2, <3>3
  <2> QED  BY <2>1, <2>2
<1> QED  BY <1>1, <1>2 DEF LeaveInv, Attended

(* Who joins is in the call, unless the row has gone; who writes anything  *)
(* else takes nobody but itself out of it.                                 *)
LEMMA AcceptCompany ==
  ASSUME TypeOK, NEW p \in Procs, Accept(p), req[p].id \in Ids, req[p].user \in Users
  PROVE  \A j \in Ids : Present(j) => Present(j)'
<1>1. CASE Listed(p)
  <2>1. part'[req[p].id][req[p].user] = "accepted" /\ Mark(p, "accepted")
    BY <1>1, MarkFields DEF Accept
  <2>2. \A j \in Ids : j # req[p].id => \A u \in Users : part'[j][u] = part[j][u]
    BY <2>1, MarkFields
  <2>3. \A j \in Ids : j # req[p].id => (j \in deserted' <=> j \in deserted)
    BY <1>1 DEF Accept
  <2> QED  BY <2>1, <2>2, <2>3 DEF Present
<1>2. CASE ~Listed(p)
  BY <1>2 DEF Accept, Mark, Present
<1> QED  BY <1>1, <1>2

LEMMA MarkCompany ==
  ASSUME TypeOK, NEW p \in Procs, NEW s, Mark(p, s), req[p].id \in Ids, req[p].user \in Users,
         deserted \subseteq deserted'
  PROVE  \A j \in Ids :
           Present(j) => (Present(j)' \/ (j = req[p].id /\ Alone(j, req[p].user)))
<1>1. ASSUME NEW j \in Ids, Present(j)
      PROVE  Present(j)' \/ (j = req[p].id /\ Alone(j, req[p].user))
  <2>1. CASE j \in deserted
    BY <2>1 DEF Present
  <2>2. CASE j \notin deserted /\ ~(j = req[p].id /\ Alone(j, req[p].user))
    <3>1. PICK u \in Users : part[j][u] = "accepted"
      BY <1>1, <2>2 DEF Present
    <3>2. PICK v \in Users : part[j][v] = "accepted" /\ (j # req[p].id \/ v # req[p].user)
      BY <2>2, <3>1 DEF Alone
    <3>3. part'[j][v] = part[j][v]
      BY <3>2, MarkFields
    <3> QED  BY <3>2, <3>3 DEF Present
  <2> QED  BY <2>1, <2>2
<1> QED  BY <1>1

LEMMA ServeLeave ==
  ASSUME TypeOK, LeaveInv, NEW p \in Procs, Serve(p) PROVE LeaveInv'
<1> PICK i : i = req[p].id
  OBVIOUS
<1>0. /\ req[p] \in Req
      /\ req[p].pc # "idle" => i \in Ids
      /\ req[p].pc \in Joining => req[p].user \in Users
  BY DEF TypeOK, LeaveInv, NamesUser
<1>c. UNCHANGED <<part, deserted>> => \A j \in Ids : Present(j) => Present(j)'
  BY DEF Present
<1>d. ASSUME NEW pc, NEW x, NEW r, r = At(req[p], pc, x)
      PROVE  r.pc = pc /\ r.user = req[p].user /\ r.id = i
  BY <1>0, <1>d, ReqFields
<1>e. UNCHANGED call => \A j \in Ids : Live(j)' => Live(j)
  BY DEF Live
<1>1. CASE Answer(p)
  <2>1. req[p].pc = "answer" /\ i \in Ids /\ faults' = faults /\ req[p].user \in Users
    BY <1>0, <1>1 DEF Answer, Joining
  <2>2. \A j \in Ids : j # i => call'[j] = call[j]
    BY <1>1 DEF Answer, TypeOK
  <2>3. CASE MayAnswer(i)
    <3>1. Accept(p) /\ req' = [req EXCEPT ![p] = NoReq]
      BY <1>1, <2>3 DEF Answer, Done
    <3>2. \A j \in Ids : Present(j) => Present(j)'
      BY <2>1, <3>1, AcceptCompany
    <3>3. \A j \in Ids : Live(j)' => Live(j)
      BY <2>2, <2>3 DEF Live, MayAnswer
    <3> QED  BY <2>1, <3>1, <3>2, <3>3, ReqFields, LeaveStep
  <2>4. CASE ~MayAnswer(i)
    <3>1. PICK r : r = At(req[p], "reread", req[p].reason)
      OBVIOUS
    <3>2. UNCHANGED <<call, part, deserted>> /\ req' = [req EXCEPT ![p] = r]
      BY <1>1, <2>4, <3>1 DEF Answer, Step, Goto
    <3>3. r.pc = "reread" /\ r.user \in Users
      BY <1>d, <2>1, <3>1
    <3> QED  BY <1>c, <1>e, <2>1, <3>2, <3>3, LeaveStep
  <2> QED  BY <2>3, <2>4
<1>2. CASE Reread(p)
  <2>1. req[p].pc = "reread" /\ UNCHANGED <<call, part, deserted, faults>>
    BY <1>2 DEF Reread, db, lost
  <2>2. PICK r \in {NoReq, At(req[p], "join", req[p].reason)} : req' = [req EXCEPT ![p] = r]
    BY <1>2 DEF Reread, Step, Goto, Done
  <2>3. r.pc \in Joining => r.user \in Users
    BY <1>0, <1>d, <2>1, <2>2, ReqFields DEF Joining
  <2> QED  BY <1>c, <1>e, <2>1, <2>2, <2>3, LeaveStep
<1>3. CASE Join(p)
  <2>1. req[p].pc = "join" /\ UNCHANGED <<call, faults>> /\ Accept(p)
        /\ req' = [req EXCEPT ![p] = NoReq]
    BY <1>3 DEF Join, Done
  <2>2. \A j \in Ids : Present(j) => Present(j)'
    BY <1>0, <2>1, AcceptCompany DEF Joining
  <2> QED  BY <1>e, <2>1, <2>2, ReqFields, LeaveStep
<1>4. CASE Decline(p)
  <2>1. /\ req[p].pc = "decline" /\ UNCHANGED <<call, faults>> /\ Mark(p, "declined")
        /\ i \in Ids /\ req[p].user \in Users
        /\ deserted' = IF req[p].group /\ Alone(i, req[p].user) THEN deserted \cup {i} ELSE deserted
    BY <1>0, <1>4 DEF Decline, Joining
  <2>2. \A j \in Ids : Present(j) => (Present(j)' \/ (j = i /\ Alone(j, req[p].user)))
    BY <2>1, MarkCompany
  <2>3. CASE req[p].group
    <3>1. req' = [req EXCEPT ![p] = NoReq]
      BY <1>4, <2>3 DEF Decline, Done
    <3>2. \A j \in Ids : Present(j) => Present(j)'
      BY <2>1, <2>2, <2>3 DEF Present
    <3> QED  BY <1>e, <2>1, <3>1, <3>2, ReqFields, LeaveStep
  <2>4. CASE ~req[p].group
    <3>1. PICK r : r = At(req[p], "end", "declined")
      OBVIOUS
    <3>2. req' = [req EXCEPT ![p] = r]
      BY <1>4, <2>4, <3>1 DEF Decline, Goto
    <3>3. r.pc = "end" /\ r.pc \notin Joining /\ r.id = i
      BY <1>d, <3>1 DEF Joining
    <3> QED  BY <1>e, <2>1, <2>2, <3>2, <3>3, LeaveStep
  <2> QED  BY <2>3, <2>4
<1>5. CASE Leave(p)
  <2>1. req[p].pc = "leave" /\ UNCHANGED <<call, deserted>> /\ i \in Ids /\ req[p].user \in Users
    BY <1>0, <1>5 DEF Leave, Joining, lost
  <2>a. PICK pc \in {"remaining", "end"}, x \in {"cancelled", "hung_up"} : Goto(p, pc, x)
    BY <1>5 DEF Leave
  <2>b. PICK r : r = At(req[p], pc, x)
    OBVIOUS
  <2>2. req' = [req EXCEPT ![p] = r]
    BY <2>a, <2>b DEF Goto
  <2>3. r.pc \in {"remaining", "end"} /\ r.pc \notin Joining /\ r.id = i
    BY <1>d, <2>a, <2>b DEF Joining
  <2>4. CASE Mark(p, "left") /\ UNCHANGED faults
    <3>1. \A j \in Ids : Present(j) => Present(j)' \/ j = i
      BY <2>1, <2>4, MarkCompany
    <3> QED  BY <1>e, <2>1, <2>2, <2>3, <2>4, <3>1, LeaveStep
  <2>5. CASE faults' = faults + 1 /\ UNCHANGED part
    <3>1. faults' # 0
      BY <2>5 DEF TypeOK
    <3> QED  BY <1>e, <2>1, <2>2, <2>3, <3>1, LeaveStep
  <2> QED  BY <1>5, <2>4, <2>5 DEF Leave
<1>6. CASE Remaining(p)
  <2>1. req[p].pc = "remaining" /\ UNCHANGED <<call, part, deserted, faults>>
    BY <1>6 DEF Remaining, db, lost
  <2>2. CASE InCall(i)
    <3>1. req' = [req EXCEPT ![p] = NoReq]
      BY <1>6, <2>2 DEF Remaining, Done
    <3>2. Present(i)'
      BY <2>1, <2>2 DEF InCall, Present
    <3> QED  BY <1>c, <1>e, <2>1, <3>1, <3>2, ReqFields, LeaveStep
  <2>3. CASE ~InCall(i)
    <3>1. PICK r : r = At(req[p], "end", req[p].reason)
      OBVIOUS
    <3>2. req' = [req EXCEPT ![p] = r]
      BY <1>6, <2>3, <3>1 DEF Remaining, Step, Goto
    <3>3. r.pc = "end" /\ r.pc \notin Joining /\ r.id = i
      BY <1>d, <3>1 DEF Joining
    <3> QED  BY <1>c, <1>e, <2>1, <3>2, <3>3, LeaveStep
  <2> QED  BY <2>2, <2>3
<1>7. CASE End(p)
  <2>1. req[p].pc = "end" /\ i \in Ids /\ UNCHANGED <<part, deserted, faults>>
    BY <1>0, <1>7 DEF End, lost
  <2>2. ~Live(i)' /\ \A j \in Ids : j # i => call'[j] = call[j]
    <3>1. CASE MayEnd(i)
      <4>1. req[p].reason \in Reason \cup {"none"}
        BY <1>0 DEF Req
      <4>2. Closed(call[i], req[p].reason).state = "ended"
        BY <2>1, <4>1, CallFields DEF TypeOK
      <4>3. call'[i] = Closed(call[i], req[p].reason) /\ \A j \in Ids : j # i => call'[j] = call[j]
        BY <1>7, <2>1, <3>1 DEF End, TypeOK
      <4> QED  BY <4>2, <4>3 DEF Live
    <3>2. CASE ~MayEnd(i)
      BY <1>7, <3>2 DEF End, MayEnd, Live
    <3> QED  BY <3>1, <3>2
  <2>3. PICK r \in {NoReq, At(req[p], "publish", req[p].reason)} : req' = [req EXCEPT ![p] = r]
    BY <1>7 DEF End, Step, Goto, Done
  <2>4. r.pc \notin Joining
    BY <1>d, <2>3, ReqFields DEF Joining
  <2>5. \A j \in Ids : Live(j)' => Live(j)
    BY <2>2 DEF Live
  <2> QED  BY <1>c, <2>1, <2>2, <2>3, <2>4, <2>5, LeaveStep
<1>8. CASE PublishEnded(p)
  <2>1. PICK r \in {NoReq, At(req[p], "record", req[p].reason)} : req' = [req EXCEPT ![p] = r]
    BY <1>8 DEF PublishEnded, Step, Goto, Done
  <2>2. req[p].pc = "publish" /\ UNCHANGED <<call, part, deserted, faults>>
    BY <1>8 DEF PublishEnded, db, lost
  <2>3. r.pc \notin Joining
    BY <1>d, <2>1, ReqFields DEF Joining
  <2> QED  BY <1>c, <1>e, <2>1, <2>2, <2>3, LeaveStep
<1>9. CASE RecordCall(p)
  <2>1. req[p].pc = "record" /\ UNCHANGED <<call, part, deserted, faults>>
        /\ req' = [req EXCEPT ![p] = NoReq]
    BY <1>9 DEF RecordCall, Done, lost
  <2> QED  BY <1>c, <1>e, <2>1, ReqFields, LeaveStep
<1> QED
  BY <1>1, <1>2, <1>3, <1>4, <1>5, <1>6, <1>7, <1>8, <1>9 DEF Serve

(* A step that answers no call and ends no request keeps the invariant     *)
(* when it takes nobody out of a call without a trace.                     *)
LEMMA OtherLeave ==
  ASSUME LeaveInv, UNCHANGED <<req, faults>>,
         \A j \in Ids : Live(j)' => Live(j) \/ Present(j)',
         \A j \in Ids : Live(j)' /\ Present(j) => Present(j)'
  PROVE  LeaveInv'
  BY DEF LeaveInv, NamesUser, Attended, Ending

LEMMA NextLeave == TypeOK /\ TypeOK' /\ LeaveInv /\ [Next]_vars => LeaveInv'
<1> SUFFICES ASSUME TypeOK, TypeOK', LeaveInv, [Next]_vars PROVE LeaveInv'
  OBVIOUS
<1>0. NamesUser /\ Attended
  BY DEF LeaveInv
<1>1. ASSUME NEW i \in Ids, NEW u \in Users, CreateRinging(i, u) PROVE LeaveInv'
  <2>1. /\ UNCHANGED <<req, deserted, faults>>
        /\ part'[i][u] = "accepted"
        /\ \A j \in Ids : j # i => call'[j] = call[j] /\ part'[j] = part[j]
    BY <1>1 DEF CreateRinging, TypeOK, lost
  <2>2. ~Live(i) /\ Present(i)'
    BY <1>1, <2>1 DEF CreateRinging, Live, Present
  <2>3. \A j \in Ids : j # i => (Live(j)' <=> Live(j)) /\ (Present(j)' <=> Present(j))
    BY <2>1 DEF Live, Present
  <2> QED  BY <2>1, <2>2, <2>3, OtherLeave
<1>2. ASSUME UNCHANGED <<call, part, deserted, req, faults>> PROVE LeaveInv'
  BY <1>2, OtherLeave DEF Live, Present
<1>3. ASSUME NEW p \in Handlers, NEW pc \in {"answer", "decline", "leave"},
             NEW u \in Users, NEW i \in Ids, Load(p, pc, u, i)
      PROVE  LeaveInv'
  <2> DEFINE r == NewReq(pc, u, i, call[i].state = "ringing", IsGroup(i), "none")
  <2>1. /\ req[p].pc = "idle" /\ req' = [req EXCEPT ![p] = r]
        /\ UNCHANGED <<call, part, deserted, faults>>
    BY <1>3 DEF Load, db, lost
  <2>2. r.pc = pc /\ r.user = u
    BY ReqFields
  <2> HIDE DEF r
  <2>3. NamesUser' /\ req'[p] = r /\ \A q \in Procs : q # p => req'[q] = req[q]
    BY <2>1, <2>2, OneRequest
  <2> QED  BY <1>0, <2>1, <2>3 DEF LeaveInv, Attended, Present, Live, Ending
<1>4. ASSUME NEW p \in Procs, Serve(p) PROVE LeaveInv'
  BY <1>4, ServeLeave
<1>5. CASE SweepRinging
  <2>1. UNCHANGED <<part, deserted, req, faults>>
    BY <1>5 DEF SweepRinging, lost
  <2>2. \A i \in Ids : call'[i] = call[i] \/ call'[i].state = "ended"
    BY <1>5, CallFields DEF SweepRinging, TypeOK, Reason
  <2> QED  BY <2>1, <2>2, OtherLeave DEF Present, Live
<1>6. ASSUME NEW i \in Ids, ReportSwept(i) PROVE LeaveInv'
  <2>a. PICK p \in Procs : p = Sweeper
    OBVIOUS
  <2>1. PICK r : r = NewReq("publish", None, i, FALSE, FALSE, "timeout")
    OBVIOUS
  <2>2. /\ req[p].pc = "idle" /\ req' = [req EXCEPT ![p] = r]
        /\ UNCHANGED <<call, part, deserted, faults>>
    BY <1>6, <2>a, <2>1 DEF ReportSwept, db, lost
  <2>3. r.pc \notin Joining
    BY <2>1, ReqFields DEF Joining
  <2>4. NamesUser' /\ req'[p] = r /\ \A q \in Procs : q # p => req'[q] = req[q]
    BY <2>2, <2>3, OneRequest
  <2> QED  BY <1>0, <2>2, <2>4 DEF LeaveInv, Attended, Present, Live, Ending
<1>7. ASSUME faults' = faults + 1, \A p \in Procs : req'[p] \in {req[p], NoReq} PROVE LeaveInv'
  <2>1. faults' # 0
    BY <1>7 DEF TypeOK
  <2> QED  BY <1>0, <1>7, <2>1, ReqFields DEF LeaveInv, NamesUser, Attended
<1>8. ASSUME (\E p \in Procs : Fault(p)) \/ SweepLost \/ Crash PROVE LeaveInv'
  <2>1. CASE SweepLost /\ UNCHANGED faults
    BY <1>2, <2>1 DEF SweepLost, db, lost
  <2> QED
    BY <1>7, <1>8, <2>1 DEF Fault, Done, SweepLost, Crash, TypeOK
<1>9. ASSUME (\E i \in Ids : RingTimeout(i)) \/ UNCHANGED vars PROVE LeaveInv'
  BY <1>2, <1>9 DEF RingTimeout, vars, lost
<1>10. ASSUME NEW u \in Users, PurgeUser(u) PROVE LeaveInv'
  <2> DEFINE own == {i \in Ids : call[i].initiator = u}
  <2>1. \A i \in own : ~Live(i)'
    BY <1>10, CallFields DEF PurgeUser, Live, TypeOK
  <2>2. \A i \in Ids \ own : /\ call'[i] = call[i]
                            /\ \A v \in Users \ {u} : part'[i][v] = part[i][v]
    BY <1>10 DEF PurgeUser
  <2>3. \A i \in Ids \ own : Alone(i, u) => i \in deserted'
    BY <1>10 DEF PurgeUser
  <2>4. deserted \subseteq deserted' /\ UNCHANGED <<req, faults>>
    BY <1>10 DEF PurgeUser
  <2>5. ASSUME NEW j \in Ids \ own, Present(j) PROVE Present(j)'
    <3>1. CASE j \in deserted \/ Alone(j, u)
      BY <2>3, <2>4, <3>1 DEF Present
    <3>2. CASE ~(j \in deserted \/ Alone(j, u))
      <4>1. PICK v \in Users \ {u} : part[j][v] = "accepted"
        BY <2>5, <3>2 DEF Present, Alone
      <4> QED  BY <2>2, <4>1 DEF Present
    <3> QED  BY <3>1, <3>2
  <2>6. \A j \in Ids : Live(j)' => Live(j) /\ j \notin own
    BY <2>1, <2>2 DEF Live
  <2> QED  BY <2>4, <2>5, <2>6, OtherLeave
<1> QED
  BY <1>1, <1>3, <1>4, <1>5, <1>6, <1>8, <1>9, <1>10 DEF Next, Sweep

(* The last one to hang up ends a call, however hangups, declines, joins   *)
(* and erasures interleave with the counting of those who remain (Hangup's *)
(* AcceptedParticipants): a live call at rest has a participant who        *)
(* accepted it, unless the last of them declined, or is gone, without      *)
(* hanging up, or a statement has failed.                                  *)
THEOREM LastHangupHolds == Spec => []LastHangupEnds
<1>1. Init => LeaveInv
  BY CallFields, ReqTypes, ReqFields
  DEF Init, LeaveInv, NamesUser, Attended, Joining, Live
<1>2. LeaveInv => LastHangupEnds
  BY DEF LeaveInv, Attended, LastHangupEnds, Present, Ending
<1> QED
  BY <1>1, <1>2, InitType, NextType, NextLeave, PTL DEF Spec
=============================================================================
