------------------------------ MODULE Members ------------------------------
(***************************************************************************)
(* The membership of one user and the payment PIN that guards it:          *)
(* src/pkg/repository/membership.go, the handlers membership.go and pin.go *)
(* of the account service with their limiter of wrong entries              *)
(* (src/pkg/ratelimit), and the renewer of services/account/cmd/main.go.   *)
(* The posts service compares the same PIN before a tip, with a limiter of *)
(* its own; what the tip then pays is module Tips.                         *)
(* Users do not share any of this state, so one stands for all of them;    *)
(* the other users show only in the time between the renewer's list and    *)
(* the charge of this one.                                                 *)
(*                                                                         *)
(* A handler reads the hash, asks the limiter, compares the PIN and acts,  *)
(* in steps of their own.  A purchase locks the user's row and is one      *)
(* step; the time it reckons with was read before it.  Days are the unit   *)
(* of time; a lockout ends at any moment.                                  *)
(***************************************************************************)
EXTENDS Integers, FiniteSets

CONSTANTS Reqs,       \* the requests that may run at the same time
          Clients,    \* sets of the kinds of requests and events that come together
          Levels,     \* the highest tier
          Price,      \* the price of each tier
          Term,       \* MemberDurationDays
          Window,     \* days after which a lapsed membership is not renewed
          Pins, NoPin,
          MaxFailures, \* wrong entries that lock
          Fund,       \* coins at the start
          MaxAsks,    \* bound on the requests of each of the Clients
          Days, MaxGrants, MaxRestarts   \* bounds

Level == 1 .. Levels
Kind == {"purchase", "enable", "disable", "set", "change", "verify", "tip"}
Service == {"account", "posts"}

ASSUME MembersAssumption ==
    /\ IsFiniteSet(Reqs) /\ NoPin \notin Pins
    /\ Clients \subseteq SUBSET (Kind \cup {"grant", "restart"})
    /\ {Levels, Term, MaxFailures, Days} \subseteq Nat \ {0}
    /\ {Window, Fund, MaxGrants, MaxRestarts} \subseteq Nat
    /\ MaxAsks \in [Clients -> Nat]
    /\ Price \in [Level -> Nat \ {0}]
    /\ \A l, m \in Level : l < m => Price[l] < Price[m]

Day == 1 .. Days
Hash == Pins \cup {NoPin}
Pc == {"idle", "read", "gate", "compare", "act"}

MemberReq == [pc : Pc, kind : Kind, level : Level, pin : Hash, new : Hash,
              hash : Hash, day : Day]
Renewer == [pc : {"idle", "charge", "off"}, level : Level, day : Day]
Limiter == [failures : 0 .. MaxFailures, lock : {"none", "on", "served"}]

VARIABLES
    today,
    member,     \* level, expiry and auto_renew of the user's row
    coins,
    pin,      \* the PIN whose hash the user's row holds
    limiter,  \* the entry of this user in each service's limiter
    memberReq, renewer,
    client,  \* the kinds of requests and events of this behaviour
    count,   \* how many requests, grants and restarts there were
    ledger   \* history: what was paid and served

membersVars == <<today, member, coins, pin, limiter, memberReq, renewer, client, count, ledger>>

Member == [level : 0 .. Levels, expires : Nat, auto : BOOLEAN]   \* expires 0: never a member
Count == [asks : Nat, grants : 0 .. MaxGrants, restarts : 0 .. MaxRestarts]
\* terms were paid in full, served days of them are over, spent is the price of
\* the membership that runs, late says that a purchase reckoned with a past day,
\* wrong counts the wrong entries since each limiter last forgot them.
Ledger == [terms : Nat, served : Nat, spent : Nat, late : BOOLEAN, wrong : [Service -> Nat]]

NoMemberReq == [pc |-> "idle", kind |-> "verify", level |-> 1, pin |-> NoPin,
                new |-> NoPin, hash |-> NoPin, day |-> 1]
NoRenewal == [pc |-> "idle", level |-> 1, day |-> 1]
NoEntry == [failures |-> 0, lock |-> "none"]

MembersInit ==
    /\ today = 1
    /\ member = [level |-> 0, expires |-> 0, auto |-> FALSE]
    /\ coins = Fund
    /\ pin \in Hash
    /\ limiter = [s \in Service |-> NoEntry]
    /\ memberReq = [r \in Reqs |-> NoMemberReq]
    /\ renewer = NoRenewal
    /\ client \in Clients
    /\ count = [asks |-> 0, grants |-> 0, restarts |-> 0]
    /\ ledger = [terms |-> 0, served |-> 0, spent |-> 0, late |-> FALSE,
                  wrong |-> [s \in Service |-> 0]]

Go(r, pc) == memberReq' = [memberReq EXCEPT ![r].pc = pc]
MemberDone(r) == memberReq' = [memberReq EXCEPT ![r] = NoMemberReq]

-----------------------------------------------------------------------------
\* Purchases.

Active(day) == member.level > 0 /\ day < member.expires

\* What level l costs and brings on a day, none when it would be a step down.
Offers(l, day) ==
    CASE ~Active(day)     -> {[level |-> l, expires |-> day + Term,
                               charge |-> Price[l], kind |-> "purchase"]}
      [] Active(day) /\ l = member.level
                          -> {[level |-> l, expires |-> member.expires + Term,
                               charge |-> Price[l], kind |-> "renew"]}
      [] Active(day) /\ l > member.level
                          -> {[level |-> l, expires |-> member.expires,
                               charge |-> Price[l] - Price[member.level],
                               kind |-> "upgrade"]}
      [] OTHER            -> {}

Covers(charge) == coins >= charge

\* One transaction: debit, new level and expiry, and the row of the history.
Purchase(o, day) ==
    /\ coins' = coins - o.charge
    /\ member' = [member EXCEPT !.level = o.level, !.expires = o.expires]
    /\ ledger' = [ledger EXCEPT
          !.terms = IF o.kind = "upgrade" THEN @ ELSE @ + 1,
          !.spent = IF o.kind = "purchase" THEN o.charge ELSE @ + o.charge,
          !.late = @ \/ day # today]

\* An admin writes a level, from today, and no wallet is touched; level 0 clears.
Grant ==
    /\ "grant" \in client /\ count.grants < MaxGrants
    /\ \E l \in 0 .. Levels :
         member' = [member EXCEPT !.level = l,
                                  !.expires = IF l = 0 THEN 0 ELSE today + Term]
    /\ count' = [count EXCEPT !.grants = @ + 1]
    /\ UNCHANGED <<today, coins, pin, limiter, memberReq, renewer, client, ledger>>

-----------------------------------------------------------------------------
\* The limiter of wrong entries.

Locked(s) == limiter[s].lock = "on"

\* A served lockout is forgotten by the next failure only: nobody calls Allow.
Failed(e) ==
    IF e.lock = "on" THEN e
    ELSE LET n == (IF e.lock = "served" THEN 0 ELSE e.failures) + 1
         IN  [failures |-> n, lock |-> IF n >= MaxFailures THEN "on" ELSE "none"]

ServeLockout(s) ==
    /\ Locked(s)
    /\ limiter' = [limiter EXCEPT ![s].lock = "served"]
    /\ ledger' = [ledger EXCEPT !.wrong[s] = 0]
    /\ UNCHANGED <<today, member, coins, pin, memberReq, renewer, client, count>>

-----------------------------------------------------------------------------
\* The handlers.  A change and a check ask the limiter before they read the hash,
\* a payment and a first PIN after it; auto-renewal is switched off without one.
Serves(r) == IF memberReq[r].kind = "tip" THEN "posts" ELSE "account"

Start(kind) == CASE kind \in {"purchase", "enable", "set", "tip"} -> "read"
                 [] kind \in {"change", "verify"} -> "gate"
                 [] OTHER -> "act"

Inputs(kind) ==
    [kind : {kind},
     level : IF kind = "purchase" THEN Level ELSE {1},
     pin : IF kind = "disable" THEN {NoPin} ELSE IF kind = "set" THEN Hash ELSE Pins,
     new : IF kind \in {"set", "change"} THEN Pins ELSE {NoPin}]

Ask(r) ==
    /\ memberReq[r].pc = "idle" /\ count.asks < MaxAsks[client]
    /\ \E kind \in client \cap Kind : \E i \in Inputs(kind) :
         memberReq' = [memberReq EXCEPT ![r] = [NoMemberReq EXCEPT
                    !.pc = Start(kind), !.kind = kind, !.level = i.level,
                    !.pin = i.pin, !.new = i.new]]
    /\ count' = [count EXCEPT !.asks = @ + 1]
    /\ UNCHANGED <<today, member, coins, pin, limiter, renewer, client, ledger>>

\* Where GetPinHash leads: the first PIN needs no old one.
AfterRead(q) ==
    CASE q.kind = "set"    -> IF pin = NoPin THEN "act"
                              ELSE IF q.pin = NoPin THEN "idle" ELSE "gate"
      [] q.kind = "enable" -> IF pin = NoPin THEN "idle" ELSE "gate"
      [] q.kind \in {"purchase", "tip"} -> "gate"
      [] OTHER             -> IF pin = NoPin THEN "idle" ELSE "compare"

Proceed(r, pc) == IF pc = "idle" THEN MemberDone(r) ELSE Go(r, pc)

ReadHash(r) ==
    /\ memberReq[r].pc = "read"
    /\ LET pc == AfterRead(memberReq[r]) IN
       IF pc = "idle" THEN MemberDone(r)
       ELSE memberReq' = [memberReq EXCEPT ![r].pc = pc, ![r].hash = pin]
    /\ UNCHANGED <<today, member, coins, pin, limiter, renewer, client, count, ledger>>

PastGate(q) ==
    CASE q.kind \in {"change", "verify"} -> "read"
      [] q.hash = NoPin -> "idle"
      [] OTHER -> "compare"

\* RetryAfter, then for a payment the test that a PIN is set at all.  Mutant: the
\* lockout is not asked for.
GateUnlocked(r) ==
    /\ memberReq[r].pc = "gate"
    /\ Proceed(r, PastGate(memberReq[r]))
    /\ UNCHANGED <<today, member, coins, pin, limiter, renewer, client, count, ledger>>

Gate(r) ==
    /\ memberReq[r].pc = "gate"
    /\ Proceed(r, IF Locked(Serves(r)) THEN "idle" ELSE PastGate(memberReq[r]))
    /\ UNCHANGED <<today, member, coins, pin, limiter, renewer, client, count, ledger>>

\* A right PIN resets the entry whoever has locked it since; time.Now() is read
\* for the purchase that follows.
ComparePin(r) ==
    /\ memberReq[r].pc = "compare"
    /\ IF memberReq[r].pin = memberReq[r].hash
       THEN /\ limiter' = [limiter EXCEPT ![Serves(r)] = NoEntry]
            /\ ledger' = [ledger EXCEPT !.wrong[Serves(r)] = 0]
            /\ IF memberReq[r].kind \in {"verify", "tip"} THEN MemberDone(r)
               ELSE memberReq' = [memberReq EXCEPT ![r].pc = "act", ![r].day = today]
       ELSE /\ limiter' = [limiter EXCEPT ![Serves(r)] = Failed(@)]
            /\ ledger' = [ledger EXCEPT !.wrong[Serves(r)] = @ + 1]
            /\ MemberDone(r)
    /\ UNCHANGED <<today, member, coins, pin, renewer, client, count>>

BuyMembership(r) ==
    /\ memberReq[r].pc = "act" /\ memberReq[r].kind = "purchase"
    /\ \/ \E o \in Offers(memberReq[r].level, memberReq[r].day) :
            Covers(o.charge) /\ Purchase(o, memberReq[r].day)
       \/ /\ \A o \in Offers(memberReq[r].level, memberReq[r].day) : ~Covers(o.charge)
          /\ UNCHANGED <<member, coins, ledger>>
    /\ MemberDone(r)
    /\ UNCHANGED <<today, pin, limiter, renewer, client, count>>

SetAutoRenew(r) ==
    /\ memberReq[r].pc = "act" /\ memberReq[r].kind \in {"enable", "disable"}
    /\ member' = [member EXCEPT !.auto = (memberReq[r].kind = "enable")]
    /\ MemberDone(r)
    /\ UNCHANGED <<today, coins, pin, limiter, renewer, client, count, ledger>>

SetPinHash(r) ==
    /\ memberReq[r].pc = "act" /\ memberReq[r].kind \in {"set", "change"}
    /\ pin' = memberReq[r].new
    /\ MemberDone(r)
    /\ UNCHANGED <<today, member, coins, limiter, renewer, client, count, ledger>>

-----------------------------------------------------------------------------
\* RenewDue lists the memberships that lapsed at least a day and less than the
\* window ago, and charges each at the level of the list.
Due(day) ==
    /\ member.auto /\ member.level \in Level
    /\ member.expires # 0 /\ member.expires <= day - 1 /\ member.expires > day - Window

ListDue ==
    /\ renewer.pc = "idle" /\ Due(today)
    /\ renewer' = [pc |-> "charge", level |-> member.level, day |-> today]
    /\ UNCHANGED <<today, member, coins, pin, limiter, memberReq, client, count, ledger>>

AfterChargeRetried == NoRenewal
AfterCharge == [renewer EXCEPT !.pc = "off"]

ChargeDue ==
    /\ renewer.pc = "charge"
    /\ LET offers == Offers(renewer.level, renewer.day) IN
       \/ \E o \in offers :
            /\ Covers(o.charge) /\ Purchase(o, renewer.day)
            /\ renewer' = NoRenewal
       \/ /\ \E o \in offers : ~Covers(o.charge)
          /\ renewer' = AfterCharge
          /\ UNCHANGED <<member, coins, ledger>>
       \/ /\ offers = {}
          /\ renewer' = NoRenewal
          /\ UNCHANGED <<member, coins, ledger>>
    /\ UNCHANGED <<today, pin, limiter, memberReq, client, count>>

SwitchOff ==
    /\ renewer.pc = "off"
    /\ member' = [member EXCEPT !.auto = FALSE]
    /\ renewer' = NoRenewal
    /\ UNCHANGED <<today, coins, pin, limiter, memberReq, client, count, ledger>>

\* A service restarts: its limiter is in memory, and so are its requests and
\* the account service's list of renewals.
Restart(s) ==
    /\ "restart" \in client /\ count.restarts < MaxRestarts
    /\ count' = [count EXCEPT !.restarts = @ + 1]
    /\ limiter' = [limiter EXCEPT ![s] = NoEntry]
    /\ ledger' = [ledger EXCEPT !.wrong[s] = 0]
    /\ memberReq' = [r \in Reqs |-> IF Serves(r) = s THEN NoMemberReq ELSE memberReq[r]]
    /\ renewer' = IF s = "account" THEN NoRenewal ELSE renewer
    /\ UNCHANGED <<today, member, coins, pin, client>>

NextDay ==
    /\ today < Days
    /\ today' = today + 1
    /\ ledger' = [ledger EXCEPT !.served = IF Active(today) THEN @ + 1 ELSE @]
    /\ UNCHANGED <<member, coins, pin, limiter, memberReq, renewer, client, count>>

Renew == ListDue \/ ChargeDue \/ SwitchOff

MembersNext ==
    \/ \E r \in Reqs : \/ Ask(r) \/ ReadHash(r) \/ Gate(r) \/ ComparePin(r)
                       \/ BuyMembership(r) \/ SetAutoRenew(r) \/ SetPinHash(r)
    \/ \E s \in Service : ServeLockout(s) \/ Restart(s)
    \/ Renew \/ Grant \/ NextDay

MembersSpec == MembersInit /\ [][MembersNext]_membersVars

\* The ticker wakes the renewer for as long as the service runs.
MembersFairSpec == MembersSpec /\ WF_membersVars(Renew)

-----------------------------------------------------------------------------
\* What every variable may hold.  A wallet never goes below zero: a renewal that
\* cannot be paid is not made.
MembersTypeOK ==
    /\ today \in Day
    /\ member \in Member
    /\ coins \in Nat
    /\ pin \in Hash
    /\ limiter \in [Service -> Limiter]
    /\ memberReq \in [Reqs -> MemberReq]
    /\ renewer \in Renewer
    /\ client \in Clients
    /\ count \in Count
    /\ ledger \in Ledger

\* Every day that was paid for is served or still to come, and none is served
\* unpaid, whether the user or the renewer pays and in whatever order: unless an
\* admin has overwritten the membership or a purchase ran across midnight.
Left == IF Active(today) THEN member.expires - today ELSE 0
TermsStand ==
    (count.grants = 0 /\ ~ledger.late) => ledger.served + Left = Term * ledger.terms

\* Whoever is a member has paid at least the price of the level since the
\* membership began, by purchases and by upgrades.
LevelPaid ==
    (count.grants = 0 /\ Active(today)) => ledger.spent >= Price[member.level]

\* After MaxFailures wrong entries at a service the user is locked out there, and
\* of the requests that had passed its limiter before, each is compared once more:
\* so many wrong entries, and no more, go beyond the budget.  The two services do
\* not share their budgets.
PinBudget ==
    \A s \in Service :
        /\ ledger.wrong[s] >= MaxFailures => Locked(s)
        /\ ledger.wrong[s] <= MaxFailures + Cardinality(Reqs) - 1

MemberInv == MembersTypeOK /\ TermsStand /\ LevelPaid /\ PinBudget

\* A membership that is due is renewed, or its renewal is switched off, or its
\* window passes: a user who cannot pay is not tried for ever.
DueServed == Due(today) ~> ~Due(today)
=============================================================================
