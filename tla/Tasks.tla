------------------------------- MODULE Tasks -------------------------------
(***************************************************************************)
(* The sign-in calendar and the tasks of one user: the daily check-in, the *)
(* two paid make-ups and the rewards, in src/pkg/repository/task.go, as    *)
(* services/account/internal/handler/task.go calls them.  The state of     *)
(* different users is disjoint, so one user stands for all of them.        *)
(*                                                                         *)
(* A request reads the clock once, when its handler starts (day), and the  *)
(* database reads its own when the transaction begins (at, the NOW() of    *)
(* the statements); midnight may come between any two steps.  An INSERT    *)
(* into task_completions locks the user's row FOR KEY SHARE through its    *)
(* foreign key, a check-in and a reward lock the row FOR UPDATE, and the   *)
(* wallet, locked last by all of them, needs no step of its own.  Progress *)
(* is counted in other tables: a claim here is one whose progress is met.  *)
(***************************************************************************)
EXTENDS Integers, FiniteSets, Functions

CONSTANTS Reqs,        \* the requests that may run at the same time
          Days,        \* the last day of the calendar; the user registers on day 1
          MaxAsks,     \* bound: how many requests are ever made
          Once, Daily, \* the codes of the one-time and of the daily tasks
          Target,      \* the streak that earns the milestone
          Gap,         \* days that a make-up bridges (72 hours)
          Fund, Bonus, MakeupCost, Reward   \* coins

ASSUME TasksAssumption ==
    /\ IsFiniteSet(Reqs) /\ IsFiniteSet(Once) /\ IsFiniteSet(Daily)
    /\ Once \cap Daily = {} /\ {"login", "streak"} \cap (Once \cup Daily) = {}
    /\ Days \in Nat \ {0} /\ {MaxAsks, Target, Gap} \subseteq Nat
    /\ {Fund, Bonus, MakeupCost, Reward} \subseteq Nat

Day == 1 .. Days
Never == 0
LoginKey(d) == <<"login", d>>      \* the completion of daily_login on day d
Milestone == <<"streak", 0>>    \* login_3, login_7 and login_30 stand as one
Key == {LoginKey(d) : d \in Day} \cup {Milestone}
         \cup {<<t, 0>> : t \in Once} \cup {<<t, d>> : t \in Daily, d \in Day}
NoKey == <<"none", 0>>

Pc == {"idle", "asked", "begun", "record", "award", "date", "dated",
       "grant", "granting"}
TaskReq == [pc : Pc, makeup : BOOLEAN, day : Day, at : Day,
            key : Key \cup {NoKey}, streak : 0 .. Days + MaxAsks]

VARIABLES
    today,    \* the clock
    streak,   \* users.checkin_streak
    last,     \* the day of users.last_daily_bonus_at
    done,     \* the rows of task_completions
    coins,    \* the balance of the wallet
    taskReq,  \* the requests
    asks,     \* how many requests have been made
    ledger    \* history: what was paid for, and what went wrong

row == <<streak, last>>
tasksVars == <<today, streak, last, done, coins, taskReq, asks, ledger>>

\* bonus and renewed count the check-ins and the paid ones by the day they were
\* asked for, dates are the days made up, lost those whose completion was never
\* written, crossed the days on which a check-in ran across midnight.
Ledger == [bonus : [Day -> 0 .. MaxAsks], renewed : [Day -> 0 .. MaxAsks],
           dates : SUBSET Day, lost : SUBSET Day, crossed : SUBSET Day]

NoTask == [pc |-> "idle", makeup |-> FALSE, day |-> 1, at |-> 1,
           key |-> NoKey, streak |-> 0]

TasksInit ==
    /\ today = 1
    /\ streak = 0 /\ last = Never
    /\ done = {}
    /\ coins = Fund
    /\ taskReq = [r \in Reqs |-> NoTask]
    /\ asks = 0
    /\ ledger = [bonus |-> [d \in Day |-> 0], renewed |-> [d \in Day |-> 0],
                 dates |-> {}, lost |-> {}, crossed |-> {}]

-----------------------------------------------------------------------------
Signed == {d \in Day : LoginKey(d) \in done}

\* How many days back from day, or from the day before, are signed in a row.
RecomputeStreak(signed, day) ==
    LET start == IF day \in signed THEN day ELSE day - 1
    IN  Cardinality({d \in signed : d .. start \subseteq signed /\ d <= start})

\* The streak on the calendar, and the one beside the list of the tasks.
CalendarStreak == RecomputeStreak(Signed, today)
ListedStreak == streak

Go(r, pc) == taskReq' = [taskReq EXCEPT ![r].pc = pc]
TaskDone(r) == taskReq' = [taskReq EXCEPT ![r] = NoTask]

NobodyInserts(k) == {}

\* The transactions that hold the user's row FOR KEY SHARE, and those that
\* have inserted row k and not committed: an INSERT of k waits for them.
Sharing == {r \in Reqs : taskReq[r].pc \in {"dated", "granting"}}
Inserting(k) == {r \in Sharing : taskReq[r].key = k}

\* SELECT ... FOR UPDATE waits for every other holder of a share.
MayLockRow(r) == Sharing \ {r} = {}

CoversAny(price) == TRUE
Covers(price) == coins >= price
-----------------------------------------------------------------------------
\* The handlers take the time and hand it to the repository.
Ask(r, pc, makeup, key) ==
    /\ taskReq[r].pc = "idle" /\ asks < MaxAsks
    /\ asks' = asks + 1
    /\ taskReq' = [taskReq EXCEPT ![r] = [NoTask EXCEPT !.pc = pc, !.makeup = makeup,
                                                        !.day = today, !.key = key]]
    /\ UNCHANGED <<today, row, done, coins, ledger>>

AskCheckin(r) == \E makeup \in BOOLEAN : Ask(r, "asked", makeup, NoKey)

\* Today, the future and the days before the registration are refused.
AskDate(r) == \E d \in Day : d < today /\ Ask(r, "date", FALSE, LoginKey(d))

Unclaimed(k) == k \notin done
AskOnce(r) == \E t \in Once : Unclaimed(<<t, 0>>) /\ Ask(r, "grant", FALSE, <<t, 0>>)
AskDaily(r) ==
    \E t \in Daily : Unclaimed(<<t, today>>) /\ Ask(r, "grant", FALSE, <<t, today>>)

Begin(r) ==
    /\ taskReq[r].pc = "asked"
    /\ taskReq' = [taskReq EXCEPT ![r].pc = "begun", ![r].at = today]
    /\ UNCHANGED <<today, row, done, coins, asks, ledger>>

-----------------------------------------------------------------------------
\* The streak after a check-in asked for on day d, or none when it is refused:
\* a make-up bridges a gap of at most Gap days, and on the last of them the
\* hour decides.
StreaksAfter(d, makeup) ==
    IF last # Never /\ last = d - 1 THEN {streak + 1}
    ELSE IF ~makeup THEN {1}
    ELSE (IF last # Never /\ d - last <= Gap THEN {streak + 1} ELSE {})
            \cup (IF last = Never \/ d - last >= Gap THEN {Never} ELSE {})

AlreadyToday(r) == last = taskReq[r].day

\* The requests that run across midnight, seen when they act.
Across(r) == IF taskReq[r].day = today THEN {} ELSE taskReq[r].day .. today

Book(r) ==
    LET d == taskReq[r].day IN
    ledger' = [ledger EXCEPT
                  !.bonus[d] = @ + (IF taskReq[r].makeup THEN 0 ELSE 1),
                  !.renewed[d] = @ + (IF taskReq[r].makeup THEN 1 ELSE 0),
                  !.crossed = @ \cup Across(r)]

\* The rest of the transaction, from the lock to the commit.
Checkin(r) ==
    /\ taskReq[r].pc = "begun" /\ MayLockRow(r)
    /\ IF AlreadyToday(r)
       THEN TaskDone(r) /\ UNCHANGED <<row, coins, ledger>>
       ELSE \E n \in StreaksAfter(taskReq[r].day, taskReq[r].makeup) :
              IF n = Never \/ (taskReq[r].makeup /\ ~Covers(MakeupCost))
              THEN TaskDone(r) /\ UNCHANGED <<row, coins, ledger>>
              ELSE /\ streak' = n
                   /\ last' = taskReq[r].at
                   /\ coins' = IF taskReq[r].makeup THEN coins - MakeupCost
                                                    ELSE coins + Bonus
                   /\ Book(r)
                   /\ taskReq' = [taskReq EXCEPT ![r].pc = "record", ![r].streak = n]
    /\ UNCHANGED <<today, done, asks>>

\* recordCompletion, ON CONFLICT DO NOTHING, after the commit.
RecordDay(r) ==
    /\ taskReq[r].pc = "record" /\ Inserting(LoginKey(taskReq[r].day)) = {}
    /\ done' = done \cup {LoginKey(taskReq[r].day)}
    /\ ledger' = [ledger EXCEPT !.crossed = @ \cup Across(r)]
    /\ Go(r, "award")
    /\ UNCHANGED <<today, row, coins, asks>>

\* awardMilestones goes on like a claim, with the streak it was handed.
Award(r) ==
    /\ taskReq[r].pc = "award"
    /\ IF taskReq[r].streak >= Target /\ Unclaimed(Milestone)
       THEN taskReq' = [taskReq EXCEPT ![r].pc = "grant", ![r].key = Milestone]
       ELSE TaskDone(r)
    /\ UNCHANGED <<today, row, done, coins, asks, ledger>>

-----------------------------------------------------------------------------
\* The INSERT decides which of two requests for the same row goes on.
Insert(r, from, to) ==
    /\ taskReq[r].pc = from /\ Inserting(taskReq[r].key) = {}
    /\ IF Unclaimed(taskReq[r].key) THEN Go(r, to) ELSE TaskDone(r)
    /\ UNCHANGED <<today, row, done, coins, asks, ledger>>

InsertDate(r) == Insert(r, "date", "dated")
InsertReward(r) == Insert(r, "grant", "granting")

\* MakeupByDate pays, recomputes the streak from the committed rows and its own,
\* and commits; users.last_daily_bonus_at is left as it is.
PayDate(r) ==
    /\ taskReq[r].pc = "dated"
    /\ IF Covers(MakeupCost)
       THEN LET d == taskReq[r].key[2]
                n == RecomputeStreak(Signed \cup {d}, taskReq[r].day)
            IN  /\ coins' = coins - MakeupCost
                /\ done' = done \cup {taskReq[r].key}
                /\ streak' = n
                /\ ledger' = [ledger EXCEPT !.dates = @ \cup {d}]
                /\ taskReq' = [taskReq EXCEPT ![r] = [@ EXCEPT !.pc = "award", !.streak = n,
                                                               !.key = NoKey]]
       ELSE TaskDone(r) /\ UNCHANGED <<coins, done, streak, ledger>>
    /\ UNCHANGED <<today, last, asks>>

\* grantTaskReward locks the row, pays and commits.
CommitReward(r) ==
    /\ taskReq[r].pc = "granting" /\ MayLockRow(r)
    /\ coins' = coins + Reward
    /\ done' = done \cup {taskReq[r].key}
    /\ TaskDone(r)
    /\ UNCHANGED <<today, row, asks, ledger>>

\* Two rewards that both hold a share and both wait for the lock: PostgreSQL
\* aborts one of them.
NeverDeadlocked(r) == FALSE
Deadlocked(r) ==
    taskReq[r].pc = "granting" /\ \E s \in Sharing \ {r} : taskReq[s].pc = "granting"

DetectDeadlock(r) ==
    /\ Deadlocked(r)
    /\ TaskDone(r)
    /\ UNCHANGED <<today, row, done, coins, asks, ledger>>

\* The service stops or a statement fails: what was committed stays.
Fail(r) ==
    /\ taskReq[r].pc # "idle"
    /\ ledger' = IF taskReq[r].pc = "record"
                 THEN [ledger EXCEPT !.lost = @ \cup {taskReq[r].day}] ELSE ledger
    /\ TaskDone(r)
    /\ UNCHANGED <<today, row, done, coins, asks>>

NextDay ==
    /\ today < Days
    /\ today' = today + 1
    /\ UNCHANGED <<row, done, coins, taskReq, asks, ledger>>

Step(r) ==
    \/ Begin(r) \/ Checkin(r) \/ RecordDay(r) \/ Award(r)
    \/ InsertDate(r) \/ PayDate(r) \/ InsertReward(r) \/ CommitReward(r)
    \/ DetectDeadlock(r)

Request(r) == AskCheckin(r) \/ AskDate(r) \/ AskOnce(r) \/ AskDaily(r)

TasksNext ==
    \/ \E r \in Reqs : Request(r) \/ Step(r) \/ Fail(r)
    \/ NextDay

TasksSpec == TasksInit /\ [][TasksNext]_tasksVars

\* A request that can go on does, and the deadlock detector is one of its steps.
TasksFairSpec == TasksSpec /\ \A r \in Reqs : SF_tasksVars(Step(r))

-----------------------------------------------------------------------------
\* What every variable may hold.  A wallet never goes below zero, whatever the
\* order in which make-ups are paid for (adjustBalanceTx).
TasksTypeOK ==
    /\ today \in Day
    /\ streak \in 0 .. Days + MaxAsks /\ last \in Day \cup {Never}
    /\ done \in SUBSET Key
    /\ coins \in Nat
    /\ taskReq \in [Reqs -> TaskReq]
    /\ asks \in 0 .. MaxAsks
    /\ ledger \in Ledger

\* The days whose check-in is committed and whose completion is not written yet.
Pending == {taskReq[r].day : r \in {q \in Reqs : taskReq[q].pc = "record"}}
CheckedIn(d) == ledger.bonus[d] + ledger.renewed[d]

\* A day on which no check-in runs across midnight is checked in at most once.
OncePerDay == \A d \in Day \ ledger.crossed : CheckedIn(d) <= 1

\* Nobody pays to make up a day that was checked in, unless the completion of that
\* day is missing: lost, late, or written across midnight.
NothingPaidTwice ==
    \A d \in ledger.dates \ (ledger.crossed \cup ledger.lost \cup Pending) :
        CheckedIn(d) = 0

\* The wallet holds what the ledger says, and every reward has its completion:
\* rewards are paid once however many requests claim them.
CoinsAccounted ==
    coins = Fund + Bonus * SumFunction(ledger.bonus)
              - MakeupCost * (SumFunction(ledger.renewed) + Cardinality(ledger.dates))
              + Reward * Cardinality({k \in done : k[1] # "login"})

\* A streak is never longer than the days that were signed, with those whose
\* completion is missing, and the milestone is never paid for less.
Backing == Signed \cup ledger.lost \cup Pending
StreakBacked ==
    ledger.crossed = {} =>
        /\ streak <= Cardinality(Backing)
        /\ \A r \in Reqs : taskReq[r].streak <= Cardinality(Backing)
        /\ Milestone \in done => Target <= Cardinality(Backing)

\* As long as nothing was made up, lost or run across midnight, the streak beside
\* the tasks is the one on the calendar, until a day has been missed.
Undisturbed ==
    /\ ledger.dates = {} /\ SumFunction(ledger.renewed) = 0
    /\ ledger.lost = {} /\ ledger.crossed = {} /\ Pending = {}
StreaksAgree ==
    Undisturbed => IF today - last <= 1 THEN ListedStreak = CalendarStreak
                                        ELSE CalendarStreak = 0

TaskInv == OncePerDay /\ NothingPaidTwice /\ CoinsAccounted /\ StreakBacked /\ StreaksAgree

\* Every request is answered although two of them may wait for each other's share
\* of the user's row.
RequestsEnd == \A r \in Reqs : taskReq[r].pc # "idle" ~> taskReq[r].pc = "idle"
=============================================================================
