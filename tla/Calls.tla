-------------------------------- MODULE Calls --------------------------------
(***************************************************************************)
(* The calls of one conversation (services/chat/internal/handler/call.go,  *)
(* pkg/repository/call.go): the state machine ringing -> active -> ended.  *)
(*                                                                         *)
(* A handler is a sequence of single statements, each its own transaction: *)
(* what it read in loadCallForParticipant may be out of date by the time   *)
(* it acts, and between two statements any other handler, the 2 second     *)
(* sweeper or a crash of the chat service may come.  Only the conditional  *)
(* UPDATEs of Answer, End and SweepRinging decide races.  Pushed events    *)
(* other than call.ended leave no state behind and are not modelled.       *)
(***************************************************************************)
EXTENDS Naturals, FiniteSets

CONSTANTS
    Users,      \* those who call and are rung
    Ids,        \* rows of call_sessions
    Handlers,   \* concurrent requests
    Sweeper,    \* the goroutine of StartSweeper
    MaxFaults,  \* bound: statements that fail, crashes
    MaxPurges,  \* bound: accounts erased, bots deleted
    Scopes,     \* bound: the rosters, rows and requests that come together
    None

ASSUME CallsAssumption ==
    /\ None \notin Users \cup Ids
    /\ Sweeper \notin Handlers
    /\ MaxFaults \in Nat /\ MaxPurges \in Nat
    /\ Scopes \subseteq SUBSET (Users \cup Ids \cup Handlers \cup {"faults", "purges"})

Procs == Handlers \cup {Sweeper}

VARIABLES
    call,     \* rows of call_sessions
    part,     \* call_participants.state
    overdue,  \* ringing for more than RingTimeout seconds
    req,      \* the request each process is serving
    swept,    \* calls the running sweep has ended and not yet reported
    ended,    \* call.ended events published, per call
    record,   \* history messages written, per call, and the outcome they tell
    gone,     \* users whose row has been deleted
    deserted, \* history: calls the last participant of which has not hung up
              \* but declined, or is gone
    faults,
    scope     \* what takes part in this behaviour

lost == <<gone, deserted>>
vars == <<call, part, overdue, req, swept, ended, record, lost, faults, scope>>

Reason == {"hung_up", "cancelled", "declined", "timeout"}
Outcome == {"answered", "declined", "missed", "cancelled"}

States == {"none", "ringing", "active", "ended", "erased"}

Call == [state : States, initiator : Users \cup {None},
         answered : BOOLEAN, reason : Reason \cup {"none"}]

NewCall(state, u) == [state |-> state, initiator |-> u, answered |-> FALSE, reason |-> "none"]

Answered(c) == [c EXCEPT !.state = "active", !.answered = TRUE]

Closed(c, reason) == [c EXCEPT !.state = "ended", !.reason = reason]

Erase(c) == [c EXCEPT !.state = "erased"]

Record == [count : Nat, outcome : Outcome \cup {"none"}]

Written(n, outcome) == [count |-> n, outcome |-> outcome]

(* pc names the next statement of the request; ringing and group are what  *)
(* loadCallForParticipant read: its state, and what isGroupCall says of    *)
(* its roster; reason is what End will be told.                            *)
Req == [pc : {"idle", "answer", "reread", "join", "decline", "leave", "remaining", "end",
              "publish", "record"},
        user : Users \cup {None}, id : Ids \cup {None},
        ringing : BOOLEAN, group : BOOLEAN, reason : Reason \cup {"none"}]

NewReq(pc, u, i, ringing, group, reason) ==
    [pc |-> pc, user |-> u, id |-> i, ringing |-> ringing, group |-> group, reason |-> reason]

At(r, pc, reason) == [r EXCEPT !.pc = pc, !.reason = reason]

NoReq == NewReq("idle", None, None, FALSE, FALSE, "none")

TypeOK ==
    /\ call \in [Ids -> Call]
    /\ part \in [Ids -> [Users -> {"none", "invited", "accepted", "declined", "left"}]]
    /\ overdue \subseteq Ids
    /\ req \in [Procs -> Req]
    /\ \A p \in Procs : req[p].pc # "idle" => req[p].id \in Ids
    /\ swept \subseteq Ids
    /\ ended \in [Ids -> Nat]
    /\ record \in [Ids -> Record]
    /\ gone \subseteq Users /\ deserted \subseteq Ids
    /\ faults \in Nat
    /\ scope \in Scopes

Init ==
    /\ call = [i \in Ids |-> NewCall("none", None)]
    /\ part = [i \in Ids |-> [u \in Users |-> "none"]]
    /\ overdue = {}
    /\ req = [p \in Procs |-> NoReq]
    /\ swept = {}
    /\ ended = [i \in Ids |-> 0]
    /\ record = [i \in Ids |-> Written(0, "none")]
    /\ gone = {} /\ deserted = {}
    /\ faults = 0
    /\ scope \in Scopes

db == <<call, part, overdue, record>>

----------------------------------------------------------------------------
Roster == (Users \cap scope) \ gone

(* isGroupCall: the roster decides, not the type of the conversation.      *)
IsGroup(i) == Cardinality({u \in Users : part[i][u] # "none"}) > 2

Live(i) == call[i].state \in {"ringing", "active"}

Over(i) == call[i].state \in {"ended", "erased"}

LineFree == \A j \in Ids : ~Live(j)

MayFail == "faults" \in scope /\ faults < MaxFaults

(* Start and CreateRinging: idx_calls_live refuses a second live call.     *)
CreateRinging(i, u) ==
    /\ i \in scope /\ u \in Roster /\ Roster # {u}
    /\ call[i].state = "none"
    /\ LineFree
    /\ call' = [call EXCEPT ![i] = NewCall("ringing", u)]
    /\ part' = [part EXCEPT ![i] = [v \in Users |->
         IF v = u THEN "accepted" ELSE IF v \in Roster THEN "invited" ELSE "none"]]
    /\ UNCHANGED <<overdue, req, swept, ended, record, lost, faults, scope>>

RingTimeout(i) ==
    /\ call[i].state = "ringing" /\ i \notin overdue
    /\ overdue' = overdue \cup {i}
    /\ UNCHANGED <<call, part, req, swept, ended, record, lost, faults, scope>>

(* loadCallForParticipant at the head of Answer, Decline and Hangup.       *)
Load(p, pc, u, i) ==
    /\ req[p].pc = "idle" /\ p \in scope
    /\ part[i][u] # "none"
    /\ pc = "answer" => call[i].initiator # u
    /\ req' = [req EXCEPT ![p] = NewReq(pc, u, i, call[i].state = "ringing", IsGroup(i), "none")]
    /\ UNCHANGED <<db, swept, ended, lost, faults, scope>>

Goto(p, pc, reason) == req' = [req EXCEPT ![p] = At(req[p], pc, reason)]

Step(p, pc) == Goto(p, pc, req[p].reason)

Done(p) == req' = [req EXCEPT ![p] = NoReq]

(* The row of the participant may have gone with the user.                 *)
Listed(p) == part[req[p].id][req[p].user] # "none"

Mark(p, state) ==
    part' = IF Listed(p) THEN [part EXCEPT ![req[p].id] = [@ EXCEPT ![req[p].user] = state]]
                         ELSE part

Accept(p) ==
    /\ Mark(p, "accepted")
    /\ deserted' = IF Listed(p) THEN deserted \ {req[p].id} ELSE deserted

(* Mutant: the UPDATE is not conditional on the call still ringing.        *)
MayAnswerAlways(i) == TRUE
MayAnswer(i) == call[i].state = "ringing"

(* CallRepository.Answer: the conditional UPDATE and the participant's row *)
(* in one transaction.                                                     *)
Answer(p) ==
    LET i == req[p].id
    IN  /\ req[p].pc = "answer"
        /\ \/ /\ MayAnswer(i)
              /\ call' = [call EXCEPT ![i] = Answered(call[i])]
              /\ Accept(p)
              /\ Done(p)
           \/ /\ ~MayAnswer(i)
              /\ Step(p, "reread")
              /\ UNCHANGED <<call, part, deserted>>
        /\ UNCHANGED <<overdue, swept, ended, record, gone, faults, scope>>

(* The loser of the race is told; in a group it may still join, on the     *)
(* strength of the state read here.                                        *)
Reread(p) ==
    /\ req[p].pc = "reread"
    /\ IF ~Over(req[p].id) /\ IsGroup(req[p].id) THEN Step(p, "join") ELSE Done(p)
    /\ UNCHANGED <<db, swept, ended, lost, faults, scope>>

Join(p) ==
    /\ req[p].pc = "join"
    /\ Accept(p)
    /\ Done(p)
    /\ UNCHANGED <<call, overdue, swept, ended, record, gone, faults, scope>>

Alone(i, u) ==
    /\ part[i][u] = "accepted"
    /\ \A v \in Users \ {u} : part[i][v] # "accepted"

(* Decline: always recorded, also of who has accepted; ends a one-to-one   *)
(* call.                                                                   *)
Decline(p) ==
    LET r == req[p]
    IN  /\ r.pc = "decline"
        /\ Mark(p, "declined")
        /\ IF r.group THEN Done(p) ELSE Goto(p, "end", "declined")
        /\ deserted' = IF r.group /\ Alone(r.id, r.user) THEN deserted \cup {r.id} ELSE deserted
        /\ UNCHANGED <<call, overdue, swept, ended, record, gone, faults, scope>>

(* Hangup decides by the state it loaded.                                  *)
Leave(p) ==
    LET r == req[p]
        cancels == r.ringing /\ call[r.id].initiator = r.user
    IN  /\ r.pc = "leave"
        /\ Goto(p, IF r.group /\ ~cancels THEN "remaining" ELSE "end",
                   IF r.ringing THEN "cancelled" ELSE "hung_up")
        /\ \/ Mark(p, "left") /\ UNCHANGED faults
           \/ /\ MayFail   \* the failed UPDATE is only logged
              /\ faults' = faults + 1
              /\ UNCHANGED part
        /\ UNCHANGED <<call, overdue, swept, ended, record, lost, scope>>

(* Mutant: those still being rung count as company.                        *)
InCompany(i) == \E u \in Users : part[i][u] \in {"accepted", "invited"}
InCall(i) == \E u \in Users : part[i][u] = "accepted"

(* AcceptedParticipants: the last one to leave a group ends its call.      *)
Remaining(p) ==
    /\ req[p].pc = "remaining"
    /\ IF InCall(req[p].id) THEN Done(p) ELSE Step(p, "end")
    /\ UNCHANGED <<db, swept, ended, lost, faults, scope>>

(* Mutant: End does not look at the state.                                 *)
MayEndAlways(i) == call[i].state # "none"
MayEnd(i) == Live(i)

(* CallRepository.End: only the request whose UPDATE found the call live   *)
(* goes on to report it.                                                   *)
End(p) ==
    LET i == req[p].id
    IN  /\ req[p].pc = "end"
        /\ \/ /\ MayEnd(i)
              /\ call' = [call EXCEPT ![i] = Closed(call[i], req[p].reason)]
              /\ Step(p, "publish")
           \/ /\ ~MayEnd(i)
              /\ Done(p)
              /\ UNCHANGED call
        /\ UNCHANGED <<part, overdue, swept, ended, record, lost, faults, scope>>

Erased(i) == call[i].state = "erased"

(* Mutant: endCall returns after the event.                                *)
PublishOnly(p) ==
    LET i == req[p].id
    IN  /\ req[p].pc = "publish"
        /\ ended' = [ended EXCEPT ![i] = @ + 1]
        /\ Done(p)
        /\ UNCHANGED <<db, swept, lost, faults, scope>>

(* endCall reads the call again for the event; the sweeper has it.         *)
PublishEnded(p) ==
    LET i == req[p].id
    IN  /\ req[p].pc = "publish"
        /\ \/ /\ Erased(i) /\ p # Sweeper
              /\ Done(p)
              /\ UNCHANGED ended
           \/ /\ ~Erased(i) \/ p = Sweeper
              /\ ended' = [ended EXCEPT ![i] = @ + 1]
              /\ Step(p, "record")
        /\ UNCHANGED <<db, swept, lost, faults, scope>>

(* Mutant: the end reason is written in place of the outcome.              *)
OutcomeIsReason(c) == c.reason

CallOutcome(c) ==
    CASE c.answered -> "answered"
      [] ~c.answered /\ c.reason = "declined" -> "declined"
      [] ~c.answered /\ c.reason = "timeout" -> "missed"
      [] OTHER -> "cancelled"

(* The message has the conversation and the initiator as foreign keys.     *)
RecordCall(p) ==
    LET i == req[p].id
        outcome == IF p = Sweeper THEN "missed" ELSE CallOutcome(call[i])
    IN  /\ req[p].pc = "record"
        /\ record' = IF Erased(i) THEN record
                      ELSE [record EXCEPT ![i] = Written(record[i].count + 1, outcome)]
        /\ Done(p)
        /\ UNCHANGED <<call, part, overdue, swept, ended, lost, faults, scope>>

----------------------------------------------------------------------------
Sweepable(i) == call[i].state = "ringing"

(* SweepRinging: one UPDATE ends every overdue ringing call ...            *)
SweepRinging ==
    LET due == {i \in overdue : Sweepable(i)}
    IN  /\ req[Sweeper].pc = "idle" /\ swept = {} /\ due # {}
        /\ call' = [i \in Ids |-> IF i \in due THEN Closed(call[i], "timeout") ELSE call[i]]
        /\ swept' = due
        /\ UNCHANGED <<part, overdue, req, ended, record, lost, faults, scope>>

(* ... which the sweeper then reports one after the other.                 *)
ReportSwept(i) ==
    /\ req[Sweeper].pc = "idle" /\ i \in swept
    /\ swept' = swept \ {i}
    /\ req' = [req EXCEPT ![Sweeper] = NewReq("publish", None, i, FALSE, FALSE, "timeout")]
    /\ UNCHANGED <<db, ended, lost, faults, scope>>

----------------------------------------------------------------------------
(* A statement fails and its handler gives up.                             *)
Fault(p) ==
    /\ req[p].pc # "idle" /\ MayFail
    /\ Done(p)
    /\ faults' = faults + 1
    /\ UNCHANGED <<db, swept, ended, lost, scope>>

(* Get fails after the sweep's UPDATE, or finds a call no more: then       *)
(* SweepRinging returns nothing.                                           *)
SweepLost ==
    /\ swept # {}
    /\ \/ MayFail /\ faults' = faults + 1
       \/ (\E i \in swept : Erased(i)) /\ UNCHANGED faults
    /\ swept' = {}
    /\ UNCHANGED <<db, req, ended, lost, scope>>

Crash ==
    /\ MayFail
    /\ faults' = faults + 1
    /\ req' = [p \in Procs |-> NoReq]
    /\ swept' = {}
    /\ UNCHANGED <<db, ended, lost, scope>>

(* DELETE FROM users, by PurgeUserData or DeleteBot: the calls of the user *)
(* and its rows in those of others go with it.                             *)
PurgeUser(u) ==
    LET own == {i \in Ids : call[i].initiator = u}
    IN  /\ "purges" \in scope /\ u \in Roster
        /\ Cardinality(gone) < MaxPurges
        /\ gone' = gone \cup {u}
        /\ call' = [i \in Ids |-> IF i \in own THEN Erase(call[i]) ELSE call[i]]
        /\ part' = [i \in Ids |-> [v \in Users |->
             IF i \in own \/ v = u THEN "none" ELSE part[i][v]]]
        /\ deserted' = deserted \cup {i \in Ids \ own : Alone(i, u)}
        /\ UNCHANGED <<overdue, req, swept, ended, record, faults, scope>>

----------------------------------------------------------------------------
Serve(p) ==
    \/ Answer(p) \/ Reread(p) \/ Join(p)
    \/ Decline(p)
    \/ Leave(p) \/ Remaining(p)
    \/ End(p) \/ PublishEnded(p) \/ RecordCall(p)

Sweep == SweepRinging \/ \E i \in Ids : ReportSwept(i)

Next ==
    \/ \E i \in Ids, u \in Users : CreateRinging(i, u)
    \/ \E i \in Ids : RingTimeout(i)
    \/ \E p \in Handlers, pc \in {"answer", "decline", "leave"}, u \in Users, i \in Ids :
         Load(p, pc, u, i)
    \/ \E p \in Procs : Serve(p)
    \/ Sweep
    \/ \E p \in Procs : Fault(p)
    \/ SweepLost
    \/ Crash
    \/ \E u \in Users : PurgeUser(u)

Spec == Init /\ [][Next]_vars

(* Time passes, a request that was accepted goes on, the ticker fires.     *)
Fairness ==
    /\ \A i \in Ids : WF_vars(RingTimeout(i))
    /\ \A p \in Procs : WF_vars(Serve(p))
    /\ WF_vars(Sweep)

FairSpec == Spec /\ Fairness

----------------------------------------------------------------------------
(* At most one live call, one call.ended event and one history message per *)
(* call, however hangups, declines, retries and the sweeper race; and the  *)
(* message tells how the call really ended (docs/calls.md 2, 5.5 and 10).  *)
OneLiveCall == \A i, j \in Ids : Live(i) /\ Live(j) => i = j

ReportedOnce ==
    \A i \in Ids :
      /\ ended[i] <= 1
      /\ record[i].count <= ended[i]
      /\ ended[i] = 1 => Over(i)
      /\ record[i].count = 1 => record[i].outcome = CallOutcome(call[i])

(* ReportedOnce made inductive: whoever ended a call owns its report, and  *)
(* nobody else does.                                                       *)
Reporting(p, i) == req[p].pc \in {"publish", "record"} /\ req[p].id = i

OneReporter ==
    /\ \A i \in Ids : \A p, q \in Procs : Reporting(p, i) /\ Reporting(q, i) => p = q
    /\ \A i \in swept : \A p \in Procs : ~Reporting(p, i)

ReportPending ==
    /\ \A i \in swept : Over(i) /\ ended[i] = 0 /\ record[i].count = 0
    /\ \A p \in Procs, i \in Ids : Reporting(p, i) =>
         /\ Over(i)
         /\ record[i].count = 0
         /\ ended[i] = IF req[p].pc = "publish" THEN 0 ELSE 1
    /\ \A i \in Ids : ~Over(i) => ended[i] = 0 /\ record[i].count = 0

(* What the sweeper ended was never answered: the "missed" it records is   *)
(* what callOutcome would have said.                                       *)
SweptMissed ==
    /\ req[Sweeper].pc \in {"idle", "publish", "record"}
    /\ \A i \in Ids : call[i].answered => call[i].state = "active" \/ Over(i)
    /\ \A i \in Ids : i \in swept \/ Reporting(Sweeper, i) => CallOutcome(call[i]) = "missed"

CallInv == OneLiveCall /\ ReportedOnce /\ OneReporter /\ ReportPending /\ SweptMissed

(* "ended" is final: nothing a late request does changes how a call ended, *)
(* until its row is deleted with its initiator.                            *)
EndedIsFinal ==
    [][\A i \in Ids :
         Over(i) => call'[i] \in {call[i], Erase(call[i])}]_vars

(* A call does not ring for ever, or the conversation could never be       *)
(* called again (the comment on StartSweeper); and "every call that ends   *)
(* leaves one message" (docs/calls.md 10), and one call.ended event,       *)
(* unless a statement fails.                                               *)
Settled(i) ==
    \/ call[i].state \in {"active", "erased"}
    \/ call[i].state = "ended" /\ (faults > 0 \/ (ended[i] = 1 /\ record[i].count = 1))

CallsSettle == \A i \in Ids : call[i].state \in {"ringing", "ended"} ~> Settled(i)

(* docs/calls.md 5.5: the last accepted participant to hang up ends the    *)
(* call, whoever hangs up, declines, joins or disappears at the same time. *)
(* A call at rest that is still live, and blocks the next, has somebody in *)
(* it, unless the last one has left otherwise: by declining a call it had  *)
(* accepted, which ends no call of a group, or with its account.  Or a     *)
(* statement has failed.                                                   *)
LastHangupEnds ==
    \A i \in Ids :
      Live(i) /\ faults = 0 /\ (\A p \in Procs : req[p].pc = "idle") =>
        i \in deserted \/ \E u \in Users : part[i][u] = "accepted"
=============================================================================
