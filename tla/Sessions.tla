------------------------------ MODULE Sessions ------------------------------
(***************************************************************************)
(* Signing in and staying signed in: the refresh tokens of                 *)
(* pkg/repository/session.go and errors.go, the QR handshakes of           *)
(* qr_login.go, the handlers of the account service that use them, and the *)
(* deletion of accounts that ends them.                                    *)
(*                                                                         *)
(* A request is a sequence of statements, each on its own connection: what *)
(* an early one read may no longer be so when a later one writes.          *)
(* RotateRefreshToken is one step: its first statement locks the only row  *)
(* its outcome depends on.  Access tokens are stateless, so whoever was    *)
(* once signed in may call at any time.                                    *)
(***************************************************************************)
EXTENDS Naturals

CONSTANTS
    Users,
    Tokens,     \* refresh tokens that may be generated; no two are equal
    Codes,      \* QR handshake codes that may be generated
    Handlers,   \* concurrent requests of the account service
    Bannable,   \* users moderation may ban
    Doomed,     \* users who may ask for their account to be deleted
    MaxFaults,  \* bound: statements that fail, crashes
    None

ASSUME SessionsAssumption ==
    /\ None \notin Users \cup Tokens \cup Codes
    /\ MaxFaults \in Nat

VARIABLES
    account,     \* users.status and deleted_at: "elapsed" is over 30 days ago
    refresh,     \* rows of refresh_tokens; session is the token it began with
    qr,          \* rows of qr_logins
    req,         \* what each request is about to do
    candidates,  \* users the running purge has still to erase
    purging,     \* the user whose data is gone and whose row is next
    exchanged,   \* history: how often each token was exchanged for another
    revoked,     \* history: sessions their user was told are revoked
    approved,    \* history: approvals of each code answered with success
    collected,   \* history: polls of each code answered with tokens
    faults

vars == <<account, refresh, qr, req, candidates, purging, exchanged, revoked,
          approved, collected, faults>>

Row == [state : {"unused", "live", "gone"},
        user : Users \cup {None}, session : Tokens \cup {None}]

Live(u, s) == [state |-> "live", user |-> u, session |-> s]
NoRow(state) == [state |-> state, user |-> None, session |-> None]

Handshake == [status : {"none", "pending", "confirmed", "consumed", "expired"},
              user : Users \cup {None}, token : Tokens \cup {None}]

Shake(status, u, t) == [status |-> status, user |-> u, token |-> t]

(* pc "user": about to load the user; "store": about to create or rotate   *)
(* the session; "confirm", "collect": about to update the handshake.       *)
Req == [pc : {"idle", "user", "store", "confirm", "collect"},
        op : {"none", "login", "refresh", "approve", "poll"},
        user : Users \cup {None}, token : Tokens \cup {None}, code : Codes \cup {None}]

NewReq(pc, op, u, t, c) == [pc |-> pc, op |-> op, user |-> u, token |-> t, code |-> c]

NoReq == NewReq("idle", "none", None, None, None)

TypeOK ==
    /\ account \in [Users -> {"active", "banned", "deleting", "elapsed", "purged"}]
    /\ refresh \in [Tokens -> Row]
    /\ qr \in [Codes -> Handshake]
    /\ req \in [Handlers -> Req]
    /\ candidates \subseteq Users
    /\ purging \in Users \cup {None}
    /\ exchanged \in [Tokens -> Nat]
    /\ revoked \subseteq Tokens
    /\ approved \in [Codes -> Nat] /\ collected \in [Codes -> Nat]
    /\ faults \in Nat

Init ==
    /\ account = [u \in Users |-> "active"]
    /\ refresh = [t \in Tokens |-> NoRow("unused")]
    /\ qr = [c \in Codes |-> Shake("none", None, None)]
    /\ req = [p \in Handlers |-> NoReq]
    /\ candidates = {} /\ purging = None
    /\ exchanged = [t \in Tokens |-> 0] /\ revoked = {}
    /\ approved = [c \in Codes |-> 0] /\ collected = [c \in Codes |-> 0]
    /\ faults = 0

purger == <<candidates, purging>>
sessions == <<refresh, exchanged, revoked>>
handshakes == <<qr, approved, collected>>

----------------------------------------------------------------------------
Exists(u) == account[u] # "purged"

(* bannedResponse and the deleted_at check; an approval is not asked       *)
(* whether its user is banned.                                             *)
Admitted(u, op) == account[u] = "active" \/ (account[u] = "banned" /\ op = "approve")

Held(t) == refresh[t].state = "live"

Start(p, r) ==
    /\ req[p].pc = "idle"
    /\ req' = [req EXCEPT ![p] = r]
    /\ UNCHANGED <<account, sessions, handshakes, purger, faults>>

Done(p) == req' = [req EXCEPT ![p] = NoReq]

(* Login, or an OIDC sign-in, past the check of password or ticket.        *)
Login(p, u) ==
    /\ Admitted(u, "login")
    /\ Start(p, NewReq("store", "login", u, None, None))

(* RefreshToken: any token a client ever had may be presented, again too.  *)
ValidateRefreshToken(p, t) ==
    /\ Held(t)
    /\ Start(p, NewReq("user", "refresh", refresh[t].user, t, None))

ApproveQrLogin(p, u, c) ==
    /\ qr[c].status = "pending"
    /\ Start(p, NewReq("user", "approve", u, None, c))

(* The device that holds the poll secret polls.                            *)
PollQrLogin(p, c) ==
    /\ qr[c].status = "confirmed"
    /\ Start(p, NewReq("collect", "poll", None, None, c))

LoadUser(p) ==
    LET r == req[p]
    IN  /\ r.pc = "user"
        /\ IF Admitted(r.user, r.op)
           THEN req' = [req EXCEPT ![p] = NewReq("store", r.op, r.user, r.token, r.code)]
           ELSE Done(p)
        /\ UNCHANGED <<account, sessions, handshakes, purger, faults>>

(* CreateSession: a new session, unless the user row is gone.              *)
CreateSession(p) ==
    LET r == req[p]
    IN  /\ r.pc = "store" /\ r.op \in {"login", "approve"}
        /\ \/ /\ Exists(r.user)
              /\ \E t \in Tokens :
                   /\ refresh[t].state = "unused"
                   /\ refresh' = [refresh EXCEPT ![t] = Live(r.user, t)]
                   /\ IF r.op = "login"
                      THEN Done(p)
                      ELSE req' = [req EXCEPT ![p] =
                                     NewReq("confirm", r.op, r.user, t, r.code)]
           \/ /\ ~Exists(r.user) /\ Done(p)
              /\ UNCHANGED refresh
        /\ UNCHANGED <<account, exchanged, revoked, handshakes, purger, faults>>

(* Mutant: the rows affected by the DELETE are not looked at.              *)
MayRotateAgain(t, u) == Exists(u)
MayRotate(t, u) == Held(t) /\ refresh[t].user = u

(* RotateRefreshToken: the presented token is deleted and another one      *)
(* inserted for the same user, in one transaction.                         *)
RotateRefreshToken(p) ==
    LET r == req[p]
    IN  /\ r.pc = "store" /\ r.op = "refresh"
        /\ \/ /\ MayRotate(r.token, r.user)
              /\ \E t \in Tokens :
                   /\ refresh[t].state = "unused"
                   /\ refresh' = [refresh EXCEPT
                        ![r.token] = NoRow("gone"), ![t] = Live(r.user, refresh[r.token].session)]
              /\ exchanged' = [exchanged EXCEPT ![r.token] = @ + 1]
           \/ /\ ~MayRotate(r.token, r.user)
              /\ UNCHANGED <<refresh, exchanged>>
        /\ Done(p)
        /\ UNCHANGED <<account, revoked, handshakes, purger, faults>>

(* Mutant: WHERE code = $1 AND expires_at > NOW().                         *)
MayConfirmAgain(c) == qr[c].status \in {"pending", "confirmed", "consumed"}
MayConfirm(c) == qr[c].status = "pending"

(* ConfirmQrLogin; a refused approval leaves the session it created.       *)
ConfirmQrLogin(p) ==
    LET r == req[p]
    IN  /\ r.pc = "confirm"
        /\ \/ /\ MayConfirm(r.code) /\ Exists(r.user)
              /\ qr' = [qr EXCEPT ![r.code] = Shake("confirmed", r.user, r.token)]
              /\ approved' = [approved EXCEPT ![r.code] = @ + 1]
           \/ /\ ~(MayConfirm(r.code) /\ Exists(r.user))
              /\ UNCHANGED <<qr, approved>>
        /\ Done(p)
        /\ UNCHANGED <<account, sessions, collected, purger, faults>>

(* CollectQrLoginTokens: UPDATE ... SET refresh_token = '' ... RETURNING   *)
(* refresh_token returns what the row holds after the update, nothing.     *)
CollectQrLoginTokens(p) ==
    LET c == req[p].code
    IN  /\ req[p].pc = "collect"
        /\ \/ /\ qr[c].status = "confirmed"
              /\ qr' = [qr EXCEPT ![c] = Shake("consumed", qr[c].user, None)]
              /\ collected' = [collected EXCEPT ![c] = @ + 1]
           \/ /\ qr[c].status # "confirmed"
              /\ UNCHANGED <<qr, collected>>
        /\ Done(p)
        /\ UNCHANGED <<account, sessions, approved, purger, faults>>

----------------------------------------------------------------------------
(* CreateQrLogin.                                                          *)
CreateQrLogin(c) ==
    /\ qr[c].status = "none"
    /\ qr' = [qr EXCEPT ![c] = Shake("pending", None, None)]
    /\ UNCHANGED <<account, sessions, approved, collected, req, purger, faults>>

(* Five minutes pass; an hour later the row is deleted, to no effect.      *)
LapseQrLogin(c) ==
    /\ qr[c].status \in {"pending", "confirmed"}
    /\ qr' = [qr EXCEPT ![c] = Shake("expired", None, None)]
    /\ UNCHANGED <<account, sessions, approved, collected, req, purger, faults>>

Drop(S) == refresh' = [t \in Tokens |-> IF t \in S THEN NoRow("gone") ELSE refresh[t]]

(* Mutant: the row is read after it was deleted.                           *)
SessionAfter(t) == refresh'[t].session
SessionBefore(t) == refresh[t].session

(* DeleteMySession: the user ends one of the sessions ListSessions showed. *)
DeleteMySession(t) ==
    /\ Held(t)
    /\ Drop({t})
    /\ revoked' = revoked \cup {SessionBefore(t)}
    /\ UNCHANGED <<account, exchanged, handshakes, req, purger, faults>>

(* expires_at passes: no statement finds the row any more, and             *)
(* startAuthDataSweeper deletes it.                                        *)
Expire(t) ==
    /\ Held(t)
    /\ Drop({t})
    /\ UNCHANGED <<account, exchanged, revoked, handshakes, req, purger, faults>>

----------------------------------------------------------------------------
Mark(u, state) ==
    /\ account' = [account EXCEPT ![u] = state]
    /\ UNCHANGED <<sessions, handshakes, req, purger, faults>>

(* The moderators' doing; an account that is banned is not also deleted.   *)
Ban(u) == u \in Bannable /\ account[u] = "active" /\ Mark(u, "banned")
Unban(u) == account[u] = "banned" /\ Mark(u, "active")

RequestDeletion(u) == u \in Doomed /\ account[u] = "active" /\ Mark(u, "deleting")

GraceElapses(u) == account[u] = "deleting" /\ Mark(u, "elapsed")

(* The grace window is not looked at.                                      *)
CancelDeletion(u) == account[u] \in {"deleting", "elapsed"} /\ Mark(u, "active")

(* startAccountPurger: ListPurgeableUsers, then PurgeUserData of each,     *)
(* which does not look at deleted_at again.                                *)
ListPurgeableUsers ==
    /\ candidates = {} /\ purging = None
    /\ \E u \in Users : account[u] = "elapsed"
    /\ candidates' = {u \in Users : account[u] = "elapsed"}
    /\ UNCHANGED <<account, sessions, handshakes, req, purging, faults>>

PurgeSessions(u) ==
    /\ u \in candidates /\ purging = None
    /\ Drop({t \in Tokens : refresh[t].user = u})
    /\ purging' = u
    /\ candidates' = candidates \ {u}
    /\ UNCHANGED <<account, exchanged, revoked, handshakes, req, faults>>

(* DELETE FROM users; sessions and handshakes created since go with it.    *)
DeleteUser(u) ==
    /\ account' = [account EXCEPT ![u] = "purged"]
    /\ Drop({t \in Tokens : refresh[t].user = u})
    /\ qr' = [c \in Codes |-> IF qr[c].user = u THEN Shake("expired", None, None) ELSE qr[c]]

PurgeUser(u) ==
    /\ purging = u
    /\ DeleteUser(u)
    /\ purging' = None
    /\ UNCHANGED <<exchanged, revoked, approved, collected, req, candidates,
                   faults>>

----------------------------------------------------------------------------
(* A statement fails, or the model has no token left to generate.          *)
Fault(p) ==
    /\ req[p].pc # "idle"
    /\ \/ faults < MaxFaults /\ faults' = faults + 1
       \/ (\A t \in Tokens : refresh[t].state # "unused") /\ UNCHANGED faults
    /\ Done(p)
    /\ UNCHANGED <<account, sessions, handshakes, purger>>

(* A purge fails half way; the loop goes on with the next user.            *)
PurgeFails ==
    /\ faults < MaxFaults
    /\ \/ purging # None /\ purging' = None /\ UNCHANGED candidates
       \/ /\ purging = None /\ UNCHANGED purging
          /\ \E u \in candidates : candidates' = candidates \ {u}
    /\ faults' = faults + 1
    /\ UNCHANGED <<account, sessions, handshakes, req>>

Crash ==
    /\ faults < MaxFaults
    /\ faults' = faults + 1
    /\ req' = [p \in Handlers |-> NoReq]
    /\ candidates' = {} /\ purging' = None
    /\ UNCHANGED <<account, sessions, handshakes>>

----------------------------------------------------------------------------
Arrive(p) ==
    \/ \E u \in Users : Login(p, u)
    \/ \E t \in Tokens : ValidateRefreshToken(p, t)
    \/ \E u \in Users, c \in Codes : ApproveQrLogin(p, u, c)
    \/ \E c \in Codes : PollQrLogin(p, c)

Serve(p) ==
    \/ LoadUser(p)
    \/ CreateSession(p) \/ RotateRefreshToken(p)
    \/ ConfirmQrLogin(p) \/ CollectQrLoginTokens(p)

Purge == ListPurgeableUsers \/ \E u \in Users : PurgeSessions(u) \/ PurgeUser(u)

Next ==
    \/ \E p \in Handlers : Arrive(p) \/ Serve(p) \/ Fault(p)
    \/ \E c \in Codes : CreateQrLogin(c) \/ LapseQrLogin(c)
    \/ \E t \in Tokens : DeleteMySession(t) \/ Expire(t)
    \/ \E u \in Users : Ban(u) \/ Unban(u)
    \/ \E u \in Users : RequestDeletion(u) \/ GraceElapses(u) \/ CancelDeletion(u)
    \/ Purge \/ PurgeFails \/ Crash

Spec == Init /\ [][Next]_vars

----------------------------------------------------------------------------
(* A token is exchanged at most once, whatever retries and copies of it    *)
(* arrive at the same time (docs/token-refresh.md: "Rotated on every use   *)
(* (single-use)").                                                         *)
ExchangedOnce ==
    \A t \in Tokens : exchanged[t] <= 1 /\ (exchanged[t] = 1 => refresh[t].state = "gone")

(* A session has one token at a time: refreshes never fork it.             *)
OneTokenPerSession ==
    \A s, t \in Tokens :
      Held(s) /\ Held(t) /\ refresh[s].session = refresh[t].session => s = t

(* A session its user has revoked is over, although a refresh of it had    *)
(* been validated before; so are the sessions of an erased account.        *)
RevokedIsOver ==
    \A t \in Tokens : Held(t) => refresh[t].session \notin revoked /\ Exists(refresh[t].user)

(* The first token of a session names it, so it was stored before any      *)
(* other, and a token that was never stored has no history.                *)
Lineage ==
    \A t \in Tokens :
      /\ Held(t) => /\ refresh[t].user \in Users /\ refresh[t].session \in Tokens
                    /\ refresh[refresh[t].session].state # "unused"
      /\ refresh[t].state = "unused" => t \notin revoked

SessionInv == ExchangedOnce /\ OneTokenPerSession /\ RevokedIsOver /\ Lineage

(* A token was stored for u; it may have been used, revoked or expired.    *)
SessionOf(t, u) ==
    refresh[t].state # "unused" /\ (Held(t) => refresh[t].user = u)

(* A handshake is approved by one user once and collected once, and while  *)
(* it is confirmed it holds a session of the very user who approved it     *)
(* (qr_login.go: "Codes are single-use").                                  *)
UsedOnce(c) ==
    /\ approved[c] <= 1 /\ collected[c] <= approved[c]
    /\ qr[c].status \in {"none", "pending"} => approved[c] = 0
    /\ qr[c].status = "confirmed" =>
         /\ approved[c] = 1 /\ collected[c] = 0
         /\ qr[c].user \in Users /\ Exists(qr[c].user)
         /\ qr[c].token \in Tokens /\ SessionOf(qr[c].token, qr[c].user)

HandshakeInv == \A c \in Codes : UsedOnce(c)

(* What a request is about to do fits what it has done.                    *)
Fits(r) ==
    /\ r.pc = "user" => r.op \in {"refresh", "approve"}
    /\ r.pc \in {"user", "store", "confirm"} => r.user \in Users
    /\ r.pc \in {"user", "store"} /\ r.op = "refresh" => r.token \in Tokens
    /\ r.pc \in {"user", "store"} /\ r.op = "approve" => r.code \in Codes
    /\ r.pc = "confirm" => r.code \in Codes /\ r.token \in Tokens /\ SessionOf(r.token, r.user)
    /\ r.pc = "collect" => r.code \in Codes

ReqInv == \A p \in Handlers : Fits(req[p])

SignInInv == SessionInv /\ HandshakeInv /\ ReqInv
=============================================================================
