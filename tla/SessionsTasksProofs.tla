------------------------- MODULE SessionsTasksProofs -------------------------
(* Proofs about Sessions, and then about Tasks: two components that share no *)
(* variable and no definition, only the sets that their constants name. No   *)
(* proof of the one cites an assumption of the other.                        *)
EXTENDS Sessions, Tasks, SumLemmas

(* Proofs about Sessions: for any users, tokens, codes and requests.        *)

(* The values the actions build are of the right type and hold what they    *)
(* are built from.                                                          *)
LEMMA RowTypes ==
    /\ \A u \in Users, s \in Tokens : Live(u, s) \in Row
    /\ \A u, s : Live(u, s).state = "live" /\ Live(u, s).user = u /\ Live(u, s).session = s
    /\ \A st \in {"unused", "gone"} : NoRow(st) \in Row
    /\ \A st : NoRow(st).state = st /\ NoRow(st).user = None
  BY DEF Live, NoRow, Row

LEMMA ShakeTypes ==
    /\ \A st \in {"none", "pending", "confirmed", "consumed", "expired"},
          u \in Users \cup {None}, t \in Tokens \cup {None} : Shake(st, u, t) \in Handshake
    /\ \A st, u, t : /\ Shake(st, u, t).status = st /\ Shake(st, u, t).user = u
                     /\ Shake(st, u, t).token = t
  BY DEF Shake, Handshake

LEMMA ReqTypes ==
    /\ NoReq \in Req /\ NoReq.pc = "idle"
    /\ \A pc \in {"user", "store", "confirm", "collect"},
          op \in {"login", "refresh", "approve", "poll"},
          u \in Users \cup {None}, t \in Tokens \cup {None}, c \in Codes \cup {None} :
         NewReq(pc, op, u, t, c) \in Req
    /\ \A pc, op, u, t, c :
         LET r == NewReq(pc, op, u, t, c)
         IN  r.pc = pc /\ r.op = op /\ r.user = u /\ r.token = t /\ r.code = c
  BY DEF NoReq, NewReq, Req

LEMMA DoneType == ASSUME NEW p \in Handlers, TypeOK, Done(p) PROVE req' \in [Handlers -> Req]
  BY ReqTypes DEF TypeOK, Done

LEMMA DropType ==
  ASSUME NEW S, TypeOK, Drop(S) PROVE refresh' \in [Tokens -> Row]
  BY RowTypes DEF TypeOK, Drop

(* What refresh looks like after each of the three ways it changes.         *)
LEMMA DropEffect ==
  ASSUME NEW S, TypeOK, Drop(S)
  PROVE  /\ \A t \in Tokens \ S : refresh'[t] = refresh[t]
         /\ \A t \in Tokens : t \in S => refresh'[t].state = "gone"
  BY RowTypes DEF TypeOK, Drop

----------------------------------------------------------------------------
LEMMA InitHolds == Init => TypeOK /\ SignInInv
<1> SUFFICES ASSUME Init PROVE TypeOK /\ SignInInv
  OBVIOUS
<1>1. TypeOK
  BY RowTypes, ShakeTypes, ReqTypes DEF Init, TypeOK
<1>2. SessionInv
  BY RowTypes DEF Init, SessionInv, ExchangedOnce, OneTokenPerSession, RevokedIsOver, Lineage,
                  Held
<1>3. HandshakeInv
  BY ShakeTypes DEF Init, HandshakeInv, UsedOnce
<1>4. ReqInv
  BY ReqTypes DEF Init, ReqInv, Fits
<1> QED
  BY <1>1, <1>2, <1>3, <1>4 DEF SignInInv

----------------------------------------------------------------------------
(* One request takes a step of its own.                                     *)
LEMMA ArriveType == ASSUME NEW p \in Handlers, TypeOK, Arrive(p) PROVE TypeOK'
<1>1. ASSUME NEW r \in Req, Start(p, r) PROVE TypeOK'
  BY <1>1 DEF Start, TypeOK, sessions, handshakes, purger
<1>2. ASSUME NEW u \in Users, Login(p, u) PROVE TypeOK'
  <2>1. NewReq("store", "login", u, None, None) \in Req
    BY ReqTypes
  <2> QED  BY <1>1, <1>2, <2>1 DEF Login
<1>3. ASSUME NEW t \in Tokens, ValidateRefreshToken(p, t) PROVE TypeOK'
  <2>1. NewReq("user", "refresh", refresh[t].user, t, None) \in Req
    BY ReqTypes DEF TypeOK, Row
  <2> QED  BY <1>1, <1>3, <2>1 DEF ValidateRefreshToken
<1>4. ASSUME NEW u \in Users, NEW c \in Codes, ApproveQrLogin(p, u, c) PROVE TypeOK'
  <2>1. NewReq("user", "approve", u, None, c) \in Req
    BY ReqTypes
  <2> QED  BY <1>1, <1>4, <2>1 DEF ApproveQrLogin
<1>5. ASSUME NEW c \in Codes, PollQrLogin(p, c) PROVE TypeOK'
  <2>1. NewReq("collect", "poll", None, None, c) \in Req
    BY ReqTypes
  <2> QED  BY <1>1, <1>5, <2>1 DEF PollQrLogin
<1> QED
  BY <1>2, <1>3, <1>4, <1>5 DEF Arrive

LEMMA ServeType == ASSUME NEW p \in Handlers, TypeOK, SignInInv, Serve(p) PROVE TypeOK'
<1>0. req[p] \in Req /\ ReqInv /\ Lineage
  BY DEF TypeOK, SignInInv, SessionInv
<1>a. /\ req[p].user \in Users \cup {None} /\ req[p].token \in Tokens \cup {None}
      /\ req[p].code \in Codes \cup {None}
  BY <1>0 DEF Req
<1>1. CASE LoadUser(p)
  <2>1. NewReq("store", req[p].op, req[p].user, req[p].token, req[p].code) \in Req
    <3>1. req[p].op \in {"refresh", "approve"}
      BY <1>0, <1>1 DEF LoadUser, ReqInv, Fits
    <3>2. PICK o, u, t, c : o = req[p].op /\ u = req[p].user /\ t = req[p].token /\ c = req[p].code
      OBVIOUS
    <3>3. NewReq("store", o, u, t, c) \in Req
      BY <1>a, <3>1, <3>2 DEF NewReq, Req
    <3> QED  BY <3>2, <3>3
  <2>2. req' \in [Handlers -> Req]
    <3>1. \/ req' = [req EXCEPT ![p] = NewReq("store", req[p].op, req[p].user, req[p].token, req[p].code)]
          \/ Done(p)
      BY <1>1 DEF LoadUser
    <3>2. CASE Done(p)
      BY <3>2, DoneType
    <3> QED  BY <2>1, <3>1, <3>2 DEF TypeOK
  <2> QED  BY <1>1, <2>2 DEF LoadUser, TypeOK, sessions, handshakes, purger
<1>2. CASE CreateSession(p)
  <2>1. req[p].user \in Users
    BY <1>0, <1>2 DEF CreateSession, ReqInv, Fits
  <2>2. ASSUME NEW t \in Tokens
        PROVE  NewReq("confirm", req[p].op, req[p].user, t, req[p].code) \in Req
    BY <1>a, <1>2, ReqTypes DEF CreateSession
  <2>3. refresh' \in [Tokens -> Row]
    BY <1>2, <2>1, RowTypes DEF CreateSession, TypeOK
  <2>4. req' \in [Handlers -> Req]
    <3>1. CASE Done(p)
      BY <3>1, DoneType
    <3>2. CASE \E t \in Tokens :
                 req' = [req EXCEPT ![p] =
                           NewReq("confirm", req[p].op, req[p].user, t, req[p].code)]
      BY <2>2, <3>2 DEF TypeOK
    <3> QED  BY <1>2, <3>1, <3>2 DEF CreateSession
  <2> QED  BY <1>2, <2>3, <2>4 DEF CreateSession, TypeOK, handshakes, purger
<1>3. CASE RotateRefreshToken(p)
  <2>1. req[p].user \in Users /\ req[p].token \in Tokens
    BY <1>0, <1>3 DEF RotateRefreshToken, ReqInv, Fits
  <2>2. req' \in [Handlers -> Req]
    BY <1>3, DoneType DEF RotateRefreshToken
  <2>3. CASE UNCHANGED <<refresh, exchanged>>
    BY <1>3, <2>2, <2>3 DEF RotateRefreshToken, TypeOK, handshakes, purger
  <2>4. ASSUME NEW t \in Tokens, MayRotate(req[p].token, req[p].user),
               refresh' = [refresh EXCEPT ![req[p].token] = NoRow("gone"),
                             ![t] = Live(req[p].user, refresh[req[p].token].session)],
               exchanged' = [exchanged EXCEPT ![req[p].token] = @ + 1]
        PROVE  TypeOK'
    <3>1. refresh[req[p].token].session \in Tokens
      BY <1>0, <2>1, <2>4 DEF MayRotate, Lineage
    <3>2. refresh' \in [Tokens -> Row] /\ exchanged' \in [Tokens -> Nat]
      BY <2>1, <2>4, <3>1, RowTypes DEF TypeOK
    <3> QED  BY <1>3, <2>2, <3>2 DEF RotateRefreshToken, TypeOK, handshakes, purger
  <2> QED  BY <1>3, <2>3, <2>4 DEF RotateRefreshToken
<1>4. CASE ConfirmQrLogin(p)
  <2>1. req[p].user \in Users /\ req[p].token \in Tokens /\ req[p].code \in Codes
    BY <1>0, <1>4 DEF ConfirmQrLogin, ReqInv, Fits
  <2>2. req' \in [Handlers -> Req]
    BY <1>4, DoneType DEF ConfirmQrLogin
  <2>3. Shake("confirmed", req[p].user, req[p].token) \in Handshake
    BY <2>1, ShakeTypes
  <2>4. qr' \in [Codes -> Handshake]
    BY <1>4, <2>1, <2>3 DEF ConfirmQrLogin, TypeOK
  <2>5. approved' \in [Codes -> Nat]
    BY <1>4, <2>1 DEF ConfirmQrLogin, TypeOK
  <2> QED  BY <1>4, <2>2, <2>4, <2>5 DEF ConfirmQrLogin, TypeOK, sessions, purger
<1>5. CASE CollectQrLoginTokens(p)
  <2>1. req[p].code \in Codes
    BY <1>0, <1>5 DEF CollectQrLoginTokens, ReqInv, Fits
  <2>2. req' \in [Handlers -> Req]
    BY <1>5, DoneType DEF CollectQrLoginTokens
  <2>3. qr[req[p].code] \in Handshake
    BY <2>1 DEF TypeOK
  <2>4. Shake("consumed", qr[req[p].code].user, None) \in Handshake
    BY <2>3, ShakeTypes DEF Handshake
  <2>5. qr' \in [Codes -> Handshake] /\ collected' \in [Codes -> Nat]
    BY <1>5, <2>1, <2>4 DEF CollectQrLoginTokens, TypeOK
  <2> QED  BY <1>5, <2>2, <2>5 DEF CollectQrLoginTokens, TypeOK, sessions, purger
<1> QED
  BY <1>1, <1>2, <1>3, <1>4, <1>5 DEF Serve

LEMMA NextType == TypeOK /\ SignInInv /\ [Next]_vars => TypeOK'
<1> SUFFICES ASSUME TypeOK, SignInInv, [Next]_vars PROVE TypeOK'
  OBVIOUS
<1>1. ASSUME NEW p \in Handlers, Fault(p) PROVE TypeOK'
  BY <1>1, DoneType DEF Fault, TypeOK, sessions, handshakes, purger
<1>2. ASSUME NEW c \in Codes, CreateQrLogin(c) \/ LapseQrLogin(c) PROVE TypeOK'
  <2>1. /\ Shake("pending", None, None) \in Handshake
        /\ Shake("expired", None, None) \in Handshake
    BY ShakeTypes
  <2> QED  BY <1>2, <2>1 DEF CreateQrLogin, LapseQrLogin, TypeOK, sessions, purger
<1>3. ASSUME NEW t \in Tokens, DeleteMySession(t) PROVE TypeOK'
  <2>1. refresh[t].session \in Tokens
    BY <1>3 DEF DeleteMySession, SignInInv, SessionInv, Lineage
  <2>2. refresh' \in [Tokens -> Row]
    BY <1>3, DropType DEF DeleteMySession
  <2> QED  BY <1>3, <2>1, <2>2 DEF DeleteMySession, SessionBefore, TypeOK, handshakes, purger
<1>4. ASSUME NEW t \in Tokens, Expire(t) PROVE TypeOK'
  <2>1. refresh' \in [Tokens -> Row]
    BY <1>4, DropType DEF Expire
  <2> QED  BY <1>4, <2>1 DEF Expire, TypeOK, handshakes, purger
<1>5. ASSUME NEW u \in Users,
             Ban(u) \/ Unban(u) \/ RequestDeletion(u) \/ GraceElapses(u) \/ CancelDeletion(u)
      PROVE  TypeOK'
  BY <1>5 DEF Ban, Unban, RequestDeletion, GraceElapses, CancelDeletion, Mark, TypeOK,
              sessions, handshakes, purger
<1>6. CASE ListPurgeableUsers
  BY <1>6 DEF ListPurgeableUsers, TypeOK, sessions, handshakes
<1>7. ASSUME NEW u \in Users, PurgeSessions(u) PROVE TypeOK'
  <2>1. refresh' \in [Tokens -> Row]
    BY <1>7, DropType DEF PurgeSessions
  <2> QED  BY <1>7, <2>1 DEF PurgeSessions, TypeOK, handshakes
<1>8. ASSUME NEW u \in Users, PurgeUser(u) PROVE TypeOK'
  <2>1. refresh' \in [Tokens -> Row]
    BY <1>8, DropType DEF PurgeUser, DeleteUser
  <2>2. qr' \in [Codes -> Handshake]
    BY <1>8, ShakeTypes DEF PurgeUser, DeleteUser, TypeOK
  <2> QED  BY <1>8, <2>1, <2>2 DEF PurgeUser, DeleteUser, TypeOK
<1>9. CASE PurgeFails
  BY <1>9 DEF PurgeFails, TypeOK, sessions, handshakes
<1>10. CASE Crash
  BY <1>10, ReqTypes DEF Crash, TypeOK, sessions, handshakes
<1>11. CASE UNCHANGED vars
  BY <1>11 DEF vars, TypeOK
<1> QED
  BY <1>1, <1>2, <1>3, <1>4, <1>5, <1>6, <1>7, <1>8, <1>9, <1>10, <1>11, ArriveType, ServeType
  DEF Next, Purge

----------------------------------------------------------------------------
(* Four frames, one per part of the state a step leaves alone.              *)
LEMMA SessionsKept ==
  ASSUME SessionInv, UNCHANGED sessions, \A u \in Users : Exists(u) => Exists(u)'
  PROVE  SessionInv'
  BY DEF SessionInv, sessions, ExchangedOnce, OneTokenPerSession, RevokedIsOver, Lineage, Held

LEMMA HandshakesKept ==
  ASSUME HandshakeInv, UNCHANGED handshakes, \A u \in Users : Exists(u) => Exists(u)',
         \A t \in Tokens, u \in Users : SessionOf(t, u) => SessionOf(t, u)'
  PROVE  HandshakeInv'
  BY DEF HandshakeInv, UsedOnce, handshakes

LEMMA ReqsKept ==
  ASSUME ReqInv, UNCHANGED req,
         \A t \in Tokens, u \in Users : SessionOf(t, u) => SessionOf(t, u)'
  PROVE  ReqInv'
  BY DEF ReqInv, Fits

(* One request changes; the others are what they were.                      *)
LEMMA ReqReplaced ==
  ASSUME TypeOK, ReqInv, NEW p \in Handlers, NEW r, req' = [req EXCEPT ![p] = r], Fits(r)',
         \A t \in Tokens, u \in Users : SessionOf(t, u) => SessionOf(t, u)'
  PROVE  ReqInv'
<1> SUFFICES ASSUME NEW q \in Handlers PROVE Fits(req[q])'
  BY DEF ReqInv
<1>1. CASE q = p
  <2>1. req'[q] = r
    BY <1>1 DEF TypeOK
  <2> QED  BY <2>1 DEF Fits
<1>2. CASE q # p
  <2>1. req'[q] = req[q]
    BY <1>2 DEF TypeOK
  <2>2. Fits(req[q])
    BY DEF ReqInv
  <2> QED  BY <2>1, <2>2 DEF Fits
<1> QED  BY <1>1, <1>2

LEMMA DoneInv ==
  ASSUME TypeOK, ReqInv, NEW p \in Handlers, Done(p),
         \A t \in Tokens, u \in Users : SessionOf(t, u) => SessionOf(t, u)'
  PROVE  ReqInv'
<1>1. Fits(NoReq)'
  BY ReqTypes DEF Fits
<1> QED
  BY <1>1, ReqReplaced DEF Done

(* Deleting tokens takes nothing away from what the others are.             *)
LEMMA DropInv ==
  ASSUME TypeOK, NEW S, Drop(S), ExchangedOnce, OneTokenPerSession, Lineage,
         UNCHANGED exchanged,
         revoked' \subseteq revoked \cup {refresh[t].session : t \in {s \in Tokens : Held(s)}},
         RevokedIsOver'
  PROVE  SessionInv' /\ \A t \in Tokens, u \in Users : SessionOf(t, u) => SessionOf(t, u)'
<1>1. \A t \in Tokens : \/ refresh'[t] = refresh[t]
                        \/ refresh'[t].state = "gone"
  BY DropEffect
<1>2. ExchangedOnce'
  BY <1>1 DEF ExchangedOnce
<1>3. OneTokenPerSession'
  BY <1>1 DEF OneTokenPerSession, Held
<1>4. Lineage'
  <2> SUFFICES ASSUME NEW t \in Tokens
               PROVE  /\ Held(t)' => /\ refresh'[t].user \in Users /\ refresh'[t].session \in Tokens
                                     /\ refresh'[refresh'[t].session].state # "unused"
                      /\ refresh'[t].state = "unused" => t \notin revoked'
    BY DEF Lineage
  <2>1. Held(t)' => /\ refresh'[t].user \in Users /\ refresh'[t].session \in Tokens
                    /\ refresh'[refresh'[t].session].state # "unused"
    BY <1>1 DEF Lineage, Held
  <2>2. refresh'[t].state = "unused" => t \notin revoked'
    BY <1>1 DEF Lineage
  <2> QED  BY <2>1, <2>2
<1>5. \A t \in Tokens, u \in Users : SessionOf(t, u) => SessionOf(t, u)'
  BY <1>1 DEF SessionOf, Held
<1> QED
  BY <1>2, <1>3, <1>4, <1>5 DEF SessionInv

----------------------------------------------------------------------------
(* Steps of requests that leave sessions and handshakes alone.              *)
LEMMA ReqOnly ==
  ASSUME SignInInv, UNCHANGED <<account, sessions, handshakes>>, ReqInv'
  PROVE  SignInInv'
<1>1. /\ \A u \in Users : Exists(u) => Exists(u)'
      /\ \A t \in Tokens, u \in Users : SessionOf(t, u) => SessionOf(t, u)'
  BY DEF Exists, SessionOf, Held, sessions
<1> QED  BY <1>1, SessionsKept, HandshakesKept DEF SignInInv

LEMMA StartInv ==
  ASSUME TypeOK, SignInInv, NEW p \in Handlers, NEW r, Start(p, r), Fits(r)'
  PROVE  SignInInv'
<1>1. \A t \in Tokens, u \in Users : SessionOf(t, u) => SessionOf(t, u)'
  BY DEF Start, SessionOf, Held, sessions
<1>2. ReqInv'
  BY <1>1, ReqReplaced DEF Start, SignInInv
<1> QED  BY <1>2, ReqOnly DEF Start

LEMMA ArriveInv == ASSUME NEW p \in Handlers, TypeOK, SignInInv, Arrive(p) PROVE SignInInv'
<1>1. ASSUME NEW u \in Users, Login(p, u) PROVE SignInInv'
  <2>1. Fits(NewReq("store", "login", u, None, None))'
    BY ReqTypes DEF Fits
  <2> QED  BY <1>1, <2>1, StartInv DEF Login
<1>2. ASSUME NEW t \in Tokens, ValidateRefreshToken(p, t) PROVE SignInInv'
  <2>1. PICK u \in Users : u = refresh[t].user
    BY <1>2 DEF ValidateRefreshToken, SignInInv, SessionInv, Lineage
  <2>2. Fits(NewReq("user", "refresh", u, t, None))'
    BY ReqTypes DEF Fits
  <2>3. Start(p, NewReq("user", "refresh", u, t, None))
    BY <1>2, <2>1 DEF ValidateRefreshToken
  <2> QED  BY <2>2, <2>3, StartInv
<1>3. ASSUME NEW u \in Users, NEW c \in Codes, ApproveQrLogin(p, u, c) PROVE SignInInv'
  <2>1. Fits(NewReq("user", "approve", u, None, c))'
    BY ReqTypes DEF Fits
  <2> QED  BY <1>3, <2>1, StartInv DEF ApproveQrLogin
<1>4. ASSUME NEW c \in Codes, PollQrLogin(p, c) PROVE SignInInv'
  <2>1. Fits(NewReq("collect", "poll", None, None, c))'
    BY ReqTypes DEF Fits
  <2> QED  BY <1>4, <2>1, StartInv DEF PollQrLogin
<1> QED
  BY <1>1, <1>2, <1>3, <1>4 DEF Arrive

LEMMA LoadUserInv == ASSUME NEW p \in Handlers, TypeOK, SignInInv, LoadUser(p) PROVE SignInInv'
<1>1. /\ Fits(req[p]) /\ req[p].pc = "user"
      /\ UNCHANGED <<account, sessions, handshakes>>
  BY DEF LoadUser, SignInInv, ReqInv
<1>2. \A t \in Tokens, u \in Users : SessionOf(t, u) => SessionOf(t, u)'
  BY <1>1 DEF SessionOf, Held, sessions
<1>3. CASE Done(p)
  BY <1>1, <1>2, <1>3, DoneInv, ReqOnly DEF SignInInv
<1>4. ASSUME NEW r, r = req[p], req' = [req EXCEPT ![p] =
                                  NewReq("store", r.op, r.user, r.token, r.code)]
      PROVE  SignInInv'
  <2>1. Fits(NewReq("store", r.op, r.user, r.token, r.code))'
    BY <1>1, <1>4, ReqTypes DEF Fits
  <2>2. ReqInv'
    BY <1>2, <1>4, <2>1, ReqReplaced DEF SignInInv
  <2> QED  BY <1>1, <2>2, ReqOnly
<1> QED
  BY <1>3, <1>4 DEF LoadUser

LEMMA CrashInv == ASSUME SignInInv, Crash PROVE SignInInv'
<1>1. ReqInv'
  BY ReqTypes DEF Crash, ReqInv, Fits
<1> QED  BY <1>1, ReqOnly DEF Crash

LEMMA FaultInv == ASSUME NEW p \in Handlers, TypeOK, SignInInv, Fault(p) PROVE SignInInv'
<1>1. \A t \in Tokens, u \in Users : SessionOf(t, u) => SessionOf(t, u)'
  BY DEF Fault, SessionOf, Held, sessions
<1>2. ReqInv'
  BY <1>1, DoneInv DEF Fault, SignInInv
<1> QED  BY <1>2, ReqOnly DEF Fault

----------------------------------------------------------------------------
(* Steps that store a token.                                                *)
LEMMA CreateSessionInv ==
  ASSUME NEW p \in Handlers, TypeOK, SignInInv, CreateSession(p) PROVE SignInInv'
<1>0. PICK u \in Users : u = req[p].user
  BY DEF CreateSession, SignInInv, ReqInv, Fits
<1>1. /\ req[p].op = "approve" => req[p].code \in Codes
      /\ UNCHANGED <<account, exchanged, revoked, handshakes>>
  BY DEF CreateSession, SignInInv, ReqInv, Fits
<1>2. CASE UNCHANGED refresh /\ Done(p)
  <2>1. \A t \in Tokens, v \in Users : SessionOf(t, v) => SessionOf(t, v)'
    BY <1>2 DEF SessionOf, Held
  <2>2. ReqInv'
    BY <1>2, <2>1, DoneInv DEF SignInInv
  <2> QED  BY <1>1, <1>2, <2>2, ReqOnly DEF sessions
<1>3. ASSUME NEW t \in Tokens, Exists(u), refresh[t].state = "unused",
             refresh' = [refresh EXCEPT ![t] = Live(u, t)],
             \/ Done(p)
             \/ /\ req[p].op = "approve"
                /\ req' = [req EXCEPT ![p] =
                             NewReq("confirm", "approve", u, t, req[p].code)]
      PROVE  SignInInv'
  <2>1. /\ refresh'[t] = Live(u, t) /\ \A s \in Tokens \ {t} : refresh'[s] = refresh[s]
        /\ Live(u, t).state = "live" /\ Live(u, t).user = u /\ Live(u, t).session = t
    BY <1>3, RowTypes DEF TypeOK
  <2>2. \A s \in Tokens, v \in Users : SessionOf(s, v) => SessionOf(s, v)'
    BY <1>3, <2>1 DEF SessionOf, Held
  <2>3. SessionOf(t, u)'
    BY <2>1 DEF SessionOf, Held
  <2>4. SessionInv'
    <3>1. ExchangedOnce'
      BY <1>1, <1>3, <2>1 DEF ExchangedOnce, SignInInv, SessionInv
    <3>2. OneTokenPerSession'
      BY <1>3, <2>1 DEF OneTokenPerSession, Lineage, Held, SignInInv, SessionInv
    <3>3. RevokedIsOver'
      BY <1>1, <1>3, <2>1 DEF RevokedIsOver, Lineage, Held, Exists, SignInInv, SessionInv
    <3>4. Lineage'
      BY <1>1, <1>3, <2>1 DEF Lineage, Held, SignInInv, SessionInv
    <3> QED  BY <3>1, <3>2, <3>3, <3>4 DEF SessionInv
  <2>5. HandshakeInv'
    BY <1>1, <2>2, HandshakesKept DEF Exists, SignInInv
  <2>6. ReqInv'
    <3>1. CASE Done(p)
      BY <2>2, <3>1, DoneInv DEF SignInInv
    <3>2. ASSUME NEW c \in Codes,
                 req' = [req EXCEPT ![p] = NewReq("confirm", "approve", u, t, c)]
          PROVE  ReqInv'
      <4>1. Fits(NewReq("confirm", "approve", u, t, c))'
        BY <2>3, ReqTypes DEF Fits
      <4> QED  BY <2>2, <3>2, <4>1, ReqReplaced DEF SignInInv
    <3> QED  BY <1>1, <1>3, <3>1, <3>2
  <2> QED  BY <2>4, <2>5, <2>6 DEF SignInInv
<1> QED
  BY <1>0, <1>2, <1>3 DEF CreateSession

LEMMA RotateInv ==
  ASSUME NEW p \in Handlers, TypeOK, SignInInv, RotateRefreshToken(p) PROVE SignInInv'
<1>0. PICK u \in Users, k \in Tokens : u = req[p].user /\ k = req[p].token
  BY DEF RotateRefreshToken, SignInInv, ReqInv, Fits
<1>1. Done(p) /\ UNCHANGED <<account, revoked, handshakes>>
  BY DEF RotateRefreshToken
<1>2. CASE UNCHANGED <<refresh, exchanged>>
  <2>1. \A t \in Tokens, v \in Users : SessionOf(t, v) => SessionOf(t, v)'
    BY <1>2 DEF SessionOf, Held
  <2>2. ReqInv'
    BY <1>1, <2>1, DoneInv DEF SignInInv
  <2> QED  BY <1>1, <1>2, <2>2, ReqOnly DEF sessions
<1>3. ASSUME NEW t \in Tokens, MayRotate(k, u), refresh[t].state = "unused",
             refresh' = [refresh EXCEPT ![k] = NoRow("gone"), ![t] = Live(u, refresh[k].session)],
             exchanged' = [exchanged EXCEPT ![k] = @ + 1]
      PROVE  SignInInv'
  <2>0. PICK s \in Tokens : s = refresh[k].session
    BY <1>3 DEF MayRotate, SignInInv, SessionInv, Lineage
  <2>1. /\ Held(k) /\ refresh[k].user = u /\ t # k
        /\ Live(u, s).state = "live" /\ Live(u, s).user = u /\ Live(u, s).session = s
        /\ NoRow("gone").state = "gone"
    BY <1>3, RowTypes DEF MayRotate, Held
  <2>2. /\ refresh'[t] = Live(u, s) /\ refresh'[k] = NoRow("gone")
        /\ \A v \in Tokens \ {t, k} : refresh'[v] = refresh[v]
    BY <1>3, <2>0, <2>1 DEF TypeOK
  <2>3. /\ exchanged'[k] = exchanged[k] + 1 /\ \A v \in Tokens \ {k} : exchanged'[v] = exchanged[v]
        /\ exchanged \in [Tokens -> Nat]
    BY <1>3 DEF TypeOK
  <2>4. \A v \in Tokens, w \in Users : SessionOf(v, w) => SessionOf(v, w)'
    BY <1>3, <2>1, <2>2 DEF SessionOf, Held
  <2>5. SessionInv'
    <3>1. ExchangedOnce'
      <4>1. exchanged[k] = 0
        BY <2>1, <2>3 DEF ExchangedOnce, Held, SignInInv, SessionInv
      <4>2. ASSUME NEW v \in Tokens
            PROVE  exchanged'[v] <= 1 /\ (exchanged'[v] = 1 => refresh'[v].state = "gone")
        <5>1. CASE v = k
          BY <2>1, <2>2, <2>3, <4>1, <5>1
        <5>2. CASE v # k
          BY <1>3, <2>2, <2>3, <5>2 DEF ExchangedOnce, SignInInv, SessionInv
        <5> QED  BY <5>1, <5>2
      <4> QED  BY <4>2 DEF ExchangedOnce
    <3>2. OneTokenPerSession'
      BY <2>0, <2>1, <2>2 DEF OneTokenPerSession, Held, SignInInv, SessionInv
    <3>3. RevokedIsOver'
      BY <1>1, <2>0, <2>1, <2>2 DEF RevokedIsOver, Held, Exists, SignInInv, SessionInv
    <3>4. Lineage'
      BY <1>1, <2>0, <2>1, <2>2 DEF Lineage, Held, SignInInv, SessionInv
    <3> QED  BY <3>1, <3>2, <3>3, <3>4 DEF SessionInv
  <2>6. HandshakeInv'
    BY <1>1, <2>4, HandshakesKept DEF Exists, SignInInv
  <2>7. ReqInv'
    BY <1>1, <2>4, DoneInv DEF SignInInv
  <2> QED  BY <2>5, <2>6, <2>7 DEF SignInInv
<1> QED
  BY <1>0, <1>2, <1>3 DEF RotateRefreshToken

----------------------------------------------------------------------------
(* Steps of a handshake: sessions are left alone.                           *)
LEMMA HandshakeOnly ==
  ASSUME SignInInv, UNCHANGED <<account, sessions>>, HandshakeInv', ReqInv' PROVE SignInInv'
<1>1. SessionInv'
  BY SessionsKept DEF Exists, SignInInv
<1> QED  BY <1>1 DEF SignInInv

LEMMA ConfirmInv ==
  ASSUME NEW p \in Handlers, TypeOK, SignInInv, ConfirmQrLogin(p) PROVE SignInInv'
<1>0. PICK u \in Users, t \in Tokens, c \in Codes :
         u = req[p].user /\ t = req[p].token /\ c = req[p].code /\ SessionOf(t, u)
  BY DEF ConfirmQrLogin, SignInInv, ReqInv, Fits
<1>1. \A v \in Tokens, w \in Users : SessionOf(v, w) => SessionOf(v, w)'
  BY DEF ConfirmQrLogin, sessions, SessionOf, Held
<1>2. ReqInv'
  BY <1>1, DoneInv DEF ConfirmQrLogin, SignInInv
<1>3. CASE UNCHANGED <<qr, approved>>
  BY <1>2, <1>3, ReqOnly DEF ConfirmQrLogin, handshakes
<1>4. ASSUME MayConfirm(c), Exists(u), qr' = [qr EXCEPT ![c] = Shake("confirmed", u, t)],
             approved' = [approved EXCEPT ![c] = @ + 1]
      PROVE  SignInInv'
  <2>1. /\ qr'[c].status = "confirmed" /\ qr'[c].user = u /\ qr'[c].token = t
        /\ \A d \in Codes \ {c} : qr'[d] = qr[d]
    BY <1>4, ShakeTypes DEF TypeOK
  <2>2. /\ approved'[c] = approved[c] + 1 /\ \A d \in Codes \ {c} : approved'[d] = approved[d]
        /\ approved \in [Codes -> Nat] /\ collected \in [Codes -> Nat]
        /\ UNCHANGED <<account, collected>>
    BY <1>4 DEF ConfirmQrLogin, TypeOK
  <2>3. approved[c] = 0 /\ collected[c] = 0
    BY <1>4, <2>2 DEF MayConfirm, HandshakeInv, UsedOnce, SignInInv
  <2>4. ASSUME NEW d \in Codes PROVE UsedOnce(d)'
    <3>1. CASE d = c
      <4>1. SessionOf(t, u)' /\ Exists(u)'
        BY <1>0, <1>1, <1>4, <2>2 DEF Exists
      <4> QED  BY <2>1, <2>2, <2>3, <3>1, <4>1 DEF UsedOnce
    <3>2. CASE d # c
      <4>1. UsedOnce(d)
        BY DEF HandshakeInv, SignInInv
      <4> QED  BY <1>1, <2>1, <2>2, <3>2, <4>1 DEF UsedOnce, Exists
    <3> QED  BY <3>1, <3>2
  <2>5. HandshakeInv'
    BY <2>4 DEF HandshakeInv
  <2> QED  BY <1>2, <2>5, HandshakeOnly DEF ConfirmQrLogin
<1> QED
  BY <1>0, <1>3, <1>4 DEF ConfirmQrLogin

LEMMA CollectInv ==
  ASSUME NEW p \in Handlers, TypeOK, SignInInv, CollectQrLoginTokens(p) PROVE SignInInv'
<1>0. PICK c \in Codes : c = req[p].code
  BY DEF CollectQrLoginTokens, SignInInv, ReqInv, Fits
<1>1. \A v \in Tokens, w \in Users : SessionOf(v, w) => SessionOf(v, w)'
  BY DEF CollectQrLoginTokens, sessions, SessionOf, Held
<1>2. ReqInv'
  BY <1>1, DoneInv DEF CollectQrLoginTokens, SignInInv
<1>3. CASE UNCHANGED <<qr, collected>>
  BY <1>2, <1>3, ReqOnly DEF CollectQrLoginTokens, handshakes
<1>4. ASSUME qr[c].status = "confirmed",
             qr' = [qr EXCEPT ![c] = Shake("consumed", qr[c].user, None)],
             collected' = [collected EXCEPT ![c] = @ + 1]
      PROVE  SignInInv'
  <2>1. qr'[c].status = "consumed" /\ \A d \in Codes \ {c} : qr'[d] = qr[d]
    BY <1>4, ShakeTypes DEF TypeOK
  <2>2. /\ collected'[c] = collected[c] + 1 /\ \A d \in Codes \ {c} : collected'[d] = collected[d]
        /\ UNCHANGED <<account, approved>>
    BY <1>4 DEF CollectQrLoginTokens, TypeOK
  <2>3. approved[c] = 1 /\ collected[c] = 0
    BY <1>4 DEF HandshakeInv, UsedOnce, SignInInv
  <2>4. ASSUME NEW d \in Codes PROVE UsedOnce(d)'
    <3>1. CASE d = c
      BY <2>1, <2>2, <2>3, <3>1 DEF UsedOnce
    <3>2. CASE d # c
      <4>1. UsedOnce(d)
        BY DEF HandshakeInv, SignInInv
      <4> QED  BY <1>1, <2>1, <2>2, <3>2, <4>1 DEF UsedOnce, Exists
    <3> QED  BY <3>1, <3>2
  <2>5. HandshakeInv'
    BY <2>4 DEF HandshakeInv
  <2> QED  BY <1>2, <2>5, HandshakeOnly DEF CollectQrLoginTokens
<1> QED
  BY <1>0, <1>3, <1>4 DEF CollectQrLoginTokens

LEMMA CodeInv ==
  ASSUME NEW c \in Codes, TypeOK, SignInInv, CreateQrLogin(c) \/ LapseQrLogin(c)
  PROVE  SignInInv'
<1>1. /\ UNCHANGED <<account, sessions, approved, collected, req>>
      /\ \A d \in Codes \ {c} : qr'[d] = qr[d]
      /\ \/ qr[c].status = "none" /\ qr'[c].status = "pending"
         \/ qr'[c].status = "expired"
  BY ShakeTypes DEF CreateQrLogin, LapseQrLogin, TypeOK
<1>2. \A v \in Tokens, w \in Users : SessionOf(v, w) => SessionOf(v, w)'
  BY <1>1 DEF sessions, SessionOf, Held
<1>3. ReqInv'
  BY <1>1, <1>2, ReqsKept DEF SignInInv
<1>4. ASSUME NEW d \in Codes PROVE UsedOnce(d)'
  <2>1. UsedOnce(d)
    BY DEF HandshakeInv, SignInInv
  <2>2. CASE d = c
    BY <1>1, <2>1, <2>2 DEF UsedOnce
  <2>3. CASE d # c
    BY <1>1, <1>2, <2>1, <2>3 DEF UsedOnce, Exists
  <2> QED  BY <2>2, <2>3
<1>5. HandshakeInv'
  BY <1>4 DEF HandshakeInv
<1> QED  BY <1>1, <1>3, <1>5, HandshakeOnly

----------------------------------------------------------------------------
(* Steps that end sessions.                                                 *)
LEMMA DeleteMySessionInv ==
  ASSUME NEW t \in Tokens, TypeOK, SignInInv, DeleteMySession(t) PROVE SignInInv'
<1>1. /\ Drop({t}) /\ Held(t) /\ UNCHANGED <<account, exchanged, handshakes, req>>
      /\ revoked' = revoked \cup {refresh[t].session}
  BY DEF DeleteMySession, SessionBefore
<1>2. /\ refresh'[t].state = "gone" /\ \A v \in Tokens \ {t} : refresh'[v] = refresh[v]
  BY <1>1, DropEffect
<1>3. RevokedIsOver'
  BY <1>1, <1>2 DEF RevokedIsOver, OneTokenPerSession, Held, Exists, SignInInv, SessionInv
<1>4. SessionInv' /\ \A v \in Tokens, u \in Users : SessionOf(v, u) => SessionOf(v, u)'
  BY <1>1, <1>3, DropInv DEF SignInInv, SessionInv
<1> QED
  BY <1>1, <1>4, HandshakesKept, ReqsKept DEF SignInInv, Exists

LEMMA ExpireInv == ASSUME NEW t \in Tokens, TypeOK, SignInInv, Expire(t) PROVE SignInInv'
<1>1. /\ Drop({t}) /\ UNCHANGED <<account, exchanged, revoked, handshakes, req>>
  BY DEF Expire
<1>2. /\ refresh'[t].state = "gone" /\ \A v \in Tokens \ {t} : refresh'[v] = refresh[v]
  BY <1>1, DropEffect
<1>3. RevokedIsOver'
  BY <1>1, <1>2 DEF RevokedIsOver, Held, Exists, SignInInv, SessionInv
<1>4. SessionInv' /\ \A v \in Tokens, u \in Users : SessionOf(v, u) => SessionOf(v, u)'
  BY <1>1, <1>3, DropInv DEF SignInInv, SessionInv
<1> QED
  BY <1>1, <1>4, HandshakesKept, ReqsKept DEF SignInInv, Exists

LEMMA PurgeSessionsInv ==
  ASSUME NEW u \in Users, TypeOK, SignInInv, PurgeSessions(u) PROVE SignInInv'
<1> DEFINE S == {t \in Tokens : refresh[t].user = u}
<1>1. Drop(S) /\ UNCHANGED <<account, exchanged, revoked, handshakes, req>>
  BY DEF PurgeSessions
<1>2. \A v \in Tokens : refresh'[v] = refresh[v] \/ refresh'[v].state = "gone"
  BY <1>1, DropEffect
<1>3. RevokedIsOver'
  BY <1>1, <1>2 DEF RevokedIsOver, Held, Exists, SignInInv, SessionInv
<1>4. SessionInv' /\ \A v \in Tokens, w \in Users : SessionOf(v, w) => SessionOf(v, w)'
  BY <1>1, <1>3, DropInv DEF SignInInv, SessionInv
<1> QED
  BY <1>1, <1>4, HandshakesKept, ReqsKept DEF SignInInv, Exists

LEMMA PurgeUserInv ==
  ASSUME NEW u \in Users, TypeOK, SignInInv, PurgeUser(u) PROVE SignInInv'
<1> DEFINE S == {t \in Tokens : refresh[t].user = u}
<1>1. /\ Drop(S) /\ UNCHANGED <<exchanged, revoked, approved, collected, req>>
      /\ account' = [account EXCEPT ![u] = "purged"]
      /\ qr' = [c \in Codes |-> IF qr[c].user = u THEN Shake("expired", None, None) ELSE qr[c]]
  BY DEF PurgeUser, DeleteUser
<1>2. /\ \A v \in Tokens : refresh'[v] = refresh[v] \/ refresh'[v].state = "gone"
      /\ \A v \in Tokens : refresh[v].user = u => refresh'[v].state = "gone"
  BY <1>1, DropEffect
<1>3. \A w \in Users \ {u} : Exists(w) => Exists(w)'
  BY <1>1 DEF Exists, TypeOK
<1>4. RevokedIsOver'
  <2> SUFFICES ASSUME NEW v \in Tokens, Held(v)'
               PROVE  (refresh[v].session \notin revoked /\ Exists(refresh[v].user))'
    BY DEF RevokedIsOver
  <2>1. Held(v) /\ refresh'[v] = refresh[v] /\ refresh[v].user # u
    BY <1>2 DEF Held
  <2>2. PICK w \in Users : w = refresh[v].user
    BY <2>1 DEF Lineage, SignInInv, SessionInv
  <2>3. refresh[v].session \notin revoked /\ Exists(w)
    BY <2>1, <2>2 DEF RevokedIsOver, SignInInv, SessionInv
  <2>4. Exists(w)'
    BY <1>3, <2>1, <2>2, <2>3
  <2> QED  BY <1>1, <2>1, <2>2, <2>3, <2>4 DEF Exists
<1>5. SessionInv' /\ \A v \in Tokens, w \in Users : SessionOf(v, w) => SessionOf(v, w)'
  BY <1>1, <1>4, DropInv DEF SignInInv, SessionInv
<1>6. ASSUME NEW c \in Codes PROVE UsedOnce(c)'
  <2>1. UsedOnce(c) /\ UNCHANGED <<approved, collected>>
    BY <1>1 DEF HandshakeInv, SignInInv
  <2>2. CASE qr[c].user = u
    <3>1. qr'[c].status = "expired"
      BY <1>1, <2>2, ShakeTypes
    <3> QED  BY <2>1, <3>1 DEF UsedOnce
  <2>3. CASE qr[c].user # u
    <3>1. qr'[c] = qr[c]
      BY <1>1, <2>3
    <3>2. CASE qr[c].status = "confirmed"
      <4>1. PICK w \in Users \ {u}, k \in Tokens : w = qr[c].user /\ k = qr[c].token
        BY <2>1, <2>3, <3>2 DEF UsedOnce
      <4>2. Exists(w)' /\ SessionOf(k, w)'
        BY <1>3, <1>5, <2>1, <3>2, <4>1 DEF UsedOnce
      <4> QED  BY <2>1, <3>1, <3>2, <4>1, <4>2 DEF UsedOnce
    <3>3. CASE qr[c].status # "confirmed"
      BY <2>1, <3>1, <3>3 DEF UsedOnce
    <3> QED  BY <3>2, <3>3
  <2> QED  BY <2>2, <2>3
<1>7. HandshakeInv'
  BY <1>6 DEF HandshakeInv
<1>8. ReqInv'
  BY <1>1, <1>5, ReqsKept DEF SignInInv
<1> QED
  BY <1>5, <1>7, <1>8 DEF SignInInv

----------------------------------------------------------------------------
(* What moderators and the user do to the account.                          *)
LEMMA MarkInv ==
  ASSUME NEW u \in Users, NEW st, st # "purged", TypeOK, SignInInv, Mark(u, st)
  PROVE  SignInInv'
<1>1. /\ \A w \in Users : Exists(w) => Exists(w)'
      /\ UNCHANGED <<sessions, handshakes, req>>
  BY DEF Mark, Exists, TypeOK
<1>2. \A v \in Tokens, w \in Users : SessionOf(v, w) => SessionOf(v, w)'
  BY <1>1 DEF sessions, SessionOf, Held
<1>3. SessionInv'
  BY <1>1, SessionsKept DEF SignInInv
<1>4. HandshakeInv'
  BY <1>1, <1>2, HandshakesKept DEF SignInInv
<1>5. ReqInv'
  BY <1>1, <1>2, ReqsKept DEF SignInInv
<1> QED
  BY <1>3, <1>4, <1>5 DEF SignInInv

(* Nothing of SignInInv changes.                                            *)
LEMMA NothingInv ==
  ASSUME SignInInv, UNCHANGED <<account, sessions, handshakes, req>> PROVE SignInInv'
<1>1. ReqInv'
  BY ReqsKept DEF SignInInv, SessionOf, Held, sessions
<1> QED  BY <1>1, ReqOnly

LEMMA NextInv == TypeOK /\ SignInInv /\ [Next]_vars => SignInInv'
<1> SUFFICES ASSUME TypeOK, SignInInv, [Next]_vars PROVE SignInInv'
  OBVIOUS
<1>1. ASSUME NEW p \in Handlers, Arrive(p) \/ Serve(p) \/ Fault(p) PROVE SignInInv'
  BY <1>1, ArriveInv, LoadUserInv, CreateSessionInv, RotateInv, ConfirmInv, CollectInv, FaultInv
  DEF Serve
<1>2. ASSUME NEW c \in Codes, CreateQrLogin(c) \/ LapseQrLogin(c) PROVE SignInInv'
  BY <1>2, CodeInv
<1>3. ASSUME NEW t \in Tokens, DeleteMySession(t) \/ Expire(t) PROVE SignInInv'
  BY <1>3, DeleteMySessionInv, ExpireInv
<1>4. ASSUME NEW u \in Users,
             Ban(u) \/ Unban(u) \/ RequestDeletion(u) \/ GraceElapses(u) \/ CancelDeletion(u)
      PROVE  SignInInv'
  BY <1>4, MarkInv DEF Ban, Unban, RequestDeletion, GraceElapses, CancelDeletion
<1>5. CASE ListPurgeableUsers \/ PurgeFails \/ UNCHANGED vars
  BY <1>5, NothingInv DEF ListPurgeableUsers, PurgeFails, vars, sessions, handshakes
<1>6. ASSUME NEW u \in Users, PurgeSessions(u) \/ PurgeUser(u) PROVE SignInInv'
  BY <1>6, PurgeSessionsInv, PurgeUserInv
<1>7. CASE Crash
  BY <1>7, CrashInv
<1> QED
  BY <1>1, <1>2, <1>3, <1>4, <1>5, <1>6, <1>7 DEF Next, Purge

----------------------------------------------------------------------------
(* The inductive invariant: the types need to know that what a request is   *)
(* about to do fits, and the rest needs the types.                          *)
IInv == TypeOK /\ SignInInv

THEOREM InvariantHolds == Spec => []IInv
<1>1. Init => IInv
  BY InitHolds DEF IInv
<1>2. IInv /\ [Next]_vars => IInv'
  BY NextType, NextInv DEF IInv
<1> QED
  BY <1>1, <1>2, PTL DEF Spec

(* The variables keep their types (the rows and requests of RefreshToken,   *)
(* ApproveQrLogin and the purge never hold a missing user or token).        *)
THEOREM TypeCorrect == Spec => []TypeOK
<1>1. IInv => TypeOK
  BY DEF IInv
<1> QED
  BY <1>1, InvariantHolds, PTL

(* However many requests, retries, revocations and purges overlap, a token  *)
(* is exchanged once, a session has one token, and a revoked session or one *)
(* of an erased account stays over (RotateRefreshToken, DeleteSession,      *)
(* PurgeUserData).                                                          *)
THEOREM SessionsHold == Spec => []SessionInv
<1>1. IInv => SessionInv
  BY DEF IInv, SignInInv
<1> QED
  BY <1>1, InvariantHolds, PTL

(* A QR code signs in one device as one user (ConfirmQrLogin,               *)
(* CollectQrLoginTokens).                                                   *)
THEOREM HandshakesHold == Spec => []HandshakeInv
<1>1. IInv => HandshakeInv
  BY DEF IInv, SignInInv
<1> QED
  BY <1>1, InvariantHolds, PTL

-----------------------------------------------------------------------------
(* Why check-ins, make-ups and rewards keep the calendar, the streak and   *)
(* the wallet together, however requests, midnights and failures fall.     *)

(* The requests that may still check in: each may lengthen the streak and  *)
(* be booked once.                                                         *)
ToCheck == {r \in Reqs : taskReq[r].pc \in {"asked", "begun"}}
Budget ==
    /\ Cardinality(ToCheck) <= asks /\ streak + Cardinality(ToCheck) <= Days + asks
    /\ \A d \in Day : /\ ledger.bonus[d] + Cardinality(ToCheck) <= asks
                      /\ ledger.renewed[d] + Cardinality(ToCheck) <= asks

(* What a request knows of the clock, and of the row it inserts.           *)
Timely(q) == q.day <= today /\ (q.pc = "begun" => q.day <= q.at /\ q.at <= today)
Keyed(q) ==
    /\ q.pc \in {"date", "dated"} => \E d \in Day : q.key = LoginKey(d) /\ d < q.day
    /\ q.pc \in {"grant", "granting"} =>
         q.key \in Key /\ q.key[1] # "login" /\ (q.key = Milestone => q.streak >= Target)
    /\ q.pc \in {"dated", "granting"} => q.key \notin done
AllKeyed == \A r \in Reqs : Timely(taskReq[r]) /\ Keyed(taskReq[r])
Distinct == \A p, q \in Sharing : p # q => taskReq[p].key # taskReq[q].key

Past == last <= today /\ \A d \in ledger.dates : d < today /\ d \in Signed
DaysFit ==
    \A d \in Day \ ledger.crossed :
        CheckedIn(d) <= 1 /\ (CheckedIn(d) # 0 => last >= d /\ d \in Backing)
Marks == ledger.crossed = {} => \A d \in Backing : d \in ledger.dates \/ d <= last

(* With nothing made up, lost or run across midnight, the streak is a run  *)
(* of days that ends with the last check-in.                               *)
Plain ==
    /\ ledger.dates = {} /\ SumFunction(ledger.renewed) = 0
    /\ ledger.lost = {} /\ ledger.crossed = {}
RunFits ==
    Plain => /\ streak <= last /\ (last # Never => streak # 0)
             /\ \A d \in Day : d \in Backing => d <= last
             /\ \A d \in Day : last - streak < d /\ d <= last => d \in Backing
             /\ last - streak \notin Backing

TaskSound ==
    /\ TasksTypeOK /\ IsFiniteSet(done) /\ Budget /\ AllKeyed /\ Distinct
    /\ Past /\ DaysFit /\ NothingPaidTwice /\ CoinsAccounted /\ Marks /\ StreakBacked /\ RunFits

----------------------------------------------------------------------------
LEMMA TaskConstants ==
    /\ IsFiniteSet(Reqs) /\ Days \in Nat \ {0} /\ MaxAsks \in Nat /\ Target \in Nat /\ Gap \in Nat
    /\ Fund \in Nat /\ Bonus \in Nat /\ MakeupCost \in Nat /\ Reward \in Nat
    /\ IsFiniteSet(Day) /\ Day \subseteq Nat \ {0} /\ Never = 0
<1>1. IsFiniteSet(1 .. Days)
  <2>1. PICK n \in Int : n = Days
    BY TasksAssumption
  <2>2. IsFiniteSet(1 .. n)
    BY FS_Interval
  <2> QED
    BY <2>1, <2>2
<1> QED
  BY <1>1, TasksAssumption DEF Day, Never

LEMMA Keys ==
    /\ \A d \in Day : LoginKey(d) \in Key /\ LoginKey(d)[1] = "login" /\ LoginKey(d)[2] = d /\ LoginKey(d) # Milestone
    /\ \A d, e \in Day : LoginKey(d) = LoginKey(e) => d = e
    /\ Milestone \in Key /\ Milestone[1] # "login" /\ Milestone # NoKey
    /\ \A t \in Once : <<t, 0>> \in Key /\ <<t, 0>>[1] # "login" /\ <<t, 0>> # Milestone
    /\ \A t \in Daily, d \in Day :
         <<t, d>> \in Key /\ <<t, d>>[1] # "login" /\ <<t, d>> # Milestone
<1>1. \A t \in Once : t # "login" /\ t # "streak"
  BY TasksAssumption
<1>2. \A t \in Daily : t # "login" /\ t # "streak"
  BY TasksAssumption
<1> QED
  BY <1>1, <1>2 DEF Key, LoginKey, Milestone, NoKey

LEMMA SumOfAll ==
    ASSUME NEW S, NEW T, NEW f \in [S -> T] PROVE SumFunction(f) = SumFunctionOnSet(f, S)
<1>1. DOMAIN f = S
  OBVIOUS
<1> QED
  BY <1>1 DEF SumFunction

LEMMA LedgerIs ==
    ASSUME TasksTypeOK
    PROVE  /\ ledger.bonus \in [Day -> 0 .. MaxAsks] /\ ledger.renewed \in [Day -> 0 .. MaxAsks]
           /\ ledger.dates \subseteq Day /\ ledger.lost \subseteq Day /\ ledger.crossed \subseteq Day
           /\ IsFiniteSet(ledger.dates) /\ Cardinality(ledger.dates) \in Nat
           /\ SumFunction(ledger.bonus) \in Nat /\ SumFunction(ledger.renewed) \in Nat
<1>1. /\ ledger.bonus \in [Day -> 0 .. MaxAsks] /\ ledger.renewed \in [Day -> 0 .. MaxAsks]
      /\ ledger.dates \subseteq Day /\ ledger.lost \subseteq Day /\ ledger.crossed \subseteq Day
  BY DEF TasksTypeOK, Ledger
<1>2. IsFiniteSet(ledger.dates)
  BY <1>1, TaskConstants, FS_Subset
<1>3. Cardinality(ledger.dates) \in Nat
  BY <1>2, FS_CardinalityType
<1>4. SumFunction(ledger.bonus) = SumFunctionOnSet(ledger.bonus, Day)
      /\ SumFunction(ledger.renewed) = SumFunctionOnSet(ledger.renewed, Day)
  <2>1. PICK f \in [Day -> 0 .. MaxAsks], g \in [Day -> 0 .. MaxAsks] : f = ledger.bonus /\ g = ledger.renewed
    BY <1>1
  <2>2. SumFunction(f) = SumFunctionOnSet(f, Day) /\ SumFunction(g) = SumFunctionOnSet(g, Day)
    BY SumOfAll
  <2> QED
    BY <2>1, <2>2
<1>5. \A d \in Day : ledger.bonus[d] \in Nat /\ ledger.renewed[d] \in Nat
  <2>1. PICK f \in [Day -> 0 .. MaxAsks], g \in [Day -> 0 .. MaxAsks] : f = ledger.bonus /\ g = ledger.renewed
    BY <1>1
  <2>2. \A d \in Day : f[d] \in Nat /\ g[d] \in Nat
    BY TasksAssumption
  <2> QED
    BY <2>1, <2>2
<1>6. SumFunctionOnSet(ledger.bonus, Day) \in Nat /\ SumFunctionOnSet(ledger.renewed, Day) \in Nat
  BY <1>5, TaskConstants, SumNat
<1> QED
  BY <1>1, <1>2, <1>3, <1>4, <1>6

LEMMA CheckedInIs ==
    ASSUME TasksTypeOK, NEW d \in Day
    PROVE  /\ CheckedIn(d) \in Nat /\ CheckedIn(d) = ledger.bonus[d] + ledger.renewed[d]
           /\ ledger.bonus[d] \in Nat /\ ledger.renewed[d] \in Nat
BY LedgerIs, TaskConstants DEF CheckedIn

LEMMA BackingIs ==
    ASSUME TasksTypeOK
    PROVE  /\ Backing \subseteq Day /\ IsFiniteSet(Backing) /\ Cardinality(Backing) \in Nat
           /\ Signed \subseteq Day /\ Pending \subseteq Day
           /\ \A S \in SUBSET Day : IsFiniteSet(S) /\ Cardinality(S) \in Nat
<1>1. Signed \subseteq Day /\ Pending \subseteq Day /\ ledger.lost \subseteq Day
  BY LedgerIs DEF Signed, Pending, TasksTypeOK, TaskReq
<1>2. \A S \in SUBSET Day : IsFiniteSet(S) /\ Cardinality(S) \in Nat
  BY TaskConstants, FS_Subset, FS_CardinalityType
<1> QED
  BY <1>1, <1>2 DEF Backing

LEMMA ToCheckIs == IsFiniteSet(ToCheck) /\ Cardinality(ToCheck) \in Nat
<1>1. ToCheck \subseteq Reqs
  BY DEF ToCheck
<1> QED
  BY <1>1, TaskConstants, FS_Subset, FS_CardinalityType

LEMMA NoReqIs ==
    NoTask \in TaskReq /\ NoTask.pc = "idle" /\ NoTask.streak = 0 /\ NoTask.day = 1 /\ 1 \in Day
BY TaskConstants, TasksAssumption DEF NoTask, TaskReq, Pc, Day

----------------------------------------------------------------------------
(* A step that leaves the calendar alone, the day it falls on aside.       *)
LEMMA DaysFrame ==
    ASSUME TaskSound, UNCHANGED <<streak, last, ledger>>, Signed' = Signed, Pending' = Pending,
           today' \in Day, today <= today'
    PROVE  Past' /\ DaysFit' /\ NothingPaidTwice' /\ Marks' /\ RunFits' /\ Backing' = Backing
<1>0. TasksTypeOK /\ Past /\ DaysFit /\ NothingPaidTwice /\ Marks /\ RunFits
  BY DEF TaskSound
<1>1. Backing' = Backing
  BY DEF Backing
<1>2. \A d : CheckedIn(d)' = CheckedIn(d)
  BY DEF CheckedIn
<1>3. Past'
  <2>1. \A d \in ledger.dates : d \in Nat /\ d < today /\ d \in Signed
    BY <1>0, LedgerIs, TaskConstants DEF Past
  <2>2. today \in Nat /\ today' \in Nat /\ last \in Nat /\ last <= today
    BY <1>0, TaskConstants DEF Past, TasksTypeOK
  <2>3. \A d \in ledger.dates : d < today'
    BY <2>1, <2>2
  <2> QED
    BY <2>1, <2>2, <2>3 DEF Past
<1>4. DaysFit' /\ NothingPaidTwice'
  BY <1>0, <1>1, <1>2 DEF DaysFit, NothingPaidTwice
<1>5. Marks' /\ RunFits'
  BY <1>0, <1>1 DEF Marks, RunFits, Plain
<1> QED
  BY <1>1, <1>3, <1>4, <1>5

LEMMA BudgetFrame ==
    ASSUME TaskSound, UNCHANGED <<streak, ledger>>, asks' \in 0 .. MaxAsks,
           NEW r \in Reqs, \A s \in Reqs \ {r} : taskReq'[s] = taskReq[s],
           \/ asks' = asks + 1
           \/ asks' = asks /\ (taskReq'[r].pc \in {"asked", "begun"} => taskReq[r].pc \in {"asked", "begun"})
    PROVE  Budget'
<1>0. TasksTypeOK /\ Budget
  BY DEF TaskSound
<1>1. Cardinality(ToCheck') <= Cardinality(ToCheck) + (asks' - asks) /\ Cardinality(ToCheck') \in Nat
  <2>1. CASE asks' = asks + 1
    <3>1. ToCheck' \subseteq ToCheck \cup {r}
      BY DEF ToCheck
    <3>2. IsFiniteSet(ToCheck \cup {r}) /\ Cardinality(ToCheck \cup {r}) <= Cardinality(ToCheck) + 1
      BY ToCheckIs, FS_AddElement
    <3>3. Cardinality(ToCheck') <= Cardinality(ToCheck \cup {r}) /\ IsFiniteSet(ToCheck')
      BY <3>1, <3>2, FS_Subset
    <3>4. PICK a \in Nat, b \in Nat, c \in Nat :
            a = Cardinality(ToCheck') /\ b = Cardinality(ToCheck \cup {r}) /\ c = Cardinality(ToCheck)
      BY <3>2, <3>3, ToCheckIs, FS_CardinalityType
    <3> QED
      BY <1>0, <2>1, <3>2, <3>3, <3>4 DEF TasksTypeOK
  <2>2. CASE asks' = asks /\ (taskReq'[r].pc \in {"asked", "begun"} => taskReq[r].pc \in {"asked", "begun"})
    <3>1. ToCheck' \subseteq ToCheck
      BY <2>2 DEF ToCheck
    <3>2. Cardinality(ToCheck') <= Cardinality(ToCheck) /\ Cardinality(ToCheck') \in Nat
      BY <3>1, ToCheckIs, FS_Subset, FS_CardinalityType
    <3> QED
      BY <1>0, <2>2, <3>2, ToCheckIs DEF TasksTypeOK
  <2> QED
    BY <2>1, <2>2
<1>2. asks <= asks' /\ asks \in Nat /\ asks' \in Nat /\ streak \in Nat
  BY <1>0, TaskConstants DEF TasksTypeOK
<1>3. PICK a \in Nat, b \in Nat : a = Cardinality(ToCheck') /\ b = Cardinality(ToCheck)
  BY <1>1, ToCheckIs
<1>4. a <= b + (asks' - asks)
  BY <1>1, <1>3
<1>5. a <= asks' /\ streak + a <= Days + asks'
  BY <1>0, <1>2, <1>3, <1>4, TaskConstants DEF Budget
<1>6. ASSUME NEW d \in Day PROVE ledger.bonus[d] + a <= asks' /\ ledger.renewed[d] + a <= asks'
  <2>1. ledger.bonus[d] + b <= asks /\ ledger.renewed[d] + b <= asks
    BY <1>0, <1>3 DEF Budget
  <2>2. ledger.bonus[d] \in Nat /\ ledger.renewed[d] \in Nat
    BY <1>0, CheckedInIs
  <2> QED
    BY <1>2, <1>4, <2>1, <2>2
<1> QED
  BY <1>3, <1>5, <1>6 DEF Budget

(* A step that changes nothing but a request: it begins, waits, is refused *)
(* or ends.                                                                *)
LEMMA Calm ==
    ASSUME TaskSound, UNCHANGED <<today, streak, last, done, coins, ledger>>,
           NEW r \in Reqs, NEW q \in TaskReq, taskReq' = [taskReq EXCEPT ![r] = q],
           asks' \in 0 .. MaxAsks, asks' = asks + 1 \/ asks' = asks,
           asks' = asks /\ q.pc \in {"asked", "begun"} => taskReq[r].pc \in {"asked", "begun"},
           Timely(q), Keyed(q), q.streak = 0 \/ q.streak = taskReq[r].streak,
           q.pc # "record", taskReq[r].pc # "record",
           q.pc \in {"dated", "granting"} => \A s \in Sharing : taskReq[s].key # q.key
    PROVE  TaskSound'
<1>0. TasksTypeOK
  BY DEF TaskSound
<1>1. taskReq'[r] = q /\ \A s \in Reqs \ {r} : taskReq'[s] = taskReq[s]
  BY <1>0 DEF TasksTypeOK
<1>2. TasksTypeOK' /\ IsFiniteSet(done)'
  BY <1>0 DEF TasksTypeOK, TaskSound
<1>3. Budget'
  BY <1>1, BudgetFrame
<1>4. AllKeyed'
  <2> SUFFICES ASSUME NEW s \in Reqs PROVE Timely(taskReq[s])' /\ Keyed(taskReq[s])'
    BY DEF AllKeyed
  <2>1. CASE s = r
    BY <1>1, <2>1 DEF Timely, Keyed
  <2>2. CASE s # r
    BY <1>1, <2>2 DEF TaskSound, AllKeyed, Timely, Keyed
  <2> QED
    BY <2>1, <2>2
<1>5. Distinct'
  BY <1>1 DEF TaskSound, Distinct, Sharing
<1>6. Signed' = Signed /\ Pending' = Pending
  <2>1. {s \in Reqs : taskReq'[s].pc = "record"} = {s \in Reqs : taskReq[s].pc = "record"}
    BY <1>1
  <2>2. \A s \in Reqs : taskReq[s].pc = "record" => taskReq'[s] = taskReq[s]
    BY <1>1
  <2> QED
    BY <2>1, <2>2 DEF Signed, Pending
<1>7. Past' /\ DaysFit' /\ NothingPaidTwice' /\ Marks' /\ RunFits' /\ Backing' = Backing
  BY <1>0, <1>6, TaskConstants, DaysFrame DEF TasksTypeOK
<1>8. CoinsAccounted'
  BY DEF TaskSound, CoinsAccounted
<1>9. StreakBacked'
  <2>1. Cardinality(Backing) \in Nat
    BY <1>0, BackingIs
  <2> QED
    BY <1>1, <1>7, <2>1 DEF TaskSound, StreakBacked
<1> QED
  BY <1>2, <1>3, <1>4, <1>5, <1>7, <1>8, <1>9 DEF TaskSound

(* A request gives up, or has nothing left to do.                          *)
LEMMA Ends ==
    ASSUME TaskSound, NEW r \in Reqs, taskReq[r].pc # "record", TaskDone(r),
           UNCHANGED <<today, streak, last, done, coins, asks, ledger>>
    PROVE  TaskSound'
<1>1. NoTask \in TaskReq /\ Timely(NoTask) /\ Keyed(NoTask) /\ NoTask.pc = "idle" /\ NoTask.streak = 0
  BY NoReqIs, TaskConstants DEF Timely, Keyed, TaskSound, TasksTypeOK, Day
<1>2. taskReq' = [taskReq EXCEPT ![r] = NoTask] /\ asks \in 0 .. MaxAsks
  BY DEF TaskDone, TaskSound, TasksTypeOK
<1> QED
  BY <1>1, <1>2, Calm

LEMMA AskIsCalm ==
    ASSUME TaskSound, NEW r \in Reqs, NEW pc \in {"asked", "date", "grant"}, NEW makeup \in BOOLEAN,
           NEW key \in Key \cup {NoKey}, Ask(r, pc, makeup, key),
           pc = "date" => \E d \in Day : key = LoginKey(d) /\ d < today,
           pc = "grant" => key \in Key /\ key[1] # "login" /\ key # Milestone
    PROVE  TaskSound'
<1>1. today \in Day /\ asks \in 0 .. MaxAsks /\ asks < MaxAsks /\ asks' = asks + 1 /\ taskReq[r].pc = "idle"
  BY DEF Ask, TaskSound, TasksTypeOK
<1>2. PICK q : q = [NoTask EXCEPT !.pc = pc, !.makeup = makeup, !.day = today, !.key = key]
  OBVIOUS
<1>3. q.pc = pc /\ q.day = today /\ q.key = key /\ q.streak = 0
  BY <1>2 DEF NoTask
<1>4. q \in TaskReq
  BY <1>1, <1>2, TaskConstants, NoReqIs DEF TaskReq, Pc, NoTask
<1>5. taskReq' = [taskReq EXCEPT ![r] = q]
  BY <1>2 DEF Ask
<1>6. Timely(q) /\ Keyed(q)
  BY <1>1, <1>3, TaskConstants DEF Timely, Keyed
<1>7. UNCHANGED <<today, streak, last, done, coins, ledger>> /\ asks' \in 0 .. MaxAsks
  BY <1>1, TaskConstants DEF Ask, row
<1>8. asks' # asks /\ q.pc \notin {"dated", "granting", "record"} /\ taskReq[r].pc # "record"
  BY <1>1, <1>3
<1> QED
  BY <1>1, <1>3, <1>4, <1>5, <1>6, <1>7, <1>8, Calm

LEMMA RequestKeeps == ASSUME TaskSound, NEW r \in Reqs, Request(r) PROVE TaskSound'
<1>0. today \in Day
  BY DEF TaskSound, TasksTypeOK
<1>1. CASE AskCheckin(r)
  BY <1>1, AskIsCalm DEF AskCheckin
<1>2. CASE AskDate(r)
  <2>1. PICK d \in Day : d < today /\ Ask(r, "date", FALSE, LoginKey(d))
    BY <1>2 DEF AskDate
  <2> QED
    BY <2>1, Keys, AskIsCalm
<1>3. CASE AskOnce(r)
  <2>1. PICK t \in Once : Ask(r, "grant", FALSE, <<t, 0>>)
    BY <1>3 DEF AskOnce
  <2>2. PICK k \in Key : k = <<t, 0>> /\ k[1] # "login" /\ k # Milestone
    BY Keys
  <2> QED
    BY <2>1, <2>2, AskIsCalm
<1>4. CASE AskDaily(r)
  <2>1. PICK t \in Daily : Ask(r, "grant", FALSE, <<t, today>>)
    BY <1>4 DEF AskDaily
  <2>2. PICK k \in Key : k = <<t, today>> /\ k[1] # "login" /\ k # Milestone
    BY <1>0, Keys
  <2> QED
    BY <2>1, <2>2, AskIsCalm
<1> QED
  BY <1>1, <1>2, <1>3, <1>4 DEF Request

LEMMA BeginKeeps == ASSUME TaskSound, NEW r \in Reqs, Begin(r) PROVE TaskSound'
<1>1. PICK p \in TaskReq : p = taskReq[r] /\ Timely(p)
  BY DEF TaskSound, TasksTypeOK, AllKeyed
<1>2. today \in Day /\ asks \in 0 .. MaxAsks /\ p.pc = "asked"
  BY <1>1 DEF Begin, TaskSound, TasksTypeOK
<1>3. PICK q \in TaskReq : q = [p EXCEPT !.pc = "begun", !.at = today]
  BY <1>2 DEF TaskReq, Pc
<1>4. q.pc = "begun" /\ q.at = today /\ q.day = p.day /\ q.streak = p.streak
  BY <1>3 DEF TaskReq
<1>5. taskReq' = [taskReq EXCEPT ![r] = q]
  BY <1>1, <1>3 DEF Begin, TaskSound, TasksTypeOK
<1>6. Timely(q) /\ Keyed(q)
  BY <1>1, <1>2, <1>4, TaskConstants DEF Timely, Keyed
<1> QED
  BY <1>1, <1>2, <1>4, <1>5, <1>6, Calm DEF Begin, row

LEMMA AwardKeeps == ASSUME TaskSound, NEW r \in Reqs, Award(r) PROVE TaskSound'
<1>1. PICK p \in TaskReq : p = taskReq[r] /\ Timely(p)
  BY DEF TaskSound, TasksTypeOK, AllKeyed
<1>2. p.pc = "award" /\ asks \in 0 .. MaxAsks
  BY <1>1 DEF Award, TaskSound, TasksTypeOK
<1>3. CASE TaskDone(r)
  BY <1>1, <1>2, <1>3, Ends DEF Award, row
<1>4. CASE p.streak >= Target /\ taskReq' = [taskReq EXCEPT ![r].pc = "grant", ![r].key = Milestone]
  <2>1. PICK q \in TaskReq : q = [p EXCEPT !.pc = "grant", !.key = Milestone]
    BY Keys DEF TaskReq, Pc
  <2>2. q.pc = "grant" /\ q.key = Milestone /\ q.streak = p.streak /\ q.day = p.day
    BY <2>1 DEF TaskReq
  <2>3. taskReq' = [taskReq EXCEPT ![r] = q]
    BY <1>1, <1>4, <2>1 DEF TaskSound, TasksTypeOK
  <2>4. Timely(q) /\ Keyed(q)
    BY <1>1, <1>4, <2>2, Keys DEF Timely, Keyed
  <2> QED
    BY <1>1, <1>2, <2>2, <2>3, <2>4, Calm DEF Award, row
<1> QED
  BY <1>1, <1>3, <1>4 DEF Award

LEMMA InsertKeeps ==
    ASSUME TaskSound, NEW r \in Reqs,
           NEW from \in {"date", "grant"}, NEW to \in {"dated", "granting"},
           from = "date" <=> to = "dated", Insert(r, from, to)
    PROVE  TaskSound'
<1>1. PICK p \in TaskReq : p = taskReq[r] /\ Timely(p) /\ Keyed(p)
  BY DEF TaskSound, TasksTypeOK, AllKeyed
<1>2. p.pc = from /\ asks \in 0 .. MaxAsks /\ \A s \in Sharing : taskReq[s].key # p.key
  BY <1>1 DEF Insert, Inserting, TaskSound, TasksTypeOK
<1>3. CASE TaskDone(r)
  BY <1>1, <1>2, <1>3, Ends DEF Insert, row
<1>4. CASE Unclaimed(p.key) /\ Go(r, to)
  <2>1. PICK q \in TaskReq : q = [p EXCEPT !.pc = to]
    BY DEF TaskReq, Pc
  <2>2. q.pc = to /\ q.key = p.key /\ q.streak = p.streak /\ q.day = p.day
    BY <2>1 DEF TaskReq
  <2>3. taskReq' = [taskReq EXCEPT ![r] = q]
    BY <1>1, <1>4, <2>1 DEF Go, TaskSound, TasksTypeOK
  <2>4. Timely(q) /\ Keyed(q)
    BY <1>1, <1>2, <1>4, <2>2 DEF Timely, Keyed, Unclaimed
  <2> QED
    BY <1>1, <1>2, <2>2, <2>3, <2>4, Calm DEF Insert, row
<1> QED
  BY <1>1, <1>3, <1>4 DEF Insert

LEMMA DayKeeps == ASSUME TaskSound, NextDay PROVE TaskSound'
<1>0. TasksTypeOK
  BY DEF TaskSound
<1>1. today' \in Day /\ today <= today' /\ today' = today + 1
  BY <1>0, TaskConstants DEF NextDay, TasksTypeOK, Day
<1>2. UNCHANGED <<streak, last, done, coins, taskReq, asks, ledger>>
  BY DEF NextDay, row
<1>3. TasksTypeOK' /\ IsFiniteSet(done)'
  BY <1>0, <1>1, <1>2 DEF TasksTypeOK, TaskSound
<1>4. Signed' = Signed /\ Pending' = Pending /\ ToCheck' = ToCheck
  BY <1>2 DEF Signed, Pending, ToCheck
<1>5. Past' /\ DaysFit' /\ NothingPaidTwice' /\ Marks' /\ RunFits' /\ Backing' = Backing
  BY <1>1, <1>2, <1>4, DaysFrame
<1>6. Budget'
  BY <1>2, <1>4 DEF TaskSound, Budget
<1>7. AllKeyed'
  <2> SUFFICES ASSUME NEW s \in Reqs PROVE Timely(taskReq[s])' /\ Keyed(taskReq[s])'
    BY DEF AllKeyed
  <2>1. PICK p \in TaskReq : p = taskReq[s] /\ Timely(p) /\ Keyed(p)
    BY DEF TaskSound, TasksTypeOK, AllKeyed
  <2>2. p.day <= today' /\ (p.pc = "begun" => p.day <= p.at /\ p.at <= today')
    <3>1. p.day \in Nat /\ p.at \in Nat /\ today \in Nat /\ today' \in Nat
      BY <1>0, <1>1, TaskConstants DEF TaskReq, TasksTypeOK
    <3> QED
      BY <1>1, <2>1, <3>1 DEF Timely
  <2> QED
    BY <1>2, <2>1, <2>2 DEF Timely, Keyed
<1>8. Distinct' /\ CoinsAccounted'
  BY <1>2 DEF TaskSound, Distinct, Sharing, CoinsAccounted
<1>9. StreakBacked'
  BY <1>2, <1>5 DEF TaskSound, StreakBacked
<1> QED
  BY <1>3, <1>5, <1>6, <1>7, <1>8, <1>9 DEF TaskSound

----------------------------------------------------------------------------
LEMMA BudgetIs ==
    ASSUME TaskSound, NEW r \in Reqs, taskReq[r].pc \in {"asked", "begun"}, NEW d \in Day
    PROVE  /\ streak \in Nat /\ streak + 1 <= Days + MaxAsks /\ 1 <= MaxAsks
           /\ ledger.bonus[d] + 1 <= MaxAsks /\ ledger.renewed[d] + 1 <= MaxAsks
           /\ Cardinality(ToCheck \ {r}) = Cardinality(ToCheck) - 1 /\ Cardinality(ToCheck) >= 1
<1>1. r \in ToCheck
  BY DEF ToCheck
<1>2. Cardinality(ToCheck \ {r}) = Cardinality(ToCheck) - 1
  BY <1>1, ToCheckIs, FS_RemoveElement
<1>3. IsFiniteSet(ToCheck \ {r})
  BY ToCheckIs, FS_RemoveElement
<1>4. Cardinality(ToCheck \ {r}) \in Nat
  BY <1>3, FS_CardinalityType
<1>5. Cardinality(ToCheck) >= 1 /\ Cardinality(ToCheck) \in Nat
  BY <1>2, <1>4, ToCheckIs
<1>6. asks \in Nat /\ asks <= MaxAsks /\ streak \in Nat
  BY TaskConstants DEF TaskSound, TasksTypeOK
<1>7. ledger.bonus[d] \in Nat /\ ledger.renewed[d] \in Nat
  BY CheckedInIs DEF TaskSound
<1>8. /\ Cardinality(ToCheck) <= asks /\ streak + Cardinality(ToCheck) <= Days + asks
      /\ ledger.bonus[d] + Cardinality(ToCheck) <= asks /\ ledger.renewed[d] + Cardinality(ToCheck) <= asks
  BY DEF TaskSound, Budget
<1>9. PICK c \in Nat : c = Cardinality(ToCheck)
  BY ToCheckIs
<1>10. c >= 1 /\ c <= asks /\ streak + c <= Days + asks /\ ledger.bonus[d] + c <= asks /\ ledger.renewed[d] + c <= asks
  BY <1>5, <1>8, <1>9
<1> QED
  BY <1>2, <1>5, <1>6, <1>7, <1>10, TaskConstants

(* What a check-in books, and what it makes of the streak.                 *)
LEMMA CheckinIs ==
    ASSUME TaskSound, NEW r \in Reqs, Checkin(r), ~TaskDone(r)
    PROVE  \E p \in TaskReq, d \in Day, n \in Nat, q \in TaskReq :
             /\ p = taskReq[r] /\ p.pc = "begun" /\ d = p.day /\ d <= p.at /\ p.at <= today /\ last # d
             /\ n = (IF last # Never /\ last = d - 1 THEN streak + 1 ELSE 1) \/ (p.makeup /\ n = streak + 1)
             /\ n # 0 /\ streak' = n /\ last' = p.at
             /\ IF p.makeup THEN coins >= MakeupCost /\ coins' = coins - MakeupCost ELSE coins' = coins + Bonus
             /\ ledger' = [ledger EXCEPT !.bonus[d] = @ + (IF p.makeup THEN 0 ELSE 1),
                                         !.renewed[d] = @ + (IF p.makeup THEN 1 ELSE 0),
                                         !.crossed = @ \cup Across(r)]
             /\ q.pc = "record" /\ q.day = d /\ q.streak = n /\ q.key = p.key
             /\ taskReq' = [taskReq EXCEPT ![r] = q]
             /\ UNCHANGED <<today, done, asks>>
<1>0. TasksTypeOK
  BY DEF TaskSound
<1>1. PICK p \in TaskReq : p = taskReq[r] /\ Timely(p) /\ p.pc = "begun"
  BY DEF Checkin, TaskSound, TasksTypeOK, AllKeyed
<1>2. PICK d \in Day : d = p.day
  BY DEF TaskReq
<1>3. last # d
  BY <1>1, <1>2 DEF Checkin, AlreadyToday
<1>4. PICK n \in StreaksAfter(d, p.makeup) :
        /\ n # Never /\ (p.makeup => Covers(MakeupCost))
        /\ streak' = n /\ last' = p.at
        /\ coins' = IF p.makeup THEN coins - MakeupCost ELSE coins + Bonus
        /\ Book(r)
        /\ taskReq' = [taskReq EXCEPT ![r].pc = "record", ![r].streak = n]
  BY <1>1, <1>2, <1>3 DEF Checkin, AlreadyToday
<1>5. streak \in Nat /\ streak + 1 <= Days + MaxAsks /\ p.makeup \in BOOLEAN
  BY <1>1, <1>2, BudgetIs DEF TaskReq
<1>6. /\ n = (IF last # Never /\ last = d - 1 THEN streak + 1 ELSE 1) \/ (p.makeup /\ n = streak + 1)
      /\ n \in 0 .. Days + MaxAsks
  <2>1. n \in {streak + 1} \/ n \in {1} \/ n = Never
    BY DEF StreaksAfter
  <2>2. n \in 0 .. Days + MaxAsks
    BY <1>5, <2>1, TaskConstants
  <2>3. n = (IF last # Never /\ last = d - 1 THEN streak + 1 ELSE 1) \/ (p.makeup /\ n = streak + 1)
    BY <1>4, <1>5 DEF StreaksAfter
  <2> QED
    BY <2>2, <2>3
<1>7. PICK q \in TaskReq : q = [p EXCEPT !.pc = "record", !.streak = n]
  BY <1>6 DEF TaskReq, Pc
<1>8. q.pc = "record" /\ q.day = d /\ q.streak = n /\ q.key = p.key
  BY <1>2, <1>7 DEF TaskReq
<1>9. taskReq' = [taskReq EXCEPT ![r] = q]
  BY <1>0, <1>1, <1>4, <1>7 DEF TasksTypeOK
<1>10. ledger' = [ledger EXCEPT !.bonus[d] = @ + (IF p.makeup THEN 0 ELSE 1),
                                !.renewed[d] = @ + (IF p.makeup THEN 1 ELSE 0),
                                !.crossed = @ \cup Across(r)]
  BY <1>1, <1>2, <1>4 DEF Book
<1>11. n \in Nat /\ n # 0
  BY <1>4, <1>6, TaskConstants
<1>12. UNCHANGED <<today, done, asks>>
  BY DEF Checkin
<1>13. d <= p.at /\ p.at <= today
  BY <1>1, <1>2 DEF Timely
<1>14. IF p.makeup THEN coins >= MakeupCost /\ coins' = coins - MakeupCost ELSE coins' = coins + Bonus
  BY <1>4 DEF Covers
<1> QED
  BY <1>1, <1>2, <1>3, <1>4, <1>6, <1>8, <1>9, <1>10, <1>11, <1>12, <1>13, <1>14

LEMMA RewardsIs ==
    ASSUME IsFiniteSet(done)
    PROVE  /\ IsFiniteSet({k \in done : k[1] # "login"})
           /\ Cardinality({k \in done : k[1] # "login"}) \in Nat
<1>1. IsFiniteSet({k \in done : k[1] # "login"})
  BY FS_Subset
<1> QED
  BY <1>1, FS_CardinalityType

LEMMA AcrossIs ==
    ASSUME TasksTypeOK, NEW r \in Reqs
    PROVE  /\ Across(r) \subseteq Day
           /\ \A e \in Day : e \in Across(r) <=> taskReq[r].day # today /\ taskReq[r].day <= e /\ e <= today
<1>1. taskReq[r].day \in Nat /\ today \in Nat /\ taskReq[r].day >= 1 /\ today <= Days /\ Days \in Nat
  BY TaskConstants, TasksAssumption DEF TasksTypeOK, TaskReq, Day
<1> QED
  BY <1>1 DEF Across, Day

LEMMA CheckinKeeps == ASSUME TaskSound, NEW r \in Reqs, Checkin(r) PROVE TaskSound'
<1>0. /\ TasksTypeOK /\ Past /\ DaysFit /\ NothingPaidTwice /\ CoinsAccounted /\ Marks /\ StreakBacked /\ RunFits
      /\ Budget /\ AllKeyed /\ Distinct
  BY DEF TaskSound
<1>1. CASE TaskDone(r)
  <2>1. taskReq'[r].pc = "idle"
    BY <1>0, <1>1, NoReqIs DEF TaskDone, TasksTypeOK
  <2>2. UNCHANGED <<streak, last, coins, ledger, today, done, asks>> /\ taskReq[r].pc = "begun"
    <3>1. taskReq[r].pc = "begun" /\ UNCHANGED <<today, done, asks>>
      BY DEF Checkin
    <3>2. ASSUME NEW n, taskReq' = [taskReq EXCEPT ![r].pc = "record", ![r].streak = n] PROVE FALSE
      <4>1. taskReq[r] \in TaskReq
        BY <1>0 DEF TasksTypeOK
      <4>2. taskReq'[r].pc = "record"
        BY <1>0, <3>2, <4>1 DEF TasksTypeOK, TaskReq
      <4> QED
        BY <2>1, <4>2
    <3> QED
      BY <3>1, <3>2 DEF Checkin, row
  <2> QED
    BY <1>1, <2>2, Ends
<1>2. CASE ~TaskDone(r)
  <2>1. PICK p \in TaskReq, d \in Day, n \in Nat, q \in TaskReq :
             /\ p = taskReq[r] /\ p.pc = "begun" /\ d = p.day /\ d <= p.at /\ p.at <= today /\ last # d
             /\ n = (IF last # Never /\ last = d - 1 THEN streak + 1 ELSE 1) \/ (p.makeup /\ n = streak + 1)
             /\ n # 0 /\ streak' = n /\ last' = p.at
             /\ IF p.makeup THEN coins >= MakeupCost /\ coins' = coins - MakeupCost ELSE coins' = coins + Bonus
             /\ ledger' = [ledger EXCEPT !.bonus[d] = @ + (IF p.makeup THEN 0 ELSE 1),
                                         !.renewed[d] = @ + (IF p.makeup THEN 1 ELSE 0),
                                         !.crossed = @ \cup Across(r)]
             /\ q.pc = "record" /\ q.day = d /\ q.streak = n /\ q.key = p.key
             /\ taskReq' = [taskReq EXCEPT ![r] = q]
             /\ UNCHANGED <<today, done, asks>>
    BY <1>2, CheckinIs
  <2>2. PICK b \in Nat, c \in Nat : b = (IF p.makeup THEN 0 ELSE 1) /\ c = (IF p.makeup THEN 1 ELSE 0)
    OBVIOUS
  <2>3. PICK at \in Day : at = p.at
    BY DEF TaskReq
  <2>4. /\ d \in Nat /\ at \in Nat /\ today \in Nat /\ last \in Nat /\ streak \in Nat /\ Days \in Nat
        /\ at >= 1 /\ d >= 1 /\ today \in Day /\ b + c = 1 /\ last <= today
    BY <1>0, <2>2, TaskConstants DEF TasksTypeOK, Past
  <2>5. /\ streak + 1 <= Days + MaxAsks /\ 1 <= MaxAsks
        /\ ledger.bonus[d] + 1 <= MaxAsks /\ ledger.renewed[d] + 1 <= MaxAsks
        /\ Cardinality(ToCheck \ {r}) = Cardinality(ToCheck) - 1 /\ Cardinality(ToCheck) >= 1
    BY <2>1, BudgetIs
  <2>6. /\ ledger \in Ledger
        /\ ledger.bonus \in [Day -> 0 .. MaxAsks] /\ ledger.renewed \in [Day -> 0 .. MaxAsks]
        /\ ledger.crossed \subseteq Day
    BY <1>0, LedgerIs DEF TasksTypeOK
  <2>7. /\ ledger'.bonus = [ledger.bonus EXCEPT ![d] = @ + b]
        /\ ledger'.renewed = [ledger.renewed EXCEPT ![d] = @ + c]
        /\ ledger'.crossed = ledger.crossed \cup Across(r)
        /\ ledger'.dates = ledger.dates /\ ledger'.lost = ledger.lost
        /\ ledger' = [bonus |-> ledger'.bonus, renewed |-> ledger'.renewed, dates |-> ledger'.dates,
                      lost |-> ledger'.lost, crossed |-> ledger'.crossed]
    BY <2>1, <2>2, <2>6 DEF Ledger
  <2>8. ledger' \in Ledger
    <3>1. PICK f \in [Day -> 0 .. MaxAsks], g \in [Day -> 0 .. MaxAsks] : f = ledger.bonus /\ g = ledger.renewed
      BY <2>6
    <3>2. f[d] + b \in 0 .. MaxAsks /\ g[d] + c \in 0 .. MaxAsks
      BY <2>2, <2>4, <2>5, <3>1, TasksAssumption
    <3>3. [f EXCEPT ![d] = @ + b] \in [Day -> 0 .. MaxAsks] /\ [g EXCEPT ![d] = @ + c] \in [Day -> 0 .. MaxAsks]
      BY <3>2
    <3>4. ledger'.bonus \in [Day -> 0 .. MaxAsks] /\ ledger'.renewed \in [Day -> 0 .. MaxAsks]
      BY <2>7, <3>1, <3>3
    <3>5. ledger'.crossed \subseteq Day /\ ledger'.dates \subseteq Day /\ ledger'.lost \subseteq Day
      BY <1>0, <2>7, LedgerIs, AcrossIs
    <3> QED
      BY <2>7, <3>4, <3>5 DEF Ledger
  <2>9. taskReq'[r] = q /\ \A s \in Reqs \ {r} : taskReq'[s] = taskReq[s]
    BY <1>0, <2>1 DEF TasksTypeOK
  <2>10. n <= streak + 1
    BY <2>1, <2>4
  <2>11. TasksTypeOK'
    <3>1. streak' \in 0 .. Days + MaxAsks /\ last' \in Day \cup {Never}
      BY <2>1, <2>3, <2>4, <2>5, <2>10, TaskConstants
    <3>2. coins' \in Nat
      BY <1>0, <2>1, TaskConstants DEF TasksTypeOK
    <3>3. taskReq' \in [Reqs -> TaskReq]
      BY <1>0, <2>1 DEF TasksTypeOK
    <3> QED
      BY <1>0, <2>1, <2>8, <3>1, <3>2, <3>3 DEF TasksTypeOK
  <2>12. Budget'
    <3>1. ToCheck' = ToCheck \ {r}
      BY <2>1, <2>9 DEF ToCheck
    <3>2. PICK t \in Nat : t = Cardinality(ToCheck) /\ t >= 1 /\ Cardinality(ToCheck') = t - 1
      BY <2>5, <3>1, ToCheckIs
    <3>3. asks \in Nat /\ t <= asks /\ streak + t <= Days + asks
      BY <1>0, <3>2, TaskConstants DEF Budget, TasksTypeOK
    <3>4. ASSUME NEW e \in Day PROVE ledger'.bonus[e] + (t - 1) <= asks /\ ledger'.renewed[e] + (t - 1) <= asks
      <4>1. ledger.bonus[e] + t <= asks /\ ledger.renewed[e] + t <= asks
            /\ ledger.bonus[e] \in Nat /\ ledger.renewed[e] \in Nat
        BY <1>0, <3>2, CheckedInIs DEF Budget
      <4>2. ledger'.bonus[e] = ledger.bonus[e] + (IF e = d THEN b ELSE 0)
            /\ ledger'.renewed[e] = ledger.renewed[e] + (IF e = d THEN c ELSE 0)
        BY <2>2, <2>6, <2>7, <4>1
      <4>3. CASE e = d
        BY <2>4, <3>2, <3>3, <4>1, <4>2, <4>3
      <4>4. CASE e # d
        BY <3>2, <3>3, <4>1, <4>2, <4>4
      <4> QED
        BY <4>3, <4>4
    <3>5. streak' + (t - 1) <= Days + asks
      BY <2>1, <2>4, <2>10, <3>3
    <3> QED
      BY <2>1, <3>2, <3>3, <3>4, <3>5 DEF Budget
  <2>13. AllKeyed'
    <3> SUFFICES ASSUME NEW s \in Reqs PROVE Timely(taskReq[s])' /\ Keyed(taskReq[s])'
      BY DEF AllKeyed
    <3>1. CASE s = r
      BY <2>1, <2>3, <2>4, <2>9, <3>1 DEF Timely, Keyed
    <3>2. CASE s # r
      BY <1>0, <2>1, <2>9, <3>2 DEF AllKeyed, Timely, Keyed
    <3> QED
      BY <3>1, <3>2
  <2>14. Distinct'
    BY <1>0, <2>1, <2>9 DEF Distinct, Sharing
  <2>15. Signed' = Signed /\ Pending' = Pending \cup {d} /\ Backing' = Backing \cup {d}
    <3>1. Signed' = Signed
      BY <2>1 DEF Signed
    <3>2. Pending' = Pending \cup {d}
      BY <2>1, <2>9 DEF Pending
    <3> QED
      BY <2>7, <3>1, <3>2 DEF Backing
  <2>16. Past'
    BY <1>0, <2>1, <2>3, <2>4, <2>7, <2>15 DEF Past
  <2>17. \A e \in Day : CheckedIn(e) \in Nat /\ CheckedIn(e)' = IF e = d THEN CheckedIn(e) + 1 ELSE CheckedIn(e)
    <3> SUFFICES ASSUME NEW e \in Day
                 PROVE  CheckedIn(e) \in Nat /\ CheckedIn(e)' = IF e = d THEN CheckedIn(e) + 1 ELSE CheckedIn(e)
      OBVIOUS
    <3>1. CheckedIn(e) \in Nat /\ CheckedIn(e) = ledger.bonus[e] + ledger.renewed[e]
          /\ ledger.bonus[e] \in Nat /\ ledger.renewed[e] \in Nat
      BY <1>0, CheckedInIs
    <3>2. ledger'.bonus[e] = ledger.bonus[e] + (IF e = d THEN b ELSE 0)
          /\ ledger'.renewed[e] = ledger.renewed[e] + (IF e = d THEN c ELSE 0)
      BY <2>2, <2>6, <2>7, <3>1
    <3>3. CheckedIn(e)' = ledger'.bonus[e] + ledger'.renewed[e]
      BY DEF CheckedIn
    <3>4. CASE e = d
      BY <2>4, <3>1, <3>2, <3>3, <3>4
    <3>5. CASE e # d
      BY <3>1, <3>2, <3>3, <3>5
    <3> QED
      BY <3>1, <3>4, <3>5
  <2>18. d \notin ledger'.crossed => d = today /\ at = today
    BY <1>0, <2>1, <2>3, <2>4, <2>7, AcrossIs
  <2>19. DaysFit'
    <3> SUFFICES ASSUME NEW e \in Day, e \notin ledger'.crossed
                 PROVE  CheckedIn(e)' <= 1 /\ (CheckedIn(e)' # 0 => last' >= e /\ e \in Backing')
      BY DEF DaysFit
    <3>0. e \in Nat /\ e \notin ledger.crossed /\ CheckedIn(e) \in Nat
          /\ CheckedIn(e) <= 1 /\ (CheckedIn(e) # 0 => last >= e /\ e \in Backing)
      BY <1>0, <2>7, <2>17, TaskConstants DEF DaysFit
    <3>1. CASE e = d
      <4>1. d = today /\ at = today
        BY <2>18, <3>1
      <4>2. CheckedIn(e) = 0
        BY <2>1, <2>4, <3>0, <3>1, <4>1
      <4> QED
        BY <2>1, <2>3, <2>4, <2>15, <2>17, <3>1, <4>1, <4>2
    <3>2. CASE e # d
      <4>1. CheckedIn(e)' = CheckedIn(e)
        BY <2>17, <3>2
      <4>2. ASSUME last >= e PROVE at >= e
        <5>1. ~(d # today /\ d <= e /\ e <= today)
          BY <1>0, <2>1, <2>7, AcrossIs
        <5> QED
          BY <2>1, <2>3, <2>4, <3>0, <4>2, <5>1
      <4> QED
        BY <2>1, <2>3, <2>15, <3>0, <4>1, <4>2
    <3> QED
      BY <3>1, <3>2
  <2>20. NothingPaidTwice'
    <3> SUFFICES ASSUME NEW e \in ledger.dates, e \notin ledger'.crossed, e \notin ledger.lost, e \notin Pending'
                 PROVE  CheckedIn(e)' = 0
      BY <2>7 DEF NothingPaidTwice
    <3>1. e \in Day /\ e # d /\ e \notin ledger.crossed /\ e \notin Pending
      BY <1>0, <2>7, <2>15, LedgerIs
    <3> QED
      BY <1>0, <2>17, <3>1 DEF NothingPaidTwice
  <2>21. ledger'.crossed = {} => d = today /\ at = today /\ ledger.crossed = {} /\ d \notin Backing
    <3> SUFFICES ASSUME ledger'.crossed = {} PROVE d = today /\ at = today /\ ledger.crossed = {} /\ d \notin Backing
      OBVIOUS
    <3>1. d = today /\ at = today /\ ledger.crossed = {}
      BY <2>7, <2>18
    <3>2. ASSUME d \in Backing PROVE FALSE
      BY <1>0, <2>1, <2>4, <3>1, <3>2 DEF Marks, Past
    <3> QED
      BY <3>1, <3>2
  <2>22. Marks'
    <3> SUFFICES ASSUME ledger'.crossed = {}, NEW e \in Backing' PROVE e \in ledger.dates \/ e <= last'
      BY <2>7 DEF Marks
    <3>1. CASE e = d
      BY <2>1, <2>3, <2>4, <2>21, <3>1
    <3>2. CASE e \in Backing
      <4>1. e \in ledger.dates \/ e <= last
        BY <1>0, <2>21, <3>2 DEF Marks
      <4>2. e \in Nat
        BY <1>0, <3>2, BackingIs, TaskConstants
      <4> QED
        BY <2>1, <2>3, <2>4, <2>21, <4>1, <4>2
    <3> QED
      BY <2>15, <3>1, <3>2
  <2>23. StreakBacked'
    <3> SUFFICES ASSUME ledger'.crossed = {}
                 PROVE  /\ streak' <= Cardinality(Backing')
                        /\ \A s \in Reqs : taskReq'[s].streak <= Cardinality(Backing')
                        /\ Milestone \in done' => Target <= Cardinality(Backing')
      BY DEF StreakBacked
    <3>1. PICK k \in Nat : k = Cardinality(Backing) /\ Cardinality(Backing') = k + 1
      <4>1. Cardinality(Backing \cup {d}) = Cardinality(Backing) + 1
        BY <1>0, <2>21, BackingIs, FS_AddElement
      <4> QED
        BY <1>0, <2>15, <4>1, BackingIs
    <3>2. /\ streak <= k /\ \A s \in Reqs : taskReq[s].streak <= k
          /\ Milestone \in done => Target <= k
      BY <1>0, <2>21, <3>1 DEF StreakBacked
    <3>3. streak' <= k + 1 /\ q.streak <= k + 1
      BY <2>1, <2>4, <2>10, <3>2
    <3>4. \A s \in Reqs : taskReq[s].streak \in Nat
      BY <1>0, TasksAssumption DEF TasksTypeOK, TaskReq
    <3>5. \A s \in Reqs : taskReq'[s].streak <= k + 1
      BY <2>9, <3>2, <3>3, <3>4
    <3>6. Milestone \in done' => Target <= k + 1
      BY <2>1, <3>2, TaskConstants
    <3> QED
      BY <3>1, <3>3, <3>5, <3>6
  <2>24. /\ SumFunction(ledger.bonus) \in Nat /\ SumFunction(ledger.renewed) \in Nat
         /\ SumFunction(ledger'.bonus) = SumFunction(ledger.bonus) + b
         /\ SumFunction(ledger'.renewed) = SumFunction(ledger.renewed) + c
    <3>1. PICK f \in [Day -> Int], g \in [Day -> Int] : f = ledger.bonus /\ g = ledger.renewed
      BY <2>6, TasksAssumption
    <3>2. PICK v \in Int, w \in Int : v = f[d] + b /\ w = g[d] + c
      OBVIOUS
    <3>0. IsFiniteSet(Day)
      BY TaskConstants
    <3>3. SumFunction([f EXCEPT ![d] = v]) = SumFunction(f) + v - f[d]
      BY <3>0, SumUpdate
    <3>4. SumFunction([g EXCEPT ![d] = w]) = SumFunction(g) + w - g[d]
      BY <3>0, SumUpdate
    <3>5. ledger'.bonus = [f EXCEPT ![d] = v] /\ ledger'.renewed = [g EXCEPT ![d] = w]
      BY <2>7, <3>1, <3>2
    <3>6. SumFunction(ledger.bonus) \in Nat /\ SumFunction(ledger.renewed) \in Nat
      BY <1>0, LedgerIs
    <3>7. PICK i \in Int, j \in Int : i = f[d] /\ j = g[d]
      OBVIOUS
    <3> QED
      BY <3>1, <3>2, <3>3, <3>4, <3>5, <3>6, <3>7
  <2>25. CoinsAccounted'
    <3>1. PICK S \in Nat, R \in Nat, D \in Nat, W \in Nat :
            /\ S = SumFunction(ledger.bonus) /\ R = SumFunction(ledger.renewed)
            /\ D = Cardinality(ledger.dates) /\ W = Cardinality({k \in done : k[1] # "login"})
      BY <1>0, <2>24, LedgerIs, RewardsIs DEF TaskSound
    <3>2. coins = Fund + Bonus * S - MakeupCost * (R + D) + Reward * W
      BY <1>0, <3>1 DEF CoinsAccounted
    <3>3. coins' = Fund + Bonus * (S + b) - MakeupCost * ((R + c) + D) + Reward * W
      <4>1. CASE p.makeup
        <5>1. b = 0 /\ c = 1 /\ coins' = coins - MakeupCost
          BY <2>1, <2>2, <4>1
        <5>2. MakeupCost * ((R + 1) + D) = MakeupCost * (R + D) + MakeupCost
          BY TaskConstants
        <5> QED
          BY <3>2, <5>1, <5>2, TaskConstants
      <4>2. CASE ~p.makeup
        <5>1. b = 1 /\ c = 0 /\ coins' = coins + Bonus
          BY <2>1, <2>2, <4>2
        <5>2. Bonus * (S + 1) = Bonus * S + Bonus
          BY TaskConstants
        <5> QED
          BY <3>2, <5>1, <5>2, TaskConstants
      <4> QED
        BY <4>1, <4>2
    <3> QED
      BY <2>1, <2>7, <2>24, <3>1, <3>3 DEF CoinsAccounted
  <2>26. RunFits'
    <3> SUFFICES ASSUME Plain'
                 PROVE  /\ streak' <= last' /\ (last' # Never => streak' # 0)
                        /\ \A e \in Day : e \in Backing' => e <= last'
                        /\ \A e \in Day : last' - streak' < e /\ e <= last' => e \in Backing'
                        /\ last' - streak' \notin Backing'
      BY DEF RunFits
    <3>1. d = today /\ at = today /\ ledger.crossed = {} /\ d \notin Backing
      BY <2>21 DEF Plain
    <3>2. c = 0 /\ ~p.makeup
      <4>1. SumFunction(ledger.renewed) + c = 0
        BY <2>24 DEF Plain
      <4> QED
        BY <2>2, <2>24, <4>1
    <3>3. Plain
      BY <2>7, <2>24, <3>1, <3>2 DEF Plain
    <3>4. /\ streak <= last /\ (last # Never => streak # 0)
          /\ \A e \in Day : e \in Backing => e <= last
          /\ \A e \in Day : last - streak < e /\ e <= last => e \in Backing
          /\ last - streak \notin Backing
      BY <1>0, <3>3 DEF RunFits
    <3>5. last' = d /\ streak' = n /\ last < d
      BY <2>1, <2>3, <2>4, <3>1
    <3>6. \A e \in Day : e \in Nat /\ e >= 1
      BY TaskConstants
    <3>7. Backing \subseteq Day
      BY <1>0, BackingIs
    <3>8. CASE last # Never /\ last = d - 1
      <4>1. n = streak + 1
        BY <2>1, <3>2, <3>8
      <4>2. d - n = last - streak
        BY <2>4, <3>8, <4>1
      <4>3. \A e \in Day : e <= d => e = d \/ e <= last
        BY <2>4, <3>6, <3>8
      <4> QED
        BY <2>4, <2>15, <3>4, <3>5, <3>6, <3>7, <3>8, <4>1, <4>2, <4>3
    <3>9. CASE ~(last # Never /\ last = d - 1)
      <4>1. n = 1
        BY <2>1, <3>2, <3>9
      <4>2. d - 1 \notin Backing
        BY <2>4, <3>4, <3>5, <3>6, <3>7, <3>9, TaskConstants
      <4> QED
        BY <2>4, <2>15, <3>4, <3>5, <3>6, <3>7, <4>1, <4>2
    <3> QED
      BY <3>8, <3>9
  <2> QED
    BY <2>1, <2>11, <2>12, <2>13, <2>14, <2>16, <2>19, <2>20, <2>22, <2>23, <2>25, <2>26 DEF TaskSound
<1> QED
  BY <1>1, <1>2

----------------------------------------------------------------------------
LEMMA RecordKeeps == ASSUME TaskSound, NEW r \in Reqs, RecordDay(r) PROVE TaskSound'
<1>0. /\ TasksTypeOK /\ Past /\ DaysFit /\ NothingPaidTwice /\ CoinsAccounted /\ Marks /\ StreakBacked /\ RunFits
      /\ Budget /\ AllKeyed /\ Distinct /\ IsFiniteSet(done)
  BY DEF TaskSound
<1>1. PICK p \in TaskReq : p = taskReq[r] /\ Timely(p) /\ p.pc = "record"
  BY <1>0 DEF RecordDay, TasksTypeOK, AllKeyed
<1>2. PICK d \in Day : d = p.day /\ \A s \in Sharing : taskReq[s].key # LoginKey(d)
  BY <1>1 DEF TaskReq, RecordDay, Inserting
<1>3. PICK q \in TaskReq : q = [p EXCEPT !.pc = "award"]
  BY DEF TaskReq, Pc
<1>4. q.pc = "award" /\ q.day = d /\ q.streak = p.streak
  BY <1>2, <1>3 DEF TaskReq
<1>5. taskReq' = [taskReq EXCEPT ![r] = q]
  BY <1>0, <1>1, <1>3 DEF RecordDay, Go, TasksTypeOK
<1>6. taskReq'[r] = q /\ \A s \in Reqs \ {r} : taskReq'[s] = taskReq[s]
  BY <1>0, <1>5 DEF TasksTypeOK
<1>7. /\ UNCHANGED <<today, streak, last, coins, asks>> /\ done' = done \cup {LoginKey(d)}
      /\ ledger' = [ledger EXCEPT !.crossed = @ \cup Across(r)]
  BY <1>1, <1>2 DEF RecordDay, row
<1>8. /\ ledger'.bonus = ledger.bonus /\ ledger'.renewed = ledger.renewed /\ ledger'.dates = ledger.dates
      /\ ledger'.lost = ledger.lost /\ ledger'.crossed = ledger.crossed \cup Across(r)
      /\ ledger' \in Ledger
  <2>1. Across(r) \subseteq Day /\ ledger \in Ledger
    BY <1>0, AcrossIs DEF TasksTypeOK
  <2> QED
    BY <1>7, <2>1 DEF Ledger
<1>9. TasksTypeOK' /\ IsFiniteSet(done)'
  <2>1. done' \in SUBSET Key /\ taskReq' \in [Reqs -> TaskReq]
    BY <1>0, <1>5, <1>7, Keys DEF TasksTypeOK
  <2>2. IsFiniteSet(done \cup {LoginKey(d)})
    BY <1>0, FS_AddElement
  <2> QED
    BY <1>0, <1>7, <1>8, <2>1, <2>2 DEF TasksTypeOK
<1>10. Budget'
  <2>1. ToCheck' = ToCheck
    BY <1>1, <1>4, <1>6 DEF ToCheck
  <2> QED
    BY <1>0, <1>7, <1>8, <2>1 DEF Budget
<1>11. AllKeyed'
  <2> SUFFICES ASSUME NEW s \in Reqs PROVE Timely(taskReq[s])' /\ Keyed(taskReq[s])'
    BY DEF AllKeyed
  <2>1. CASE s = r
    BY <1>1, <1>2, <1>4, <1>6, <1>7, <2>1 DEF Timely, Keyed
  <2>2. CASE s # r
    <3>1. taskReq[s].pc \in {"dated", "granting"} => taskReq[s].key # LoginKey(d)
      BY <1>2 DEF Sharing
    <3> QED
      BY <1>0, <1>6, <1>7, <2>2, <3>1 DEF AllKeyed, Timely, Keyed
  <2> QED
    BY <2>1, <2>2
<1>12. Distinct'
  BY <1>0, <1>4, <1>6 DEF Distinct, Sharing
<1>13. Signed' = Signed \cup {d} /\ Pending \subseteq Pending' \cup {d} /\ Pending' \subseteq Pending
       /\ Backing' = Backing
  <2>1. Signed' = Signed \cup {d}
    BY <1>7, Keys DEF Signed
  <2>2. Pending \subseteq Pending' \cup {d} /\ Pending' \subseteq Pending /\ d \in Pending
    BY <1>1, <1>2, <1>4, <1>6 DEF Pending
  <2> QED
    BY <1>8, <2>1, <2>2 DEF Backing
<1>14. \A e : CheckedIn(e)' = CheckedIn(e)
  BY <1>8 DEF CheckedIn
<1>15. Past'
  BY <1>0, <1>7, <1>8, <1>13 DEF Past
<1>16. DaysFit'
  BY <1>0, <1>7, <1>8, <1>13, <1>14 DEF DaysFit
<1>17. NothingPaidTwice'
  <2> SUFFICES ASSUME NEW e \in ledger.dates, e \notin ledger'.crossed, e \notin ledger.lost, e \notin Pending'
               PROVE  CheckedIn(e)' = 0
    BY <1>8 DEF NothingPaidTwice
  <2>1. e \in Day /\ e < today /\ e \notin ledger.crossed
    BY <1>0, <1>8, LedgerIs DEF Past
  <2>2. e # d
    <3>1. ASSUME e = d PROVE FALSE
      <4>1. d # today /\ d <= d /\ d <= today /\ d \in Nat /\ today \in Nat
        BY <1>0, <2>1, <3>1, TaskConstants DEF TasksTypeOK
      <4>2. d \in Across(r)
        BY <1>0, <1>1, <1>2, <4>1, AcrossIs
      <4> QED
        BY <1>8, <3>1, <4>2
    <3> QED
      BY <3>1
  <2>3. e \notin Pending
    BY <1>13, <2>2
  <2> QED
    BY <1>0, <1>14, <2>1, <2>3 DEF NothingPaidTwice
<1>18. CoinsAccounted'
  <2>1. {k \in done' : k[1] # "login"} = {k \in done : k[1] # "login"}
    BY <1>7, Keys
  <2> QED
    BY <1>0, <1>7, <1>8, <2>1 DEF CoinsAccounted
<1>19. Marks' /\ RunFits'
  BY <1>0, <1>7, <1>8, <1>13 DEF Marks, RunFits, Plain
<1>20. StreakBacked'
  <2>1. Milestone \in done' => Milestone \in done
    BY <1>7, Keys
  <2> QED
    BY <1>0, <1>1, <1>4, <1>6, <1>7, <1>8, <1>13, <2>1 DEF StreakBacked
<1> QED
  BY <1>9, <1>10, <1>11, <1>12, <1>15, <1>16, <1>17, <1>18, <1>19, <1>20 DEF TaskSound

LEMMA FailKeeps == ASSUME TaskSound, NEW r \in Reqs, Fail(r) PROVE TaskSound'
<1>0. /\ TasksTypeOK /\ Past /\ DaysFit /\ NothingPaidTwice /\ CoinsAccounted /\ Marks /\ StreakBacked /\ RunFits
      /\ Budget /\ AllKeyed /\ Distinct /\ IsFiniteSet(done)
  BY DEF TaskSound
<1>1. UNCHANGED <<today, streak, last, done, coins, asks>> /\ TaskDone(r)
  BY DEF Fail, row
<1>2. CASE taskReq[r].pc # "record"
  BY <1>1, <1>2, Ends DEF Fail
<1>3. CASE taskReq[r].pc = "record"
  <2>1. PICK d \in Day : d = taskReq[r].day
    BY <1>0 DEF TasksTypeOK, TaskReq
  <2>2. ledger' = [ledger EXCEPT !.lost = @ \cup {d}]
    BY <1>3, <2>1 DEF Fail
  <2>3. /\ ledger'.bonus = ledger.bonus /\ ledger'.renewed = ledger.renewed /\ ledger'.dates = ledger.dates
        /\ ledger'.lost = ledger.lost \cup {d} /\ ledger'.crossed = ledger.crossed
        /\ ledger' \in Ledger
    <3>1. ledger \in Ledger
      BY <1>0 DEF TasksTypeOK
    <3> QED
      BY <2>2, <3>1 DEF Ledger
  <2>4. taskReq' = [taskReq EXCEPT ![r] = NoTask] /\ taskReq'[r] = NoTask /\ \A s \in Reqs \ {r} : taskReq'[s] = taskReq[s]
    BY <1>0, <1>1 DEF TaskDone, TasksTypeOK
  <2>5. TasksTypeOK' /\ IsFiniteSet(done)'
    <3>1. taskReq' \in [Reqs -> TaskReq]
      BY <1>0, <2>4, NoReqIs DEF TasksTypeOK
    <3> QED
      BY <1>0, <1>1, <2>3, <3>1 DEF TasksTypeOK
  <2>6. Budget'
    <3>1. ToCheck' = ToCheck
      BY <1>3, <2>4, NoReqIs DEF ToCheck
    <3> QED
      BY <1>0, <1>1, <2>3, <3>1 DEF Budget
  <2>7. AllKeyed'
    <3> SUFFICES ASSUME NEW s \in Reqs PROVE Timely(taskReq[s])' /\ Keyed(taskReq[s])'
      BY DEF AllKeyed
    <3>1. CASE s = r
      <4>1. 1 <= today
        BY <1>0, TaskConstants DEF TasksTypeOK, Day
      <4> QED
        BY <1>1, <2>4, <3>1, <4>1, NoReqIs DEF Timely, Keyed
    <3>2. CASE s # r
      BY <1>0, <1>1, <2>4, <3>2 DEF AllKeyed, Timely, Keyed
    <3> QED
      BY <3>1, <3>2
  <2>8. Distinct'
    BY <1>0, <2>4, NoReqIs DEF Distinct, Sharing
  <2>9. Signed' = Signed /\ Pending \subseteq Pending' \cup {d} /\ Pending' \subseteq Pending /\ Backing' = Backing
    <3>1. Signed' = Signed
      BY <1>1 DEF Signed
    <3>2. Pending \subseteq Pending' \cup {d} /\ Pending' \subseteq Pending /\ d \in Pending
      BY <1>3, <2>1, <2>4, NoReqIs DEF Pending
    <3> QED
      BY <2>3, <3>1, <3>2 DEF Backing
  <2>10. \A e : CheckedIn(e)' = CheckedIn(e)
    BY <2>3 DEF CheckedIn
  <2>11. Past' /\ DaysFit' /\ Marks' /\ CoinsAccounted'
    BY <1>0, <1>1, <2>3, <2>9, <2>10 DEF Past, DaysFit, Marks, CoinsAccounted
  <2>12. NothingPaidTwice'
    BY <1>0, <2>3, <2>9, <2>10 DEF NothingPaidTwice
  <2>13. RunFits'
    BY <2>3 DEF RunFits, Plain
  <2>14. StreakBacked'
    <3>1. Cardinality(Backing) \in Nat
      BY <1>0, BackingIs
    <3> QED
      BY <1>0, <1>1, <2>3, <2>4, <2>9, <3>1, NoReqIs DEF StreakBacked
  <2> QED
    BY <2>5, <2>6, <2>7, <2>8, <2>11, <2>12, <2>13, <2>14 DEF TaskSound
<1> QED
  BY <1>2, <1>3

LEMMA RewardKeeps == ASSUME TaskSound, NEW r \in Reqs, CommitReward(r) PROVE TaskSound'
<1>0. /\ TasksTypeOK /\ Past /\ DaysFit /\ NothingPaidTwice /\ CoinsAccounted /\ Marks /\ StreakBacked /\ RunFits
      /\ Budget /\ AllKeyed /\ Distinct /\ IsFiniteSet(done)
  BY DEF TaskSound
<1>1. PICK p \in TaskReq : p = taskReq[r] /\ Keyed(p) /\ p.pc = "granting"
  BY <1>0 DEF CommitReward, TasksTypeOK, AllKeyed
<1>2. PICK k \in Key : k = p.key /\ k \notin done /\ k[1] # "login" /\ (k = Milestone => p.streak >= Target)
  BY <1>1 DEF Keyed
<1>3. /\ UNCHANGED <<today, streak, last, asks, ledger>> /\ coins' = coins + Reward
      /\ done' = done \cup {k} /\ taskReq' = [taskReq EXCEPT ![r] = NoTask]
  BY <1>1, <1>2 DEF CommitReward, row, TaskDone
<1>4. taskReq'[r] = NoTask /\ \A s \in Reqs \ {r} : taskReq'[s] = taskReq[s]
  BY <1>0, <1>3 DEF TasksTypeOK
<1>5. IsFiniteSet(done \cup {k})
  BY <1>0, FS_AddElement
<1>6. TasksTypeOK' /\ IsFiniteSet(done)'
  <2>1. done' \in SUBSET Key /\ taskReq' \in [Reqs -> TaskReq] /\ coins' \in Nat
    BY <1>0, <1>3, NoReqIs, TaskConstants DEF TasksTypeOK
  <2> QED
    BY <1>0, <1>3, <1>5, <2>1 DEF TasksTypeOK
<1>7. Budget'
  <2>1. ToCheck' = ToCheck
    BY <1>1, <1>4, NoReqIs DEF ToCheck
  <2> QED
    BY <1>0, <1>3, <2>1 DEF Budget
<1>8. AllKeyed'
  <2> SUFFICES ASSUME NEW s \in Reqs PROVE Timely(taskReq[s])' /\ Keyed(taskReq[s])'
    BY DEF AllKeyed
  <2>1. CASE s = r
    <3>1. 1 <= today
      BY <1>0, TaskConstants DEF TasksTypeOK, Day
    <3> QED
      BY <1>3, <1>4, <2>1, <3>1, NoReqIs DEF Timely, Keyed
  <2>2. CASE s # r
    <3>1. taskReq[s].pc \in {"dated", "granting"} => taskReq[s].key # k
      BY <1>0, <1>1, <1>2, <2>2 DEF Distinct, Sharing
    <3> QED
      BY <1>0, <1>3, <1>4, <2>2, <3>1 DEF AllKeyed, Timely, Keyed
  <2> QED
    BY <2>1, <2>2
<1>9. Distinct'
  BY <1>0, <1>4, NoReqIs DEF Distinct, Sharing
<1>10. Signed' = Signed /\ Pending' = Pending
  <2>1. \A d \in Day : LoginKey(d) # k
    BY <1>2, Keys
  <2>2. Signed' = Signed
    BY <1>3, <2>1 DEF Signed
  <2>3. {s \in Reqs : taskReq'[s].pc = "record"} = {s \in Reqs : taskReq[s].pc = "record"}
    BY <1>1, <1>4, NoReqIs
  <2>4. \A s \in Reqs : taskReq[s].pc = "record" => taskReq'[s] = taskReq[s]
    BY <1>1, <1>4
  <2> QED
    BY <2>2, <2>3, <2>4 DEF Pending
<1>11. Past' /\ DaysFit' /\ NothingPaidTwice' /\ Marks' /\ RunFits' /\ Backing' = Backing
  BY <1>0, <1>3, <1>10, TaskConstants, DaysFrame DEF TasksTypeOK
<1>12. CoinsAccounted'
  <2> DEFINE Paid(S) == {e \in S : e[1] # "login"}
  <2>1. Paid(done') = Paid(done) \cup {k} /\ k \notin Paid(done)
    BY <1>2, <1>3
  <2>2. IsFiniteSet(Paid(done)) /\ Cardinality(Paid(done)) \in Nat
    BY <1>0, RewardsIs
  <2>3. Cardinality(Paid(done) \cup {k}) = Cardinality(Paid(done)) + 1
    BY <2>1, <2>2, FS_AddElement
  <2>4. PICK W \in Nat : W = Cardinality(Paid(done)) /\ Cardinality(Paid(done')) = W + 1
    BY <2>1, <2>2, <2>3
  <2>5. Reward * (W + 1) = Reward * W + Reward
    BY TaskConstants
  <2>6. PICK B \in Int : B = Fund + Bonus * SumFunction(ledger.bonus)
              - MakeupCost * (SumFunction(ledger.renewed) + Cardinality(ledger.dates))
    BY <1>0, LedgerIs, TaskConstants
  <2>7. coins = B + Reward * W
    BY <1>0, <2>4, <2>6 DEF CoinsAccounted
  <2>8. coins' = B + Reward * (W + 1)
    BY <1>3, <2>5, <2>7, TaskConstants
  <2> QED
    BY <1>3, <2>4, <2>6, <2>8 DEF CoinsAccounted
<1>13. StreakBacked'
  <2> SUFFICES ASSUME ledger.crossed = {}
               PROVE  /\ streak <= Cardinality(Backing)
                      /\ \A s \in Reqs : taskReq'[s].streak <= Cardinality(Backing)
                      /\ Milestone \in done' => Target <= Cardinality(Backing)
    BY <1>3, <1>11 DEF StreakBacked
  <2>1. PICK c \in Nat : c = Cardinality(Backing)
    BY <1>0, BackingIs
  <2>2. streak <= c /\ (\A s \in Reqs : taskReq[s].streak <= c) /\ (Milestone \in done => Target <= c)
    BY <1>0, <2>1 DEF StreakBacked
  <2>3. p.streak \in Nat /\ p.streak <= c
    BY <1>1, <2>2, TasksAssumption DEF TaskReq
  <2>4. \A s \in Reqs : taskReq'[s].streak <= c
    BY <1>4, <2>2, NoReqIs
  <2>5. Milestone \in done' => Target <= c
    BY <1>2, <1>3, <2>2, <2>3, TaskConstants
  <2> QED
    BY <2>1, <2>2, <2>4, <2>5
<1> QED
  BY <1>6, <1>7, <1>8, <1>9, <1>11, <1>12, <1>13 DEF TaskSound

(* The streak counted back from a day is no longer than the days signed.   *)
LEMMA RecomputedIs ==
    ASSUME NEW S \in SUBSET Day, NEW d
    PROVE  /\ RecomputeStreak(S, d) \in Nat
           /\ RecomputeStreak(S, d) <= Cardinality(S) /\ RecomputeStreak(S, d) <= Days
<1>1. PICK T \in SUBSET S : RecomputeStreak(S, d) = Cardinality(T)
  <2> DEFINE start == IF d \in S THEN d ELSE d - 1
  <2>1. RecomputeStreak(S, d) = Cardinality({e \in S : e .. start \subseteq S /\ e <= start})
    BY DEF RecomputeStreak
  <2>2. {e \in S : e .. start \subseteq S /\ e <= start} \subseteq S
    OBVIOUS
  <2> QED
    BY <2>1, <2>2
<1>2. IsFiniteSet(S) /\ IsFiniteSet(Day)
  BY TaskConstants, FS_Subset
<1>3. Cardinality(T) <= Cardinality(S) /\ IsFiniteSet(T)
  BY <1>2, FS_Subset
<1>4. Cardinality(S) <= Cardinality(Day)
  BY <1>2, FS_Subset
<1>5. Cardinality(Day) = Days
  <2>1. Days \in Int /\ 1 \in Int /\ Days >= 1
    BY TaskConstants
  <2>2. Cardinality(1 .. Days) = IF 1 > Days THEN 0 ELSE Days - 1 + 1
    BY <2>1, FS_Interval
  <2> QED
    BY <2>1, <2>2 DEF Day
<1>6. Cardinality(T) \in Nat /\ Cardinality(S) \in Nat /\ Days \in Nat
  BY <1>2, <1>3, TaskConstants, FS_CardinalityType
<1> QED
  BY <1>1, <1>3, <1>4, <1>5, <1>6

LEMMA PayKeeps == ASSUME TaskSound, NEW r \in Reqs, PayDate(r) PROVE TaskSound'
<1>0. /\ TasksTypeOK /\ Past /\ DaysFit /\ NothingPaidTwice /\ CoinsAccounted /\ Marks /\ StreakBacked /\ RunFits
      /\ Budget /\ AllKeyed /\ Distinct /\ IsFiniteSet(done)
  BY DEF TaskSound
<1>1. PICK p \in TaskReq : p = taskReq[r] /\ Keyed(p) /\ Timely(p) /\ p.pc = "dated"
  BY <1>0 DEF PayDate, TasksTypeOK, AllKeyed
<1>2. CASE ~Covers(MakeupCost)
  BY <1>1, <1>2, Ends DEF PayDate
<1>3. CASE Covers(MakeupCost)
  <2>1. PICK d \in Day : p.key = LoginKey(d) /\ d < p.day /\ LoginKey(d) \notin done /\ p.key[2] = d
    BY <1>1, Keys DEF Keyed
  <2>2. Signed \cup {d} \subseteq Day
    BY <1>0, BackingIs
  <2>3. PICK n \in Nat : /\ n = RecomputeStreak(Signed \cup {d}, p.day)
                         /\ n <= Cardinality(Signed \cup {d}) /\ n <= Days
    BY <2>2, RecomputedIs
  <2>4. /\ coins' = coins - MakeupCost /\ done' = done \cup {LoginKey(d)} /\ streak' = n
        /\ ledger' = [ledger EXCEPT !.dates = @ \cup {d}]
        /\ taskReq' = [taskReq EXCEPT ![r] = [@ EXCEPT !.pc = "award", !.streak = n, !.key = NoKey]]
        /\ UNCHANGED <<today, last, asks>> /\ coins >= MakeupCost
    BY <1>1, <1>3, <2>1, <2>3 DEF PayDate, Covers
  <2>5. n \in 0 .. Days + MaxAsks
    BY <2>3, TaskConstants
  <2>6. PICK q \in TaskReq : q = [p EXCEPT !.pc = "award", !.streak = n, !.key = NoKey]
    BY <2>5 DEF TaskReq, Pc
  <2>7. q.pc = "award" /\ q.streak = n /\ q.day = p.day
    BY <2>6 DEF TaskReq
  <2>8. taskReq' = [taskReq EXCEPT ![r] = q] /\ taskReq'[r] = q /\ \A s \in Reqs \ {r} : taskReq'[s] = taskReq[s]
    BY <1>0, <1>1, <2>4, <2>6 DEF TasksTypeOK
  <2>9. /\ ledger'.bonus = ledger.bonus /\ ledger'.renewed = ledger.renewed
        /\ ledger'.dates = ledger.dates \cup {d}
        /\ ledger'.lost = ledger.lost /\ ledger'.crossed = ledger.crossed
        /\ ledger' \in Ledger
    <3>1. ledger \in Ledger
      BY <1>0 DEF TasksTypeOK
    <3> QED
      BY <2>4, <3>1 DEF Ledger
  <2>10. TasksTypeOK' /\ IsFiniteSet(done)'
    <3>1. done' \in SUBSET Key /\ taskReq' \in [Reqs -> TaskReq] /\ coins' \in Nat
      BY <1>0, <2>4, <2>8, Keys, TaskConstants DEF TasksTypeOK
    <3>2. IsFiniteSet(done \cup {LoginKey(d)})
      BY <1>0, FS_AddElement
    <3> QED
      BY <1>0, <2>4, <2>5, <2>9, <3>1, <3>2 DEF TasksTypeOK
  <2>11. Budget'
    <3>1. ToCheck' = ToCheck
      BY <1>1, <2>7, <2>8 DEF ToCheck
    <3>2. PICK t \in Nat : t = Cardinality(ToCheck)
      BY ToCheckIs
    <3>3. n + t <= Days + asks /\ t <= asks
      BY <1>0, <2>3, <3>2, TaskConstants DEF Budget, TasksTypeOK
    <3> QED
      BY <1>0, <2>4, <2>9, <3>1, <3>2, <3>3 DEF Budget
  <2>12. AllKeyed'
    <3> SUFFICES ASSUME NEW s \in Reqs PROVE Timely(taskReq[s])' /\ Keyed(taskReq[s])'
      BY DEF AllKeyed
    <3>1. CASE s = r
      BY <1>1, <2>4, <2>7, <2>8, <3>1 DEF Timely, Keyed
    <3>2. CASE s # r
      <4>1. taskReq[s].pc \in {"dated", "granting"} => taskReq[s].key # LoginKey(d)
        BY <1>0, <1>1, <2>1, <3>2 DEF Distinct, Sharing
      <4> QED
        BY <1>0, <2>4, <2>8, <3>2, <4>1 DEF AllKeyed, Timely, Keyed
    <3> QED
      BY <3>1, <3>2
  <2>13. Distinct'
    BY <1>0, <2>7, <2>8 DEF Distinct, Sharing
  <2>14. Signed' = Signed \cup {d} /\ Pending' = Pending /\ Backing' = Backing \cup {d} /\ d \notin Signed
    <3>1. Signed' = Signed \cup {d} /\ d \notin Signed
      BY <2>1, <2>4, Keys DEF Signed
    <3>2. {s \in Reqs : taskReq'[s].pc = "record"} = {s \in Reqs : taskReq[s].pc = "record"}
      BY <1>1, <2>7, <2>8
    <3>3. \A s \in Reqs : taskReq[s].pc = "record" => taskReq'[s] = taskReq[s]
      BY <1>1, <2>8
    <3>4. Pending' = Pending
      BY <3>2, <3>3 DEF Pending
    <3> QED
      BY <2>9, <3>1, <3>4 DEF Backing
  <2>15. \A e : CheckedIn(e)' = CheckedIn(e)
    BY <2>9 DEF CheckedIn
  <2>16. Past'
    <3>1. d < today
      <4>1. p.day \in Nat /\ d \in Nat /\ today \in Nat
        BY <1>0, TaskConstants DEF TaskReq, TasksTypeOK
      <4> QED
        BY <1>1, <2>1, <4>1 DEF Timely
    <3> QED
      BY <1>0, <2>4, <2>9, <2>14, <3>1 DEF Past
  <2>17. DaysFit'
    BY <1>0, <2>4, <2>9, <2>14, <2>15 DEF DaysFit
  <2>18. NothingPaidTwice'
    <3> SUFFICES ASSUME NEW e \in ledger.dates \cup {d}, e \notin ledger.crossed, e \notin ledger.lost,
                        e \notin Pending
                 PROVE  CheckedIn(e) = 0
      BY <2>9, <2>14, <2>15 DEF NothingPaidTwice
    <3>1. CASE e = d
      BY <1>0, <2>14, <3>1 DEF DaysFit, Backing
    <3>2. CASE e \in ledger.dates
      BY <1>0, <3>2 DEF NothingPaidTwice
    <3> QED
      BY <3>1, <3>2
  <2>19. Marks' /\ RunFits'
    BY <1>0, <2>4, <2>9, <2>14 DEF Marks, RunFits, Plain
  <2>20. CoinsAccounted'
    <3>1. {k \in done' : k[1] # "login"} = {k \in done : k[1] # "login"}
      BY <2>4, Keys
    <3>2. PICK S \in Nat, R \in Nat, D \in Nat, W \in Nat :
            /\ S = SumFunction(ledger.bonus) /\ R = SumFunction(ledger.renewed)
            /\ D = Cardinality(ledger.dates) /\ W = Cardinality({k \in done : k[1] # "login"})
      BY <1>0, LedgerIs, RewardsIs DEF TaskSound
    <3>3. d \notin ledger.dates
      BY <1>0, <2>14 DEF Past
    <3>4. Cardinality(ledger'.dates) = D + 1
      BY <1>0, <2>9, <3>2, <3>3, LedgerIs, FS_AddElement
    <3>5. MakeupCost * (R + (D + 1)) = MakeupCost * (R + D) + MakeupCost
      BY TaskConstants
    <3>6. coins = Fund + Bonus * S - MakeupCost * (R + D) + Reward * W
      BY <1>0, <3>2 DEF CoinsAccounted
    <3>7. coins' = Fund + Bonus * S - MakeupCost * (R + (D + 1)) + Reward * W
      BY <2>4, <3>5, <3>6, TaskConstants
    <3> QED
      BY <2>9, <3>1, <3>2, <3>4, <3>7 DEF CoinsAccounted
  <2>21. StreakBacked'
    <3> SUFFICES ASSUME ledger.crossed = {}
                 PROVE  /\ n <= Cardinality(Backing')
                        /\ \A s \in Reqs : taskReq'[s].streak <= Cardinality(Backing')
                        /\ Milestone \in done' => Target <= Cardinality(Backing')
      BY <2>4, <2>9 DEF StreakBacked
    <3>1. Backing \cup {d} \subseteq Day /\ Signed \cup {d} \subseteq Backing \cup {d}
      BY <1>0, BackingIs DEF Backing
    <3>2. IsFiniteSet(Backing \cup {d}) /\ IsFiniteSet(Signed \cup {d})
      BY <1>0, <2>2, <3>1, BackingIs
    <3>3. Cardinality(Signed \cup {d}) <= Cardinality(Backing \cup {d})
      BY <3>1, <3>2, FS_Subset
    <3>4. Cardinality(Backing) <= Cardinality(Backing \cup {d})
      BY <3>2, FS_Subset
    <3>5. PICK b \in Nat, c \in Nat, s0 \in Nat :
            /\ b = Cardinality(Backing) /\ c = Cardinality(Backing') /\ s0 = Cardinality(Signed \cup {d})
            /\ b <= c /\ s0 <= c
      BY <1>0, <2>2, <2>14, <3>1, <3>3, <3>4, BackingIs
    <3>6. (\A s \in Reqs : taskReq[s].streak <= b) /\ (Milestone \in done => Target <= b)
      BY <1>0, <3>5 DEF StreakBacked
    <3>7. n <= c
      BY <2>3, <3>5
    <3>8. \A s \in Reqs : taskReq[s].streak \in Nat
      BY <1>0, TasksAssumption DEF TasksTypeOK, TaskReq
    <3>9. \A s \in Reqs : taskReq'[s].streak <= c
      BY <2>7, <2>8, <3>5, <3>6, <3>7, <3>8
    <3>10. Milestone \in done' => Target <= c
      BY <2>4, <3>5, <3>6, Keys, TaskConstants
    <3> QED
      BY <3>5, <3>7, <3>9, <3>10
  <2> QED
    BY <2>10, <2>11, <2>12, <2>13, <2>16, <2>17, <2>18, <2>19, <2>20, <2>21 DEF TaskSound
<1> QED
  BY <1>2, <1>3

----------------------------------------------------------------------------
LEMMA TaskInit == ASSUME TasksInit PROVE TaskSound
<1>1. /\ ledger.bonus = [d \in Day |-> 0] /\ ledger.renewed = [d \in Day |-> 0]
      /\ ledger.dates = {} /\ ledger.lost = {} /\ ledger.crossed = {}
  BY DEF TasksInit
<1>2. 0 \in 0 .. MaxAsks /\ 0 \in 0 .. Days + MaxAsks /\ 1 \in Day
  BY TasksAssumption DEF Day
<1>3. TasksTypeOK
  <2>1. ledger \in Ledger
    BY <1>1, <1>2 DEF TasksInit, Ledger
  <2>2. taskReq \in [Reqs -> TaskReq]
    BY NoReqIs DEF TasksInit
  <2> QED
    BY <1>2, <2>1, <2>2, TaskConstants DEF TasksInit, TasksTypeOK
<1>4. \A r \in Reqs : taskReq[r] = NoTask
  BY DEF TasksInit
<1>5. done = {} /\ IsFiniteSet(done) /\ today = 1 /\ last = 0 /\ streak = 0 /\ asks = 0 /\ coins = Fund
  BY FS_EmptySet, TaskConstants DEF TasksInit
<1>6. Signed = {} /\ Pending = {} /\ Backing = {} /\ ToCheck = {} /\ Sharing = {}
  BY <1>1, <1>4, <1>5, NoReqIs DEF Signed, Pending, Backing, ToCheck, Sharing
<1>7. Cardinality({}) = 0
  BY FS_EmptySet
<1>8. \A d \in Day : ledger.bonus[d] = 0 /\ ledger.renewed[d] = 0 /\ CheckedIn(d) = 0
  BY <1>1 DEF CheckedIn
<1>9. Budget
  BY <1>5, <1>6, <1>7, <1>8, TaskConstants DEF Budget
<1>10. AllKeyed /\ Distinct
  BY <1>4, <1>5, <1>6, NoReqIs DEF AllKeyed, Timely, Keyed, Distinct
<1>11. Past /\ DaysFit /\ NothingPaidTwice /\ Marks
  BY <1>1, <1>5, <1>6, <1>8 DEF Past, DaysFit, NothingPaidTwice, Marks
<1>12. SumFunction(ledger.bonus) = 0 /\ SumFunction(ledger.renewed) = 0
  <2>1. PICK f \in [Day -> {0}] : f = [d \in Day |-> 0]
    OBVIOUS
  <2>2. SumFunction(f) = SumFunctionOnSet(f, Day)
    BY SumOfAll
  <2>3. IsFiniteSet(Day) /\ \A d \in Day : f[d] = 0
    BY <2>1, TaskConstants
  <2>4. SumFunctionOnSet(f, Day) = 0
    BY <2>3, SumZero
  <2> QED
    BY <1>1, <2>1, <2>2, <2>4
<1>13. CoinsAccounted
  <2>1. {k \in done : k[1] # "login"} = {}
    BY <1>5
  <2>2. Bonus * 0 = 0 /\ MakeupCost * (0 + 0) = 0 /\ Reward * 0 = 0
    BY TaskConstants
  <2> QED
    BY <1>1, <1>5, <1>7, <1>12, <2>1, <2>2, TaskConstants DEF CoinsAccounted
<1>14. StreakBacked /\ RunFits
  BY <1>4, <1>5, <1>6, <1>7, NoReqIs, TaskConstants DEF StreakBacked, RunFits
<1> QED
  BY <1>3, <1>5, <1>9, <1>10, <1>11, <1>13, <1>14 DEF TaskSound

LEMMA TaskNext == ASSUME TaskSound, [TasksNext]_tasksVars PROVE TaskSound'
<1>1. ASSUME NEW r \in Reqs, Step(r) PROVE TaskSound'
  <2>1. CASE InsertDate(r)
    BY <2>1, InsertKeeps DEF InsertDate
  <2>2. CASE InsertReward(r)
    BY <2>2, InsertKeeps DEF InsertReward
  <2>3. CASE DetectDeadlock(r)
    BY <2>3, Ends DEF DetectDeadlock, Deadlocked, row
  <2> QED
    BY <1>1, <2>1, <2>2, <2>3, BeginKeeps, CheckinKeeps, RecordKeeps, AwardKeeps, PayKeeps, RewardKeeps DEF Step
<1>2. ASSUME UNCHANGED tasksVars PROVE TaskSound'
  <2>1. Backing' = Backing /\ Signed' = Signed /\ Pending' = Pending /\ ToCheck' = ToCheck /\ Sharing' = Sharing
    BY <1>2 DEF tasksVars, row, Backing, Signed, Pending, ToCheck, Sharing
  <2>2. TasksTypeOK' /\ IsFiniteSet(done)' /\ Budget' /\ AllKeyed' /\ Distinct'
    BY <1>2, <2>1 DEF tasksVars, row, TaskSound, TasksTypeOK, Budget, AllKeyed, Timely, Keyed, Distinct
  <2>3. Past' /\ DaysFit' /\ NothingPaidTwice' /\ CoinsAccounted' /\ Marks' /\ StreakBacked' /\ RunFits'
    BY <1>2, <2>1 DEF tasksVars, row, TaskSound, Past, DaysFit, NothingPaidTwice, CoinsAccounted, Marks, StreakBacked,
                     RunFits, Plain, CheckedIn
  <2> QED
    BY <2>2, <2>3 DEF TaskSound
<1> QED
  BY <1>1, <1>2, RequestKeeps, FailKeeps, DayKeeps DEF TasksNext

(* On an undisturbed calendar both streaks agree: the run that ends with   *)
(* the last check-in is what the calendar counts back from today.          *)
LEMMA StreaksMeet == ASSUME TaskSound PROVE StreaksAgree
<1>0. TasksTypeOK /\ Past /\ RunFits
  BY DEF TaskSound
<1> SUFFICES ASSUME Undisturbed
             PROVE  IF today - last <= 1 THEN streak = RecomputeStreak(Signed, today)
                    ELSE RecomputeStreak(Signed, today) = 0
  BY DEF StreaksAgree, ListedStreak, CalendarStreak
<1>1. Backing = Signed /\ Plain
  BY DEF Undisturbed, Backing, Plain
<1>2. /\ streak <= last /\ (last # 0 => streak # 0)
      /\ \A d \in Day : d \in Signed => d <= last
      /\ \A d \in Day : last - streak < d /\ d <= last => d \in Signed
      /\ last - streak \notin Signed
  BY <1>0, <1>1, TaskConstants DEF RunFits
<1>3. /\ today \in Day /\ today \in Nat /\ last \in Nat /\ streak \in Nat /\ last <= today /\ today >= 1
      /\ Signed \subseteq Day /\ Day \subseteq Nat
  BY <1>0, BackingIs, TaskConstants DEF TasksTypeOK, Past
<1>4. \A d \in Nat : d >= 1 /\ d <= today => d \in Day
  BY <1>0, TasksAssumption DEF TasksTypeOK, Day
<1> DEFINE start == IF today \in Signed THEN today ELSE today - 1
           counted == {d \in Signed : d .. start \subseteq Signed /\ d <= start}
<1>5. RecomputeStreak(Signed, today) = Cardinality(counted)
  BY DEF RecomputeStreak
<1>6. CASE today - last <= 1
  <2>1. start = last
    <3>1. CASE last = today
      <4>1. today \in Signed
        BY <1>2, <1>3, <3>1
      <4> QED
        BY <3>1, <4>1
    <3>2. CASE last = today - 1
      <4>1. today \notin Signed
        BY <1>2, <1>3, <3>2
      <4> QED
        BY <3>2, <4>1
    <3> QED
      BY <1>3, <1>6, <3>1, <3>2
  <2>2. counted = (last - streak + 1) .. last
    <3>1. ASSUME NEW d \in counted PROVE d \in (last - streak + 1) .. last
      <4>1. d \in Nat /\ d <= last /\ d .. last \subseteq Signed
        BY <1>3, <2>1
      <4>2. ~(d <= last - streak)
        <5>1. ASSUME d <= last - streak PROVE FALSE
          <6>1. last - streak \in d .. last
            BY <1>3, <4>1, <5>1
          <6> QED
            BY <1>2, <4>1, <6>1
        <5> QED
          BY <5>1
      <4> QED
        BY <1>3, <4>1, <4>2
    <3>2. ASSUME NEW d \in (last - streak + 1) .. last PROVE d \in counted
      <4>1. \A e \in d .. last : e \in Signed
        <5> SUFFICES ASSUME NEW e \in d .. last PROVE e \in Signed
          OBVIOUS
        <5>1. e \in Nat /\ e >= 1 /\ e <= today /\ last - streak < e /\ e <= last
          BY <1>2, <1>3
        <5> QED
          BY <1>2, <1>4, <5>1
      <4>2. d \in d .. last /\ d <= last
        BY <1>2, <1>3
      <4> QED
        BY <2>1, <4>1, <4>2
    <3> HIDE DEF counted
    <3> QED
      BY <3>1, <3>2
  <2>3. Cardinality((last - streak + 1) .. last) = streak
    <3>1. PICK a \in Int : a = last - streak + 1
      BY <1>3
    <3>2. Cardinality(a .. last) = IF a > last THEN 0 ELSE last - a + 1
      BY <1>3, FS_Interval
    <3> QED
      BY <1>3, <3>1, <3>2
  <2> QED
    BY <1>5, <1>6, <2>2, <2>3
<1>7. CASE ~(today - last <= 1)
  <2>1. today \notin Signed /\ today - 1 \notin Signed /\ start = today - 1
    BY <1>2, <1>3, <1>7
  <2>2. ASSUME NEW d \in counted PROVE FALSE
    <3>1. d \in Nat /\ d <= start /\ d .. start \subseteq Signed
      BY <1>3
    <3>2. start \in d .. start
      BY <1>3, <2>1, <3>1
    <3> QED
      BY <2>1, <3>1, <3>2
  <2>3. counted = {}
    BY <2>2
  <2> QED
    BY <1>5, <1>7, <2>3, FS_EmptySet
<1> QED
  BY <1>6, <1>7

(* Every reachable state is well typed: the wallet never goes below zero,  *)
(* whatever the order in which make-ups are paid for (adjustBalanceTx).    *)
THEOREM TasksTyped == TasksSpec => []TasksTypeOK
<1>1. TasksInit => TaskSound
  BY TaskInit
<1>2. TaskSound /\ [TasksNext]_tasksVars => TaskSound'
  BY TaskNext
<1>3. TaskSound => TasksTypeOK
  BY DEF TaskSound
<1> QED
  BY <1>1, <1>2, <1>3, PTL DEF TasksSpec

(* A day is checked in once and never paid for twice, the wallet holds     *)
(* what check-ins, make-ups and rewards paid, a streak is backed by signed *)
(* days and agrees with the calendar, midnights and failures included      *)
(* (Checkin, MakeupByDate, awardMilestones and grantTaskReward).           *)
THEOREM TasksCorrect == TasksSpec => []TaskInv
<1>1. TasksInit => TaskSound
  BY TaskInit
<1>2. TaskSound /\ [TasksNext]_tasksVars => TaskSound'
  BY TaskNext
<1>3. TaskSound => TaskInv
  BY StreaksMeet DEF TaskSound, TaskInv, OncePerDay, DaysFit
<1> QED
  BY <1>1, <1>2, <1>3, PTL DEF TasksSpec
=============================================================================
