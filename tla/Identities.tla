----------------------------- MODULE Identities -----------------------------
(***************************************************************************)
(* Which account an OAuth identity signs in to: src/services/account       *)
(* (handler/auth.go, auth/manager.go, auth/user.go) with the login nonces  *)
(* of src/pkg/repository/oidc_state.go, the pick tickets of oauth_pick.go, *)
(* the rows of user.go, and the deletion, restoring and purging of         *)
(* accounts.                                                               *)
(*                                                                         *)
(* No handler opens a transaction: every statement is a step of its own.   *)
(* Usernames are left out: an account is tried under a hundred names, more *)
(* than there are accounts here, and what fails all attempts is the email. *)
(***************************************************************************)
EXTENDS Naturals, FiniteSets, FiniteSetsExt

CONSTANTS Reqs,         \* the requests that may run at the same time
          AccountIds,          \* the ids the accounts get, in order
          Identities, Nobody,
          Addressed,    \* the identities that come with an email address
          Nonces, Tickets, NoTicket,
          MaxAccounts,  \* MaxOAuth2Accounts
          Tables,       \* the tables of accounts a behaviour may start with
          Clients       \* sets of what else happens beside signing in

NoId == 0

ASSUME IdentitiesAssumption ==
    /\ IsFiniteSet(Reqs) /\ IsFiniteSet(Identities) /\ Nobody \notin Identities
    /\ Addressed \subseteq Identities
    /\ NoTicket \notin Tickets \cup Nonces /\ Tickets \cap Nonces = {}
    /\ MaxAccounts \in Nat \ {0}
    /\ AccountIds \subseteq Nat \ {0} /\ IsFiniteSet(AccountIds)
    /\ Clients \subseteq SUBSET {"bind", "register", "delete"}

State == {"none", "live", "deleted", "back", "gone"}   \* back: deleted and restored
Pc == {"idle", "resolve", "quota", "count", "insert", "load", "write", "session"}

\* mail is the identity whose address the row carries.
Account == [state : State, who : Identities \cup {Nobody},
            mail : Addressed \cup {Nobody}, admin : BOOLEAN, needs : BOOLEAN]
\* A request, the identity it proved, the nonce or ticket it came by, the account
\* it is about, and what it read: the role to give, whether the account needs
\* to register.
Req == [pc : Pc, who : Identities \cup {Nobody}, by : Nonces \cup Tickets \cup {NoTicket},
        id : AccountIds \cup {NoId}, admin : BOOLEAN, needs : BOOLEAN]

\* The accounts a behaviour starts with: the first one ever made administers, and
\* the requests of the past kept to the bounds that those of the future keep to.
TableAdmins(table) ==
    {a \in AccountIds : table[a].state \in {"live", "deleted", "back"} /\ table[a].admin}
TableAccounts(table, i) == {a \in AccountIds : table[a].state = "live" /\ table[a].who = i}

ASSUME TablesAssumption ==
    /\ Tables \subseteq [AccountIds -> Account]
    /\ \A table \in Tables :
        /\ Cardinality(TableAdmins(table)) <= Cardinality(Reqs)
        /\ (\E a \in AccountIds : table[a].state \in {"live", "deleted", "back"})
             => TableAdmins(table) # {}
        /\ \A i \in Identities :
             Cardinality(TableAccounts(table, i)) <= MaxAccounts + Cardinality(Reqs) - 1

VARIABLES
    acct,    \* users
    nonce,   \* oidc_states
    ticket,  \* oauth2_picks, with the identity each holds
    doomed,  \* the ids the purger has listed
    req,
    client,  \* what happens in this behaviour
    ledger   \* history

identitiesVars == <<acct, nonce, ticket, doomed, req, client, ledger>>

\* minted counts the sessions a nonce or a ticket gave, rebound are the accounts
\* that two bindings wrote one after the other, and orphaned says that an
\* administrator's row was purged.
Ledger == [minted : [Nonces \cup Tickets -> 0 .. Cardinality(Reqs)],
           rebound : SUBSET AccountIds, orphaned : BOOLEAN]

NoAccount == [state |-> "none", who |-> Nobody, mail |-> Nobody,
              admin |-> FALSE, needs |-> FALSE]
NoReq == [pc |-> "idle", who |-> Nobody, by |-> NoTicket, id |-> NoId,
          admin |-> FALSE, needs |-> FALSE]

IdentitiesInit ==
    /\ acct \in Tables
    /\ nonce = [n \in Nonces |-> "new"]
    /\ ticket = [t \in Tickets |-> [state |-> "new", who |-> Nobody]]
    /\ doomed = {}
    /\ req = [r \in Reqs |-> NoReq]
    /\ client \in Clients
    /\ ledger = [minted |-> [x \in Nonces \cup Tickets |-> 0], rebound |-> {},
                 orphaned |-> FALSE]
-----------------------------------------------------------------------------
Row(a) == acct[a].state \in {"live", "deleted", "back"}
Live(a) == acct[a].state \in {"live", "back"}      \* deleted_at IS NULL
Rows == {a \in AccountIds : Row(a)}

\* findUsersByOAuth2: the identity's accounts; deleted ones do not count.
FindByOAuth2(i) == {a \in AccountIds : Live(a) /\ acct[a].who = i}
FullPastQuota(i) == Cardinality(FindByOAuth2(i)) > MaxAccounts   \* a slip
QuotaExceeded(i) == Cardinality(FindByOAuth2(i)) >= MaxAccounts

\* users_email_lower_key: an address stands in one row, whether it is deleted or
\* not.
EmailTaken(i) == i \in Addressed /\ \E a \in Rows : acct[a].mail = i

Go(r, p) == req' = [req EXCEPT ![r].pc = p]
Done(r) == req' = [req EXCEPT ![r] = NoReq]
Answer(r) == Done(r) /\ UNCHANGED <<acct, nonce, ticket, doomed, ledger, client>>

(*-------------------------- signing in --------------------------------------*)

\* OIDCLogin mints a nonce for the login that is about to start.
OIDCLogin(n) ==
    /\ nonce[n] = "new"
    /\ nonce' = [nonce EXCEPT ![n] = "open"]
    /\ UNCHANGED <<acct, ticket, doomed, req, ledger, client>>

\* ConsumeOIDCState: deleted and returned by one statement.
ConsumeOIDCState(n) == nonce' = [nonce EXCEPT ![n] = "gone"]

OIDCCallback(r, n, i) ==
    /\ req[r].pc = "idle" /\ nonce[n] = "open"
    /\ ConsumeOIDCState(n)
    /\ req' = [req EXCEPT ![r] = [NoReq EXCEPT !.pc = "resolve", !.who = i, !.by = n]]
    /\ UNCHANGED <<acct, ticket, doomed, ledger, client>>

\* ResolveIdentity, when the provider answers: an identity with accounts is
\* parked behind a ticket, one with none gets an account.
ResolveIdentity(r) ==
    /\ req[r].pc = "resolve"
    /\ IF FindByOAuth2(req[r].who) # {}
       THEN /\ \E t \in Tickets :
                 /\ ticket[t].state = "new"
                 /\ ticket' = [ticket EXCEPT ![t] = [state |-> "open", who |-> req[r].who]]
            /\ Done(r)
       ELSE Go(r, "count") /\ UNCHANGED ticket
    /\ UNCHANGED <<acct, nonce, doomed, ledger, client>>

ProviderFails(r) == req[r].pc = "resolve" /\ Answer(r)

\* ConsumeOAuth2Pick: deleted and returned by one statement.
ConsumeOAuth2Pick(t) == ticket' = [ticket EXCEPT ![t] = [state |-> "gone", who |-> Nobody]]

\* Nonces and tickets expire, and the purger sweeps what has expired.
PurgeExpired ==
    \/ \E n \in Nonces : /\ nonce[n] = "open"
                         /\ nonce' = [nonce EXCEPT ![n] = "gone"]
                         /\ UNCHANGED <<acct, ticket, doomed, req, ledger, client>>
    \/ \E t \in Tickets : /\ ticket[t].state = "open"
                          /\ ConsumeOAuth2Pick(t)
                          /\ UNCHANGED <<acct, nonce, doomed, req, ledger, client>>

(*-------------------------- new accounts ------------------------------------*)

\* createUserFromOAuth2: whoever finds the table empty becomes administrator.
RoleIsAdmin == Rows = {}

CountUsers(r) ==
    /\ req[r].pc = "count"
    /\ req' = [req EXCEPT ![r].pc = "insert", ![r].admin = RoleIsAdmin]
    /\ UNCHANGED <<acct, nonce, ticket, doomed, ledger, client>>

Unused == {a \in AccountIds : acct[a].state = "none"}

\* The row is inserted, unless the address is taken: then every attempt fails.
\* Whoever made the account is signed in to it.
InsertUser(r) ==
    /\ req[r].pc = "insert"
    /\ IF EmailTaken(req[r].who)
       THEN Done(r) /\ UNCHANGED acct
       ELSE /\ Unused # {}
            /\ LET a == Min(Unused)
                   i == req[r].who
               IN /\ acct' = [acct EXCEPT ![a] =
                                [state |-> "live", who |-> i,
                                 mail |-> IF i \in Addressed THEN i ELSE Nobody,
                                 admin |-> req[r].admin, needs |-> TRUE]]
                  /\ req' = [req EXCEPT ![r].pc = "session", ![r].id = a,
                                        ![r].needs = TRUE]
    /\ UNCHANGED <<nonce, ticket, doomed, ledger, client>>

\* GenerateToken and CreateSession: the token says what the request read; a
\* session needs its account's row.
CreateSession(r) ==
    /\ req[r].pc = "session"
    /\ Done(r)
    /\ ledger' = IF Row(req[r].id)
                 THEN [ledger EXCEPT !.minted[req[r].by] = @ + 1]
                 ELSE ledger
    /\ UNCHANGED <<acct, nonce, ticket, doomed, client>>

\* Register ends the registration of whoever asks, registered or not.
Register(a) ==
    /\ Row(a)
    /\ acct' = [acct EXCEPT ![a].needs = FALSE]
    /\ UNCHANGED <<nonce, ticket, doomed, req, ledger, client>>

(*-------------------------- picking an account ------------------------------*)

OIDCPickSelect(r, t, a) ==
    /\ req[r].pc = "idle" /\ ticket[t].state = "open"
    /\ ConsumeOAuth2Pick(t)
    /\ req' = [req EXCEPT ![r] = [NoReq EXCEPT !.pc = "load", !.who = ticket[t].who,
                                               !.by = t, !.id = a]]
    /\ UNCHANGED <<acct, nonce, doomed, ledger, client>>

\* The account must be the identity's and not be deleted.
Selectable(a, i) == Live(a) /\ acct[a].who = i

LoadPicked(r) ==
    /\ req[r].pc = "load" /\ req[r].by # NoTicket
    /\ IF Selectable(req[r].id, req[r].who)
       THEN req' = [req EXCEPT ![r].pc = "session", ![r].needs = acct[req[r].id].needs]
       ELSE Done(r)
    /\ UNCHANGED <<acct, nonce, ticket, doomed, ledger, client>>

OIDCPickCreate(r, t) ==
    /\ req[r].pc = "idle" /\ ticket[t].state = "open"
    /\ ConsumeOAuth2Pick(t)
    /\ req' = [req EXCEPT ![r] = [NoReq EXCEPT !.pc = "quota", !.who = ticket[t].who,
                                               !.by = t]]
    /\ UNCHANGED <<acct, nonce, doomed, ledger, client>>

\* The quota of a new account, and of one that is bound.
CheckQuota(r) ==
    /\ req[r].pc = "quota"
    /\ IF QuotaExceeded(req[r].who)
       THEN Done(r)
       ELSE Go(r, IF req[r].by = NoTicket THEN "write" ELSE "count")
    /\ UNCHANGED <<acct, nonce, ticket, doomed, ledger, client>>

(*-------------------------- binding -----------------------------------------*)

\* The state of a binding is a signed token that names the account; it may come
\* back more than once, with whatever identity the browser proves.
OIDCBind(r, a, i) ==
    /\ req[r].pc = "idle" /\ acct[a].state # "none"
    /\ req' = [req EXCEPT ![r] = [NoReq EXCEPT !.pc = "load", !.who = i, !.id = a]]
    /\ UNCHANGED <<acct, nonce, ticket, doomed, ledger, client>>

Unbound(a) == acct[a].who = Nobody

\* An account that is bound stays as it is, whether the identity is its own or
\* another's.
LoadBound(r) ==
    /\ req[r].pc = "load" /\ req[r].by = NoTicket
    /\ IF Row(req[r].id) /\ Unbound(req[r].id) THEN Go(r, "quota") ELSE Done(r)
    /\ UNCHANGED <<acct, nonce, ticket, doomed, ledger, client>>

\* BindOAuth writes the identity whatever the row holds by now.
BindOAuth(r) ==
    /\ req[r].pc = "write"
    /\ Done(r)
    /\ LET a == req[r].id
       IN IF Row(a)
          THEN /\ acct' = [acct EXCEPT ![a].who = req[r].who]
               /\ ledger' = IF Unbound(a) THEN ledger
                            ELSE [ledger EXCEPT !.rebound = @ \cup {a}]
          ELSE UNCHANGED <<acct, ledger>>
    /\ UNCHANGED <<nonce, ticket, doomed, client>>

(*-------------------------- deletion ----------------------------------------*)

RequestAccountDeletion(a) ==
    /\ Live(a)
    /\ acct' = [acct EXCEPT ![a].state = "deleted"]
    /\ UNCHANGED <<nonce, ticket, doomed, req, ledger, client>>

CancelAccountDeletion(a) ==
    /\ acct[a].state = "deleted"
    /\ acct' = [acct EXCEPT ![a].state = "back"]
    /\ UNCHANGED <<nonce, ticket, doomed, req, ledger, client>>

\* The purger lists the accounts whose grace is over, any of the deleted ones.
ListPurgeableUsers ==
    /\ doomed = {}
    /\ doomed' \in SUBSET {a \in AccountIds : acct[a].state = "deleted"}
    /\ UNCHANGED <<acct, nonce, ticket, req, ledger, client>>

\* ... and erases them one by one, without looking at the row again.
PurgeUserData(a) ==
    /\ a \in doomed
    /\ doomed' = doomed \ {a}
    /\ acct' = [acct EXCEPT ![a] = [NoAccount EXCEPT !.state = "gone"]]
    /\ ledger' = [ledger EXCEPT !.orphaned = @ \/ acct[a].admin]
    /\ UNCHANGED <<nonce, ticket, req, client>>

Request(r) ==
    \/ \E n \in Nonces, i \in Identities : OIDCCallback(r, n, i)
    \/ ResolveIdentity(r) \/ ProviderFails(r)
    \/ CountUsers(r) \/ InsertUser(r) \/ CreateSession(r)
    \/ \E t \in Tickets : OIDCPickCreate(r, t) \/ \E a \in AccountIds : OIDCPickSelect(r, t, a)
    \/ LoadPicked(r) \/ CheckQuota(r)
    \/ "bind" \in client /\ \E a \in AccountIds, i \in Identities : OIDCBind(r, a, i)
    \/ LoadBound(r) \/ BindOAuth(r)

IdentitiesNext ==
    \/ \E n \in Nonces : OIDCLogin(n)
    \/ PurgeExpired
    \/ \E r \in Reqs : Request(r)
    \/ "register" \in client /\ \E a \in AccountIds : Register(a)
    \/ "delete" \in client /\ \E a \in AccountIds : RequestAccountDeletion(a)
    \/ \E a \in AccountIds : CancelAccountDeletion(a) \/ PurgeUserData(a)
    \/ ListPurgeableUsers

IdentitiesSpec == IdentitiesInit /\ [][IdentitiesNext]_identitiesVars
-----------------------------------------------------------------------------
(* The state has the shape the tables give it.                             *)
IdentitiesTypeOK ==
    /\ acct \in [AccountIds -> Account]
    /\ nonce \in [Nonces -> {"new", "open", "gone"}]
    /\ ticket \in [Tickets -> [state : {"new", "open", "gone"},
                               who : Identities \cup {Nobody}]]
    /\ doomed \subseteq AccountIds
    /\ req \in [Reqs -> Req]
    /\ client \in Clients
    /\ ledger \in Ledger

(* However often a callback or a pick comes back, and however many run at  *)
(* once, a nonce and a ticket give one session at most (the single use that *)
(* ConsumeOIDCState and ConsumeOAuth2Pick promise).                         *)
UsedOnce == \A x \in Nonces \cup Tickets : ledger.minted[x] <= 1

(* Somebody administers the system from the first account on, for as long  *)
(* as no administrator is purged; and first sign-ins that overlap make one *)
(* administrator each at the most (createUserFromOAuth2 counts the users   *)
(* before it inserts).                                                     *)
Pending == {r \in Reqs : req[r].pc = "insert" /\ req[r].admin}
Administered ==
    /\ Rows # {} => ledger.orphaned \/ \E a \in Rows : acct[a].admin
    /\ Cardinality({a \in Rows : acct[a].admin}) + Cardinality(Pending)
          <= Cardinality(Reqs)

(* An identity's accounts exceed the quota by no more than the requests    *)
(* that overlapped when it was checked, and by the accounts that came back *)
(* from deletion, which frees their place (CountOAuth2Accounts).           *)
Entering(i) == {r \in Reqs : req[r].who = i /\ req[r].pc \in {"count", "insert", "write"}}
QuotaBounded ==
    \A i \in Identities :
        Cardinality({a \in FindByOAuth2(i) : acct[a].state = "live"})
          + Cardinality(Entering(i)) <= MaxAccounts + Cardinality(Reqs) - 1

(* Whoever is being signed in proved the identity the account is bound to, *)
(* unless two bindings of that account overlapped and the later one wrote  *)
(* over the earlier (Manager.Bind); and a token of this sign-in that lets  *)
(* its bearer pass the registration gate is for an account that has        *)
(* registered. Login and ApproveQrLogin, which mint such tokens whatever   *)
(* the account's state, are not part of the module.                        *)
SignedInAsOwn ==
    \A r \in Reqs : req[r].pc = "session" /\ Row(req[r].id) =>
        /\ acct[req[r].id].who = req[r].who \/ req[r].id \in ledger.rebound
        /\ req[r].needs \/ ~acct[req[r].id].needs

IdentityInv == IdentitiesTypeOK /\ UsedOnce /\ Administered /\ QuotaBounded /\ SignedInAsOwn
=============================================================================
