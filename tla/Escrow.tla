------------------------------- MODULE Escrow -------------------------------
(***************************************************************************)
(* What a user-to-user transfer promises, with every database transaction  *)
(* a single step: the amount leaves the sender's wallet when the transfer  *)
(* is drafted, stays in escrow while the transfer is pending, and moves    *)
(* exactly once, to the recipient or back to the sender.                   *)
(* Transfers.tla, where the same operations are interleaved statement by   *)
(* statement under row locks, is shown to implement this specification.    *)
(***************************************************************************)
EXTENDS Integers, Functions

CONSTANTS
    Users,        \* ids of the users table
    Ids,          \* ids of the transfers table
    Amounts,      \* amounts (cents) a transfer may hold
    Grants,       \* signed amounts an operator may add to a wallet
    InitBalance,  \* what every wallet holds at first
    MaxBalance,   \* bound: an operator grants no wallet more than this
    NoUser        \* party of a row that does not exist

VARIABLES
    users,     \* the users that exist
    balance,   \* wallets.balance
    transfer   \* the transfers table

vars == <<users, balance, transfer>>

Outcome == {"accepted", "declined", "refunded"}

NoRow == [status |-> "none", from |-> NoUser, to |-> NoUser, amount |-> 0]

Init ==
    /\ users = Users
    /\ balance = [u \in Users |-> InitBalance]
    /\ transfer = [i \in Ids |-> NoRow]

----------------------------------------------------------------------------
(* An operator recharges or deducts; a deduction below zero is refused.    *)
Adjust(u, d) ==
    /\ u \in users
    /\ balance[u] + d \in 0..MaxBalance
    /\ balance' = [balance EXCEPT ![u] = @ + d]
    /\ UNCHANGED <<users, transfer>>

(* The sender's amount goes into escrow together with the pending row.     *)
Hold(i, s, r, a) ==
    /\ transfer[i].status = "none"
    /\ {s, r} \subseteq users /\ s # r
    /\ balance[s] >= a
    /\ balance' = [balance EXCEPT ![s] = @ - a]
    /\ transfer' = [transfer EXCEPT ![i] =
                      [status |-> "pending", from |-> s, to |-> r, amount |-> a]]
    /\ UNCHANGED users

(* The escrow is emptied into the recipient's wallet (accepted) or back    *)
(* into the sender's (declined, refunded).                                 *)
Settle(i, outcome) ==
    LET t == transfer[i]
        w == IF outcome = "accepted" THEN t.to ELSE t.from
    IN  /\ t.status = "pending"
        /\ balance' = [balance EXCEPT ![w] = @ + t.amount]
        /\ transfer' = [transfer EXCEPT ![i].status = outcome]
        /\ UNCHANGED users

(* Deleting a user, by PurgeUserData or DeleteBot, takes the wallet and    *)
(* every transfer the user is a party to with it (ON DELETE CASCADE).      *)
Close(u) ==
    /\ u \in users
    /\ users' = users \ {u}
    /\ balance' = [balance EXCEPT ![u] = 0]
    /\ transfer' = [i \in Ids |->
                      IF u \in {transfer[i].from, transfer[i].to}
                      THEN [transfer[i] EXCEPT !.status = "erased"]
                      ELSE transfer[i]]

Next ==
    \/ \E u \in Users, d \in Grants : Adjust(u, d)
    \/ \E i \in Ids, s, r \in Users, a \in Amounts : Hold(i, s, r, a)
    \/ \E i \in Ids, o \in Outcome : Settle(i, o)
    \/ \E u \in Users : Close(u)

Spec == Init /\ [][Next]_vars
----------------------------------------------------------------------------
(* What each transfer holds between the two wallets.                       *)
Held == [i \in Ids |-> IF transfer[i].status = "pending" THEN transfer[i].amount ELSE 0]

(* All the money there is: in wallets and in escrow.                       *)
Total == SumFunction(balance) + SumFunction(Held)

(* No transfer operation creates or destroys money: the total only changes *)
(* by exactly what an operator grants, or when an account is erased.       *)
MoneyConserved ==
    [][users' = users =>
         \/ Total' = Total
         \/ UNCHANGED transfer /\ Total' - Total \in Grants]_vars
=============================================================================
