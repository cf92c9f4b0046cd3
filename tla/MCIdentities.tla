---------------------------- MODULE MCIdentities ----------------------------
(* Instances of Identities for TLC.                                        *)
EXTENDS Identities, TLC

CONSTANTS r1, r2, r3, n1, n2, t1, t2, ann, bob

Clerk == [state |-> "live", who |-> Nobody, mail |-> Nobody, admin |-> TRUE, needs |-> FALSE]
Of(i, m) == [state |-> "live", who |-> i, mail |-> m, admin |-> FALSE, needs |-> FALSE]

(* An empty system; and an administrator who signs in with a password,     *)
(* beside an account of an identity.                                       *)
MCTables ==
    {[a \in AccountIds |-> NoAccount],
     [a \in AccountIds |-> IF a = 1 THEN Clerk ELSE IF a = 2 THEN Of(bob, Nobody) ELSE NoAccount]}

(* Bindings overlap with sign-ins, or accounts are deleted under them.     *)
MCClients == {{"bind", "register"}, {"delete", "register"}}

Alike == Permutations(Reqs) \cup Permutations(Nonces) \cup Permutations(Tickets)
=============================================================================
