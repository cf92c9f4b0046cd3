----------------------------- MODULE MCMembers -----------------------------
(* Instances of Members for TLC.                                           *)
EXTENDS Members

CONSTANTS r1, r2

MCPrice == [l \in 1 .. 2 |-> 2 * l]

(* Payments beside the renewer, with grants, the PIN that is set and       *)
(* changed, and the PIN that is guessed at both services.                  *)
Guesses == {"verify", "tip", "restart"}
MCClients ==
    {{"purchase", "enable", "disable"}, {"enable", "grant", "restart"},
     {"set", "change", "verify", "restart"}, Guesses}

(* Guesses enough to run past the lockouts of both services.               *)
MCMaxAsks == [c \in MCClients |-> IF c = Guesses THEN 6 ELSE 3]
=============================================================================
