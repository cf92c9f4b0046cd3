------------------------------- MODULE MCGroups -------------------------------
(* Instances of Groups for TLC.                                            *)
EXTENDS Groups

CONSTANTS u1, u2, u3, i1, h1, h2

(* What the clients of one behaviour do: come and go, chat, rank each      *)
(* other, silence the group, rotate keys while members come and go, and    *)
(* are erased meanwhile.                                                   *)
Doing(users, ops) == [users |-> users, ops |-> ops]

MCClients ==
    {Doing({u1, u2, u3}, {"invite", "accept", "decline", "settings", "join", "leave", "delete"}),
     Doing({u1, u2}, {"start", "accept", "decline"}),
     Doing({u1, u2, u3}, {"settings", "join", "leave", "promote", "demote", "remove"}),
     Doing({u1, u2},
           {"settings", "join", "promote", "demote", "mute", "unmute", "mute_all", "unmute_all"}),
     Doing({u1, u2}, {"settings", "join", "leave", "rotate"}),
     Doing({u1, u2}, {"settings", "join", "rotate", "erase"}),
     Doing({u1, u2}, {"invite", "start", "accept", "erase"}),
     Doing({u1}, {"rotate", "delete"})}
=============================================================================
