------------------------------ MODULE MCMessages ------------------------------
(* Instances of Messages for TLC.                                          *)
EXTENDS Messages

CONSTANTS u1, u2, u3, c1, c2, h1, h2

Doing(users, convs, rows, by, ops) ==
    [users |-> users, convs |-> convs, msgs |-> 1 .. rows, by |-> by, ops |-> ops]

(* What the clients of one behaviour do: burn, edit, forward, reply.       *)
MCClients ==
    {Doing({u1, u2, u3}, {c1}, 1, {h1, h2}, {"burn", "read", "delete"}),
     Doing({u1, u2}, {c1}, 1, {h1, h2}, {"burn", "read", "edit", "delete"}),
     Doing({u1, u2}, {c1}, 2, {h1}, {"burn", "read"}),
     Doing({u1}, {c1, c2}, 3, {h1}, {"send", "burn", "forward"}),
     Doing({u1}, {c1, c2}, 2, {h1}, {"system", "send", "forward", "move", "mute"}),
     Doing({u1}, {c1}, 2, {h1, h2}, {"send", "forward", "delete"}),
     Doing({u1}, {c1, c2}, 2, {h1}, {"send", "mark", "move"})}
=============================================================================
