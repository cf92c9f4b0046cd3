-------------------------------- MODULE MCPosts -------------------------------
(* Instances of Posts for TLC.                                             *)
EXTENDS Posts

CONSTANTS u1, u2, u3, a1, a2, h1, h2

Doing(users, n, m, as, seen, by, ops) ==
    [users |-> users, posts |-> 1 .. n, replies |-> 1 .. m, atts |-> as, seen |-> seen, ops |-> ops,
     by |-> by]

(* What the clients of one behaviour do: edit, view, reply, quote, follow. *)
MCClients ==
    {Doing({u1}, 1, 0, {a1, a2}, {"public"}, {h1, h2}, {"create", "update", "remove", "discard"}),
     Doing({u1, u2}, 1, 0, {}, {"public"}, {h1, h2}, {"create", "view", "remove", "like", "react"}),
     Doing({u1, u2}, 1, 2, {}, {"public"}, {h1, h2}, {"create", "nest", "reply", "delete"}),
     Doing({u1, u2}, 1, 1, {}, {"public"}, {h1, h2}, {"create", "reply", "edit", "delete", "remove"}),
     Doing({u1, u2}, 2, 2, {}, {"public"}, {h1}, {"create", "reply", "nest", "delete", "remove"}),
     Doing({u1, u2}, 2, 0, {}, {"friends", "private"}, {h1}, {"create", "quote", "follow", "remove", "pin"}),
     Doing({u1, u2, u3}, 1, 2, {}, {"public"}, {h1}, {"create", "reply", "nest", "remove"}),
     Doing({u1, u2}, 1, 1, {a1}, {"public", "friends"}, {h1},
           {"create", "update", "reply", "follow", "view"})}
=============================================================================
