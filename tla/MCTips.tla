-------------------------------- MODULE MCTips --------------------------------
(* Instances of Tips for TLC.                                              *)
EXTENDS Tips, TLC

CONSTANTS u1, u2, u3, x1, x2, h1, h2

MCStart == u1 :> 200 @@ u2 :> 200 @@ u3 :> 5

Doing(a1, a2, users, posts, amounts, n) ==
    [author |-> x1 :> a1 @@ x2 :> a2, users |-> users, posts |-> posts, amounts |-> amounts,
     tips |-> 1 .. n]

(* Tips crosswise, two givers of one post, one author of two posts.        *)
MCClients ==
    {Doing(u1, u2, {u1, u2}, {x1, x2}, {100}, 2),
     Doing(u3, u3, {u1, u2, u3}, {x1}, {100}, 3),
     Doing(u3, u3, {u1, u3}, {x1, x2}, {100}, 2),
     Doing(u3, u3, {u2, u3}, {x1}, {100, 200}, 2)}
=============================================================================
