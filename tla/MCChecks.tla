------------------------------ MODULE MCChecks ------------------------------
(* Instances of Checks for TLC.                                            *)
EXTENDS Checks

CONSTANTS u1, u2, i1, h1, h2, sw

(* Two of three shares of a check can be claimed before it expires; or it  *)
(* has a cent for each share or less, and one of its claimants is purged;  *)
(* or one share, while the claimant comes to and goes from the places      *)
(* where it was shared.                                                    *)
Purse(a, b) == [u \in {u1, u2} |-> IF u = u1 THEN a ELSE b]

MCSettings ==
    {[users |-> {u1, u2}, fund |-> Purse(5, 0), doomed |-> {}, members |-> {u1, u2},
      movers |-> {}, ways |-> {"post"}, deals |-> {<<5, 3>>}],
     [users |-> {u1, u2}, fund |-> Purse(2, 0), doomed |-> {u2}, members |-> {u1},
      movers |-> {}, ways |-> {}, deals |-> {<<1, 2>>, <<2, 2>>}],
     [users |-> {u1, u2}, fund |-> Purse(1, 0), doomed |-> {}, members |-> {u1, u2},
      movers |-> {u2}, ways |-> {"post", "message"}, deals |-> {<<1, 1>>}]}
=============================================================================
