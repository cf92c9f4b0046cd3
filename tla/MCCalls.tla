------------------------------- MODULE MCCalls -------------------------------
(* Instances of Calls for TLC.                                             *)
EXTENDS Calls

CONSTANTS u1, u2, u3, c1, c2, h1, h2, sw

(* Two calls of a pair that nobody answers; one call of a pair, two        *)
(* requests and a fault; one call of a group and two requests, and, with   *)
(* one request, an account that is erased.                                 *)
Any == {{u1, u2, c1, c2, "faults"}, {u1, u2, c1, h1, h2, "faults"},
        {u1, u2, u3, c1, h1, h2}, {u1, u2, u3, c1, h1, "purges"}}
=============================================================================
