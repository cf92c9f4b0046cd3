----------------------------- MODULE MCUploads -----------------------------
(* Instances of Uploads for TLC.                                           *)
EXTENDS Uploads, TLC

CONSTANTS u1, u2, s1, k1, k2, a, b, h1, h2

Bytes12 == a :> 1 @@ b :> 2
OneFile == {<<a, b>>}
(* u2 may store nothing.                                                   *)
Quota3 == u1 :> 3 @@ u2 :> 0

(* Two requests, of which one may be an avatar or a banner, or one request *)
(* and attachments that are linked and burn.                               *)
Either == {{h1, h2, u1}, {h1, u2}, {h1, k1, k2}}
=============================================================================
