---------------------------- MODULE MCAsyncmemo ----------------------------
(* Three keys: the values of k1 and k2 do not fit into the cache together,  *)
(* the one of k3 does not fit at all.                                       *)
EXTENDS Asyncmemo, TLC

CONSTANTS k1, k2, k3

MCWeight == (k1 :> 1) @@ (k2 :> 2) @@ (k3 :> 3)
=============================================================================
