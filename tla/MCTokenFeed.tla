---------------------------- MODULE MCTokenFeed ----------------------------
(* TokenFeed for TLC: one receipt lasts a lease, the other half of one.    *)
EXTENDS TokenFeed, TLC

CONSTANTS t1, t2

TwoReceipts == (t1 :> 2) @@ (t2 :> 1)
=============================================================================
