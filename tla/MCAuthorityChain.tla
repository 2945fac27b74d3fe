-------------------------- MODULE MCAuthorityChain --------------------------
(* AuthorityChain for TLC: authorities are the pairs within the bounds. *)
EXTENDS AuthorityChain, TLC

MCAuthorities == [instance : 0..MaxInstance, epoch : 0..MaxEpoch]
=============================================================================
