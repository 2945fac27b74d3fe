------------------------------ MODULE MCBroker ------------------------------
(***************************************************************************)
(* Broker for TLC.  Connection handlers are interchangeable, and so are    *)
(* keys and capabilities: no definition tells one from another.            *)
(***************************************************************************)
EXTENDS Broker, TLC

ConnSymmetry == Permutations(Conns)
FullSymmetry == Permutations(Conns) \cup Permutations(Keys) \cup Permutations(Capabilities)
=============================================================================
