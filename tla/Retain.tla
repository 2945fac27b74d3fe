------------------------------- MODULE Retain -------------------------------
(***************************************************************************)
(* Rust's retain on a Vec or a VecDeque, for the two bounded lists with    *)
(* expiring entries: the relay's tokens and the limiter's recent opens.    *)
(***************************************************************************)
EXTENDS Naturals, FiniteSets

(* The entries of es at the places `at`, in their order.                   *)
retain(es, at) ==
    [n \in 1..Cardinality(at) |-> es[CHOOSE i \in at : Cardinality({j \in at : j <= i}) = n]]
=============================================================================
