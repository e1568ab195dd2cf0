------------------------------- MODULE Orders -------------------------------
(***************************************************************************)
(* sorted(...) of a set of numbers, or of identifiers that numbers stand   *)
(* for, without a sort: the nth member is the one with n - 1 before it.    *)
(***************************************************************************)
EXTENDS Integers, FiniteSets

Ascending(S) ==
    [n \in 1 .. Cardinality(S) |-> CHOOSE d \in S : Cardinality({e \in S : e < d}) = n - 1]
=============================================================================
