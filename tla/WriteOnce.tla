----------------------------- MODULE WriteOnce ------------------------------
(***************************************************************************)
(* What SnapshotPublisher promises its readers: a store of names, each     *)
(* empty or holding one admissible value, and a name that holds a value    *)
(* holds it for good.                                                      *)
(***************************************************************************)
CONSTANTS
    Names,
    Admissible(_),  \* whether a value may be stored
    Nothing         \* of an empty name

VARIABLE store      \* [Names -> admissible values and Nothing]

Init == store = [n \in Names |-> Nothing]

Put(n) ==
    /\ store[n] = Nothing /\ store'[n] # Nothing
    /\ Admissible(store'[n])
    /\ store' = [store EXCEPT ![n] = store'[n]]

Next == \E n \in Names : Put(n)

Spec == Init /\ [][Next]_store
=============================================================================
