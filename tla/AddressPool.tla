---------------------------- MODULE AddressPool -----------------------------
(***************************************************************************)
(* What the orchestrator's address pool (NetworkManager) promises, whoever *)
(* asks: an address has one owner at a time, passes from one to another    *)
(* only through the pool, and the lowest free one is granted.              *)
(***************************************************************************)
EXTENDS Naturals

CONSTANTS Addresses,   \* host offsets
          Holders,     \* whoever may own an address
          None         \* the pool

VARIABLE owner

Init == owner = [i \in Addresses |-> None]

Free == {i \in Addresses : owner[i] = None}

\* A holder owns one address at most.
Grant(h) ==
    /\ \A i \in Addresses : owner[i] # h
    /\ \E i \in Free :
        /\ \A j \in Free : i <= j
        /\ owner' = [owner EXCEPT ![i] = h]

Release(i) == owner[i] # None /\ owner' = [owner EXCEPT ![i] = None]

\* The pool lives in memory.
Lose == owner' = [i \in Addresses |-> None]

Next == (\E h \in Holders : Grant(h)) \/ (\E i \in Addresses : Release(i)) \/ Lose

Spec == Init /\ [][Next]_owner

=============================================================================
