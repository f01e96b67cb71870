----------------------------- MODULE VMRegistry -----------------------------
(***************************************************************************)
(* What the registry of VMs (Manager.instances) promises of each user: one *)
(* VM at a time, at an address that no other user's has, and no second one *)
(* in its place before the first was taken out.                            *)
(***************************************************************************)

CONSTANTS Users,       \* the users
          Addresses,   \* of VMs
          None         \* "no VM"

VARIABLE vm            \* the address of each user's VM

Init == vm = [u \in Users |-> None]

Start(u, a) ==
    /\ vm[u] = None
    /\ \A v \in Users : vm[v] # a
    /\ vm' = [vm EXCEPT ![u] = a]

Stop(u) == vm[u] # None /\ vm' = [vm EXCEPT ![u] = None]

\* The registry lives in memory.
Lose == vm' = [u \in Users |-> None]

Next ==
    \/ \E u \in Users : Stop(u) \/ \E a \in Addresses : Start(u, a)
    \/ Lose

Spec == Init /\ [][Next]_vm

=============================================================================
