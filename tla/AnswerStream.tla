---------------------------- MODULE AnswerStream ----------------------------
(***************************************************************************)
(* What the way of an answer from a VM back to the user promises, with two *)
(* programs and three HTTP hops on it of which none repeats anything: of   *)
(* each task's answer the user receives every piece once at most and in    *)
(* order.  Pieces may be lost.  The order is promised as long as no        *)
(* connection of the task's has broken.                                    *)
(***************************************************************************)
EXTENDS Naturals, Sequences

CONSTANTS Tasks, Places   \* places in an answer: <<block, piece of the block>>

VARIABLES
    broken,     \* tasks whose answers may be out of order
    got         \* the places received of each task's answer

Before(a, b) == a[1] < b[1] \/ (a[1] = b[1] /\ a[2] < b[2])

Init == broken = {} /\ got = [t \in Tasks |-> <<>>]

\* Whatever of the answer was received before is not this place, and comes before it.
Deliver(t, a) ==
    /\ \A k \in DOMAIN got[t] :
        /\ got[t][k] # a
        /\ t \in broken \/ Before(got[t][k], a)
    /\ got' = [got EXCEPT ![t] = Append(@, a)]
    /\ UNCHANGED broken

Break(t) == broken' = broken \cup {t} /\ UNCHANGED got

Next == \E t \in Tasks : (\E a \in Places : Deliver(t, a)) \/ Break(t)

Spec == Init /\ [][Next]_<<broken, got>>
=============================================================================
