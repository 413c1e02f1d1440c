----------------------------- MODULE SeatLedger -----------------------------
(***************************************************************************)
(* What the registration tables promise about seats, without payments,     *)
(* tickets, leases or row identity: each category has a set of runners who *)
(* hold a seat, of whom some are confirmed.                                *)
(***************************************************************************)
EXTENDS Integers, FiniteSets

CONSTANTS Users, Categories, Events, EventOf, MaxCapacity

VARIABLES held, confirmed, capacity

ledgerVars == <<held, confirmed, capacity>>

Init ==
    /\ held = [c \in Categories |-> {}]
    /\ confirmed = [c \in Categories |-> {}]
    /\ capacity \in [Categories -> 0..MaxCapacity]

\* Take a seat: within capacity, and none held for the same event.
Take(u, c) ==
    /\ Cardinality(held[c]) < capacity[c]
    /\ \A d \in Categories : EventOf[d] = EventOf[c] => u \notin held[d]
    /\ held' = [held EXCEPT ![c] = @ \cup {u}]
    /\ \/ confirmed' = [confirmed EXCEPT ![c] = @ \cup {u}]
       \/ UNCHANGED confirmed
    /\ UNCHANGED capacity

\* A held seat is confirmed.
Confirm(u, c) ==
    /\ u \in held[c] \ confirmed[c]
    /\ confirmed' = [confirmed EXCEPT ![c] = @ \cup {u}]
    /\ UNCHANGED <<held, capacity>>

\* One runner gives up a seat, confirmed or not.
Release(u, c) ==
    /\ u \in held[c]
    /\ held' = [held EXCEPT ![c] = @ \ {u}]
    /\ confirmed' = [confirmed EXCEPT ![c] = @ \ {u}]
    /\ UNCHANGED capacity

\* Any number of unconfirmed seats run out of time together.
Expire ==
    /\ held' \in [Categories -> SUBSET Users]
    /\ \A c \in Categories : confirmed[c] \subseteq held'[c] /\ held'[c] \subseteq held[c]
    /\ UNCHANGED <<confirmed, capacity>>

Resize(c, n) ==
    /\ capacity' = [capacity EXCEPT ![c] = n]
    /\ UNCHANGED <<held, confirmed>>

Next ==
    \/ Expire
    \/ \E u \in Users, c \in Categories : Take(u, c) \/ Confirm(u, c) \/ Release(u, c)
    \/ \E c \in Categories, n \in 0..MaxCapacity : Resize(c, n)

Spec == Init /\ [][Next]_ledgerVars
=============================================================================
