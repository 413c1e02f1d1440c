----------------------------- MODULE WorkerLoop -----------------------------
(***************************************************************************)
(* What the polling loops of the worker process have in common: they try   *)
(* an item NotificationMaxAttempts times, and the same things fail on them. *)
(***************************************************************************)
EXTENDS Integers

CONSTANTS
    MaxAttempts, \* NotificationMaxAttempts
    LoopFaults,  \* kinds of failure that may happen
    NoItem       \* what a worker that holds nothing holds

ASSUME LoopAssumption ==
    /\ MaxAttempts \in Nat \ {0}
    /\ LoopFaults \subseteq {"crash", "db", "redis"}
=============================================================================
