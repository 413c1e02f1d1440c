----------------------- MODULE MCRegistrationService -----------------------
(***************************************************************************)
(* RegistrationService on one event with a priced and a free category.     *)
(* Each configuration lets in the operations, providers and faults that    *)
(* its question is about, and bounds the rest away.                        *)
(***************************************************************************)
EXTENDS RegistrationService, TLC

CONSTANTS race, priced, free

MCEvents == {race}
MCBoth == {priced, free}
MCPriced == {priced}
MCEventOfBoth == [c \in MCBoth |-> race]
MCEventOfPriced == [c \in MCPriced |-> race]
MCFree == {free}

Symmetry == Permutations(Users) \cup Permutations(Regs) \cup Permutations(Calls)

\* The organiser is not at work: categories stay open and keep their capacity.
OrganiserIdle == open' = open /\ capacity' = capacity
=============================================================================
