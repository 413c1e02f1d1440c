------------------------ MODULE MCRegistrationStore ------------------------
(***************************************************************************)
(* RegistrationStore on two runners, one event with a priced and a free    *)
(* category, and two registration rows.                                    *)
(***************************************************************************)
EXTENDS RegistrationStore, TLC

CONSTANTS race, priced, free

MCEvents == {race}
MCCategories == {priced, free}
MCEventOf == [c \in MCCategories |-> race]
MCFree == {free}

Symmetry == Permutations(Users) \cup Permutations(Regs)
============================================================================
