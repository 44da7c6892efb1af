----------------------------- MODULE MCCheckIn -----------------------------
(***************************************************************************)
(* Finite instances of CheckIn for TLC.                                    *)
(***************************************************************************)
EXTENDS CheckIn, TLC

CONSTANTS owner, gate1, gate2, e1, e2, r1

\* Every registration is for e1; at a second event its code is a stranger's.
OneEvent     == [r \in Registrations |-> e1]
OwnedByOwner == [e \in Events |-> owner]

\* Request slots are interchangeable.
Slots == Permutations(Requests)
============================================================================
