------------------------------- MODULE BitSet -------------------------------
(***************************************************************************)
(* What a bit vector is to its user: a set of bits that are on. BitVector   *)
(* implements it.                                                           *)
(***************************************************************************)
EXTENDS Naturals

CONSTANT Width    \* bound: the bits in use are 0..Width-1

VARIABLE on

Init == on \in SUBSET (0 .. Width - 1)

On(b) == on' = on \cup {b}
Off(b) == on' = on \ {b}
Toggle(b) == on' = IF b \in on THEN on \ {b} ELSE on \cup {b}

\* All bits of a range at once.
Assign(S, bool) == on' = IF bool THEN on \cup S ELSE on \ S

Next ==
    \/ \E b \in 0 .. Width - 1 : On(b) \/ Off(b) \/ Toggle(b)
    \/ \E a, z \in 0 .. Width - 1, bool \in BOOLEAN : Assign(a .. z, bool)

Spec == Init /\ [][Next]_on

=============================================================================
