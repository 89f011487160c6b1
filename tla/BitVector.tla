----------------------------- MODULE BitVector -----------------------------
(***************************************************************************)
(* lib/ant/bitvector.rb: an Integer that is used as a vector of bits; and   *)
(* what on_capabilities of lib/ant/response_callbacks.rb reads out of the   *)
(* bytes of a capabilities message with it.                                 *)
(***************************************************************************)
EXTENDS Naturals, Sequences, Bitwise, FiniteSetsExt, Functions

CONSTANT Width    \* bound: the bits in use are 0..Width-1

ASSUME BitVectorAssumption == Width \in Nat \ {0}

VARIABLE bv    \* @bv

Bits == 0 .. Width - 1

-----------------------------------------------------------------------------
\* The Integer methods

\* 1 << bit
Mask(b) == 2^b

\* @bv[ bit ]
BitAt(v, b) == shiftR(v, b) % 2

\* on?
IsOn(v, b) == BitAt(v, b) # 0

TurnedOn(v, b) == v | Mask(b)

\* (Operators whose comment begins with "Slip:" are a definition below them with a
\* bug that a change could bring in; no specification uses them.)

\* Slip: a bit is turned off with an exclusive or.
FlippedOff(v, b) == v ^^ Mask(b)

\* v & ~mask, where ~ has infinitely many bits on.
TurnedOff(v, b) == v - (v & Mask(b))

Toggled(v, b) == v ^^ Mask(b)

\* The length of @bv.to_s(2); that of 0 is 1.
Size(v) == CHOOSE n \in 1 .. Width : v < 2^n /\ (n = 1 \/ 2^(n - 1) <= v)

\* Slip: the digits come in the order they are written in.
EachAsWritten(v) == [i \in 1 .. Size(v) |-> BitAt(v, Size(v) - i)]

\* What each yields: the digits of @bv.to_s(2).reverse.
Each(v) == [i \in 1 .. Size(v) |-> BitAt(v, i - 1)]

-----------------------------------------------------------------------------
\* The methods that change the vector

On(b) == bv' = TurnedOn(bv, b)
Off(b) == bv' = TurnedOff(bv, b)
Toggle(b) == bv' = Toggled(bv, b)

\* []= with a range: bit after bit.
Assign(S, bool) ==
    bv' = FoldSet(LAMBDA b, v : IF bool THEN TurnedOn(v, b) ELSE TurnedOff(v, b), bv, S)

Init == bv \in 0 .. 2^Width - 1

Next ==
    \/ \E b \in Bits : On(b) \/ Off(b) \/ Toggle(b)
    \/ \E a, z \in Bits, bool \in BOOLEAN : Assign(a .. z, bool)

Spec == Init /\ [][Next]_bv

-----------------------------------------------------------------------------
\* on_capabilities

\* The constants Ant::CAPABILITIES_...: antdefines.h has one bit of a byte in each.
\* (One more, CAPABILITIES_RFACTIVE_NOTIFICATION_ENABLED, is not in that file; the
\* extension defines it as 0, the number of its bit.)
Capabilities == {Mask(b) : b \in 0 .. 7}

\* The members of a byte of the message that are found to be on: the constant is
\* given to on? (to off?, for byte 2) as it is.
Reported(byte) == {c \in Capabilities : IsOn(byte, c)}

-----------------------------------------------------------------------------
\* Properties

Set == INSTANCE BitSet WITH on <- {b \in Bits : IsOn(bv, b)}

\* on, off, toggle and []= change the bits they are given and no other, and on?
\* tells which are on: the vector is a set of bits.
ImplementsBitSet == Set!Spec

\* each yields every bit once, least significant first, and no bit that is on is
\* left out: to_a and with_index see the bits at the places on? has them.
EachIsTheVector ==
    /\ \A b \in Bits : IsOn(bv, b) <=> b + 1 \in DOMAIN Each(bv) /\ Each(bv)[b + 1] = 1
    /\ FoldFunction(+, 0, [i \in DOMAIN Each(bv) |-> Each(bv)[i] * Mask(i - 1)]) = bv

=============================================================================
