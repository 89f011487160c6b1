---------------------------- MODULE MCBitVector ----------------------------
(***************************************************************************)
(* BitVector for TLC, with bytes for vectors.                               *)
(***************************************************************************)
EXTENDS BitVector

\* antdefines.h:101-144, "capabilities defines", one mask for each: a capability
\* is reported when its bit is in the device's byte.
CapabilitiesAreRead == Reported(bv) = {c \in Capabilities : bv & c # 0}

=============================================================================
