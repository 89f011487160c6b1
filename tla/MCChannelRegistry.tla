-------------------------- MODULE MCChannelRegistry --------------------------
(***************************************************************************)
(* Instances of ChannelRegistry for TLC. Key 256 has the channel number of  *)
(* key 0; key 65537 is too large for initialize, after the device has       *)
(* assigned its channel, which is 1.                                        *)
(***************************************************************************)
EXTENDS ChannelRegistry_Refinement, TLC

Symmetry == Permutations(Objects) \cup Permutations(Threads)

\* The program resets and closes the library between its other calls, not while one
\* of its threads is in the middle of them.
ResetsApart == (Reset \/ CloseLibrary) /\ \A t \in Threads : doing[t] = NULL

ApartSpec == Init /\ [][WithinSession \/ ResetsApart]_vars

=============================================================================
