--------------------------- MODULE MCCallbackQueue ---------------------------
(***************************************************************************)
(* Instances of CallbackQueue for TLC: model values for the callers and the *)
(* worker slots come from the .cfg files, as many slots as callers.         *)
(***************************************************************************)
EXTENDS CallbackQueue_Refinement, TLC

Shutdown == {"kill", "nothread"}
AnyFault == {"kill", "wakeup", "nothread"}

Symmetry == Permutations(Callers) \cup Permutations(Workers)

=============================================================================
