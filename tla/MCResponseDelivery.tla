------------------------- MODULE MCResponseDelivery -------------------------
(***************************************************************************)
(* Instances of ResponseDelivery for TLC.                                   *)
(***************************************************************************)
EXTENDS ResponseDelivery_Refinement

\* ant_ext.c:616-619, of request_advanced_burst_capabilities, "The result will be
\* delivered via a callback [...], which by default extracts it and stores it at
\* Ant.advanced_burst_capabilities", and likewise of the other requests: what is
\* stored is the result of the request.
AnswersAreGenuine ==
    \A a \in Answers : stored[a] # NULL => stored[a].id = a

=============================================================================
