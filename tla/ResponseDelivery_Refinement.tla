--------------------- MODULE ResponseDelivery_Refinement ---------------------
(***************************************************************************)
(* The refinement mapping from the buffer, the calls and the threads of     *)
(* ResponseDelivery to the stream of responses of ResponseStream.           *)
(***************************************************************************)
EXTENDS ResponseDelivery

\* Calls whose block has not returned; after that a response has been dealt with,
\* though libant's thread is not yet free.
UnderWay(k) == phase[k] \in {"posted", "running"}

\* The response that is being dealt with.
Current ==
    IF \E k \in Calls : UnderWay(k) THEN message[CHOOSE k \in Calls : UnderWay(k)] ELSE NULL

Stream == INSTANCE ResponseStream WITH coming <- inbox, current <- Current

\* Though every response goes through one static buffer, which another thread reads
\* at a time of its own, responses are dealt with one by one in the order in which
\* the device sent them, and what is stored is data of the one dealt with
\* (pucResponseBuffer, rant_call_response_callback, handle_response_callback).
ImplementsStream == Stream!Spec

=============================================================================
