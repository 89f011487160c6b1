---------------------- MODULE ChannelRegistry_Refinement ----------------------
(***************************************************************************)
(* The refinement mapping from the four tables of ChannelRegistry to the    *)
(* life of a channel that ChannelLife promises.                             *)
(***************************************************************************)
EXTENDS ChannelRegistry

PhaseOf(o) ==
    IF state[o] # "live" THEN "none" ELSE IF Registered(o) THEN "registered" ELSE "closed"

Phase == [o \in Objects |-> PhaseOf(o)]

\* The buffers that libant's event function table points to.
Pointed == {o \in Objects : \E n \in Channels : evfn[n] = o}

\* The channel whose block runs.
Active == IF call = NULL THEN NULL ELSE call.handler

Life == INSTANCE ChannelLife WITH phase <- Phase, writable <- Pointed, running <- Active

\* A channel is registered once, closed for good, and freed only when it is closed,
\* its block does not run and libant's function table no longer points to it, in
\* whatever order threads assign, close, reset and listen, events come and the
\* collector runs (channel.c, ant_ext.c:345-433).
ImplementsLife == Life!Spec

=============================================================================
