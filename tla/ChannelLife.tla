----------------------------- MODULE ChannelLife -----------------------------
(***************************************************************************)
(* What ext/ant_ext/channel.c promises about an Ant::Channel, with no       *)
(* number, hash, device, function table or thread in it: an object is       *)
(* registered once, when it is made; it can be closed, by itself or by      *)
(* another, and that is for good; a block is started only for a registered  *)
(* one; and it goes only when it is closed, its block does not run and the  *)
(* ANT library can no longer write to its buffer. ChannelRegistry           *)
(* implements it (see ChannelRegistry_Refinement).                          *)
(***************************************************************************)

CONSTANTS
    Objects,
    NULL

VARIABLES
    phase,     \* phase[o]: "none", "registered" or "closed"
    writable,  \* the objects whose buffers the ANT library may write to
    running    \* the object whose block runs, or NULL

lvars == <<phase, writable, running>>

Init ==
    /\ phase = [o \in Objects |-> "none"]
    /\ writable = {}
    /\ running = NULL

\* The phases when those in E that are registered are no more.
Without(E) == [o \in Objects |-> IF o \in E /\ phase[o] = "registered" THEN "closed" ELSE phase[o]]

\* A channel is made and registered; it may take the place of another.
Create(o, E) ==
    /\ phase[o] = "none"
    /\ phase' = [Without(E) EXCEPT ![o] = "registered"]
    /\ UNCHANGED <<writable, running>>

\* Channels are closed, buffers are taken back from the library, or both.
Forget(E, W) ==
    /\ phase' = Without(E)
    /\ writable' = W
    /\ UNCHANGED running

\* The library is given the buffer of o, and may lose another.
Give(o, W) ==
    /\ phase[o] # "none"
    /\ writable' = W \cup {o}
    /\ UNCHANGED <<phase, running>>

Start(o) ==
    /\ running = NULL /\ phase[o] = "registered"
    /\ running' = o
    /\ UNCHANGED <<phase, writable>>

Stop ==
    /\ running' = NULL
    /\ UNCHANGED <<phase, writable>>

\* The library loses the buffer of o, if it had it, and may lose another.
Collect(o, W) ==
    /\ phase[o] = "closed" /\ running # o
    /\ o \notin W
    /\ phase' = [phase EXCEPT ![o] = "none"]
    /\ writable' = W
    /\ UNCHANGED running

Next ==
    \/ Stop
    \/ \E o \in Objects : Start(o) \/ \E E \in SUBSET Objects : Create(o, E)
    \/ \E W \in SUBSET writable :
         \/ \E E \in SUBSET Objects : Forget(E, W)
         \/ \E o \in Objects : Give(o, W) \/ Collect(o, W)

Spec == Init /\ [][Next]_lvars

=============================================================================
