-------------------------- MODULE CallbackService --------------------------
(***************************************************************************)
(* What ext/ant_ext/callbacks.c promises to the ANT library and to Ruby,    *)
(* with no queue, lock, signal or dispatcher in it: each call of            *)
(* rant_callback has its callback function run at most once, is answered    *)
(* only by that run and with that run's verdict, and returns only when it   *)
(* is answered. CallbackQueue implements it (see CallbackQueue_Refinement). *)
(***************************************************************************)

CONSTANT Callers

VARIABLES
    phase,    \* phase[c]: how far c's current call has come
    verdict   \* verdict[c]: what its callback function made of it

svars == <<phase, verdict>>

Phases == {"idle", "posted", "running", "decided", "answered"}

Init ==
    /\ phase = [c \in Callers |-> "idle"]
    /\ verdict = [c \in Callers |-> "none"]

Move(c, from, to) == phase[c] = from /\ phase' = [phase EXCEPT ![c] = to]

\* rant_callback is called.
Post(c) == Move(c, "idle", "posted") /\ UNCHANGED verdict

\* A Ruby thread starts on the callback.
Start(c) == Move(c, "posted", "running") /\ UNCHANGED verdict

\* The callback function returns or raises.
Decide(c) ==
    /\ Move(c, "running", "decided")
    /\ \E v \in {"true", "false"} : verdict' = [verdict EXCEPT ![c] = v]

\* The verdict is handed over to the caller.
Answer(c) == Move(c, "decided", "answered") /\ UNCHANGED verdict

\* rant_callback returns the verdict.
Finish(c) ==
    /\ Move(c, "answered", "idle")
    /\ verdict' = [verdict EXCEPT ![c] = "none"]

Next == \E c \in Callers : Post(c) \/ Start(c) \/ Decide(c) \/ Answer(c) \/ Finish(c)

Spec == Init /\ [][Next]_svars

=============================================================================
