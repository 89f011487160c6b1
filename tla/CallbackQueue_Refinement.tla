---------------------- MODULE CallbackQueue_Refinement ----------------------
(***************************************************************************)
(* The refinement mapping from the queue, the locks and the threads of      *)
(* CallbackQueue to the promise CallbackService makes.                      *)
(***************************************************************************)
EXTENDS CallbackQueue

PhaseOf(c) ==
    IF pc[c] = "idle" THEN "idle"
    ELSE IF handled[c] THEN "answered"
    ELSE IF \E w \in Workers : Serves(w, c) /\ worker[w].at = "reply" THEN "decided"
    ELSE IF \E w \in Workers : Serves(w, c) THEN "running"
    ELSE "posted"

Server(c) == CHOOSE w \in Workers : Serves(w, c)

VerdictOf(c) ==
    IF PhaseOf(c) = "answered" THEN rval[c]
    ELSE IF PhaseOf(c) = "decided"
    THEN Verdict(worker[Server(c)].outcome)
    ELSE "none"

Service == INSTANCE CallbackService WITH
    phase <- [c \in Callers |-> PhaseOf(c)],
    verdict <- [c \in Callers |-> VerdictOf(c)]

\* A call of rant_callback gets its callback function run at most once, and
\* returns exactly the verdict of that run, in whatever order the threads, the
\* signals and the kill of the dispatcher come.
ImplementsService == Service!Spec

=============================================================================
