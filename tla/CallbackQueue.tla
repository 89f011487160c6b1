--------------------------- MODULE CallbackQueue ---------------------------
(***************************************************************************)
(* ext/ant_ext/callbacks.c: how a thread of the ANT library that knows      *)
(* nothing of Ruby gets a piece of Ruby run, and waits for its answer.      *)
(*                                                                          *)
(*   caller      a thread of libant in rant_callback(): it pushes a         *)
(*               rant_callback_t that lives on its own stack, signals the   *)
(*               dispatcher and sleeps until the callback is handled;       *)
(*   dispatcher  the Ruby thread in callback_thread(): it pops callbacks    *)
(*               with the GVL released and starts a Ruby thread for each;   *)
(*   worker      such a thread, in handle_callback(): it runs the callback  *)
(*               function under rb_protect and hands the verdict back.      *)
(*                                                                          *)
(* Every critical section of callbacks.c takes one lock, takes no other in  *)
(* it, and blocks in it only in pthread_cond_wait, which gives the lock     *)
(* back: each is one action, and a cond_wait ends it.                       *)
(***************************************************************************)
EXTENDS Sequences

CONSTANTS
    Callers,   \* threads of libant, and the one callback each can have on its stack
    Workers,   \* Ruby threads that rb_thread_create can have running at one time
    NULL,      \* no callback
    Faults     \* what the Ruby process may do to the dispatcher:
               \*   "kill"      Thread#kill, Thread#raise, process shutdown
               \*   "wakeup"    Thread#wakeup, Thread#run
               \*   "nothread"  rb_thread_create raises a ThreadError

ASSUME CallbackQueueAssumption ==
    /\ NULL \notin Callers
    /\ Faults \subseteq {"kill", "wakeup", "nothread"}

VARIABLES
    queue,     \* rant_callback_queue, the most recent callback first
    pc,        \* pc[c]: where caller c is in rant_callback
    handled,   \* handled[c], rval[c]: the fields of c's callback
    rval,
    dpc,       \* where the dispatcher is in callback_thread
    waiting,   \* its callback_waiting_t: [callback, abort]
    killed,    \* the dispatcher has an interrupt pending that will unwind it
    worker     \* worker[w]: [at, callback, outcome]

callerVars == <<pc, handled, rval>>
dispatcherVars == <<dpc, waiting, killed>>
vars == <<queue, callerVars, dispatcherVars, worker>>

-----------------------------------------------------------------------------

\* What the callback function does: returns a value Ruby takes for true or for
\* false, or leaves by an exception (or by Thread#kill of the worker).
Outcomes == {"truthy", "falsy", "raise"}

\* (Operators whose comment begins with "Slip:" are a definition below them with a
\* bug that a change could bring in; no specification uses them.)

\* Slip: the callback's value is stored as it came.
UnconvertedVerdict(outcome) == outcome

\* RTEST(rval) of what rb_protect returned, which is Qnil after an exception.
Verdict(outcome) == IF outcome = "truthy" THEN "true" ELSE "false"

IdleWorker == [at |-> "idle", callback |-> NULL, outcome |-> "none"]

\* Slip: callback->next is not set, the rest of the list is cut off.
PushAlone(c) == queue' = <<c>>

\* Slip: the list's head is read and not advanced.
Peek == /\ queue # <<>>
        /\ waiting' = [waiting EXCEPT !.callback = Head(queue)]
        /\ UNCHANGED queue

\* callback_queue_push and callback_queue_pop.
PushFront(c) == queue' = <<c>> \o queue
PopFront == /\ queue # <<>>
            /\ waiting' = [waiting EXCEPT !.callback = Head(queue)]
            /\ queue' = Tail(queue)

\* The unblocking function is registered, so an interrupt calls it.
InRegion == dpc \in {"region", "asleep", "returned"}

\* pthread_cond_signal on rant_callback_cond, with or without somebody asleep.
WakeDispatcher == dpc' = IF dpc = "asleep" THEN "region" ELSE dpc

\* Slip: handled is set, nobody is told.
WakeNobody(c) == UNCHANGED pc

\* pthread_cond_signal on a callback's own condition variable.
WakeCaller(c) == pc' = [pc EXCEPT ![c] = IF @ = "asleep" THEN "wait" ELSE @]

-----------------------------------------------------------------------------
\* rant_callback, in a thread of libant

\* The callback is a fresh variable on the stack: its rval is not yet set.
Push(c) ==
    /\ pc[c] = "idle"
    /\ pc' = [pc EXCEPT ![c] = "signal"]
    /\ handled' = [handled EXCEPT ![c] = FALSE]
    /\ rval' = [rval EXCEPT ![c] = "unset"]
    /\ PushFront(c)
    /\ UNCHANGED <<dispatcherVars, worker>>

\* Slip: only a push to an empty queue is worth a signal.
SignalIfAlone(c) ==
    /\ pc[c] = "signal"
    /\ pc' = [pc EXCEPT ![c] = "wait"]
    /\ IF Len(queue) = 1 THEN WakeDispatcher ELSE UNCHANGED dpc
    /\ UNCHANGED <<queue, handled, rval, waiting, killed, worker>>

\* The signal is sent after the lock is given back.
Signal(c) ==
    /\ pc[c] = "signal"
    /\ pc' = [pc EXCEPT ![c] = "wait"]
    /\ WakeDispatcher
    /\ UNCHANGED <<queue, handled, rval, waiting, killed, worker>>

\* The test of the wait loop: past it when handled, else asleep.
Await(c) ==
    /\ pc[c] = "wait"
    /\ pc' = [pc EXCEPT ![c] = IF handled[c] THEN "done" ELSE "asleep"]
    /\ UNCHANGED <<queue, handled, rval, dispatcherVars, worker>>

\* Slip: an if where the wait needs its while.
WakeIsAnswer(c) ==
    /\ pc[c] = "asleep"
    /\ pc' = [pc EXCEPT ![c] = "done"]
    /\ UNCHANGED <<queue, handled, rval, dispatcherVars, worker>>

\* pthread_cond_wait may return without a signal.
SpuriousWake(c) ==
    /\ pc[c] = "asleep"
    /\ pc' = [pc EXCEPT ![c] = "wait"]
    /\ UNCHANGED <<queue, handled, rval, dispatcherVars, worker>>

\* The condition and the mutex are destroyed, rval is returned to libant and
\* the caller's frame, with the callback in it, goes.
Return(c) ==
    /\ pc[c] = "done"
    /\ pc' = [pc EXCEPT ![c] = "idle"]
    /\ UNCHANGED <<queue, handled, rval, dispatcherVars, worker>>

-----------------------------------------------------------------------------
\* callback_thread, the dispatcher

\* Slip: the loop does not look at abort.
EnterAlways ==
    /\ dpc = "loop"
    /\ dpc' = IF killed THEN "dead" ELSE "region"
    /\ UNCHANGED <<queue, callerVars, waiting, killed, worker>>

\* The loop's test, then the entry of rb_thread_call_without_gvl, which first
\* delivers a pending interrupt.
Enter ==
    /\ dpc = "loop"
    /\ dpc' = IF waiting.abort THEN "exited" ELSE IF killed THEN "dead" ELSE "region"
    /\ UNCHANGED <<queue, callerVars, waiting, killed, worker>>

\* The loop of wait_for_callback_signal. With abort set, && does not reach
\* callback_queue_pop, nor the assignment of waiting->callback.
WaitAborted ==
    /\ dpc = "region"
    /\ waiting.abort
    /\ dpc' = "returned"
    /\ UNCHANGED <<queue, callerVars, waiting, killed, worker>>

WaitPop ==
    /\ dpc = "region"
    /\ ~waiting.abort
    /\ PopFront
    /\ dpc' = "returned"
    /\ UNCHANGED <<callerVars, killed, worker>>

WaitSleep ==
    /\ dpc = "region"
    /\ ~waiting.abort
    /\ queue = <<>>
    /\ waiting' = [waiting EXCEPT !.callback = NULL]
    /\ dpc' = "asleep"
    /\ UNCHANGED <<queue, callerVars, killed, worker>>

SpuriousDispatcherWake ==
    /\ dpc = "asleep"
    /\ dpc' = "region"
    /\ UNCHANGED <<queue, callerVars, waiting, killed, worker>>

\* The return from rb_thread_call_without_gvl: the unblocking function is
\* cleared, the GVL taken again and a pending interrupt delivered.
Leave ==
    /\ dpc = "returned"
    /\ dpc' = IF killed THEN "dead" ELSE "spawn"
    /\ UNCHANGED <<queue, callerVars, waiting, killed, worker>>

SpawnNothing ==
    /\ dpc = "spawn"
    /\ waiting.callback = NULL
    /\ dpc' = "loop"
    /\ UNCHANGED <<queue, callerVars, waiting, killed, worker>>

\* waiting.callback keeps its value: nothing resets it before the next pop.
Spawn(w) ==
    /\ dpc = "spawn"
    /\ waiting.callback # NULL
    /\ worker[w].at = "idle"
    /\ worker' = [worker EXCEPT ![w] = [at |-> "run",
                                        callback |-> waiting.callback,
                                        outcome |-> "none"]]
    /\ dpc' = "loop"
    /\ UNCHANGED <<queue, callerVars, waiting, killed>>

\* The ThreadError leaves callback_thread, and the dispatcher is no more.
SpawnFails ==
    /\ "nothread" \in Faults
    /\ dpc = "spawn"
    /\ waiting.callback # NULL
    /\ dpc' = "dead"
    /\ UNCHANGED <<queue, callerVars, waiting, killed, worker>>

-----------------------------------------------------------------------------
\* Interrupts of the dispatcher by other Ruby threads

\* Slip: abort is set without a signal.
AbortSilently ==
    /\ waiting' = [waiting EXCEPT !.abort = TRUE]
    /\ UNCHANGED dpc

\* stop_waiting_for_callback_signal, called by whoever interrupts a thread that
\* has it registered.
StopWaiting ==
    /\ waiting' = [waiting EXCEPT !.abort = TRUE]
    /\ WakeDispatcher

\* A kill or an exception stays pending until the dispatcher checks for it.
Kill ==
    /\ "kill" \in Faults
    /\ dpc \notin {"exited", "dead"}
    /\ killed' = TRUE
    /\ IF InRegion THEN StopWaiting ELSE UNCHANGED <<waiting, dpc>>
    /\ UNCHANGED <<queue, callerVars, worker>>

\* A wake-up leaves nothing pending: outside the region it has no effect.
Wakeup ==
    /\ "wakeup" \in Faults
    /\ InRegion
    /\ StopWaiting
    /\ UNCHANGED <<queue, callerVars, killed, worker>>

-----------------------------------------------------------------------------
\* handle_callback, in a worker

\* Slip: the caller is answered before the callback function has run.
RunAfterAnswering(w) ==
    /\ worker[w].at = "run"
    /\ \E o \in Outcomes :
         worker' = [worker EXCEPT ![w] = [at |-> "reply", callback |-> @.callback, outcome |-> o]]
    /\ handled' = [handled EXCEPT ![worker[w].callback] = TRUE]
    /\ WakeCaller(worker[w].callback)
    /\ UNCHANGED <<queue, rval, dispatcherVars>>

\* rb_protect(callback->fn, ...).
Run(w) ==
    /\ worker[w].at = "run"
    /\ \E o \in Outcomes :
         worker' = [worker EXCEPT ![w] = [at |-> "reply", callback |-> @.callback, outcome |-> o]]
    /\ UNCHANGED <<queue, callerVars, dispatcherVars>>

\* Slip: an exception ends the worker before it has answered.
ReplyUnlessRaised(w) ==
    /\ worker[w].at = "reply"
    /\ LET c == worker[w].callback IN
         IF worker[w].outcome = "raise" THEN UNCHANGED callerVars
         ELSE /\ handled' = [handled EXCEPT ![c] = TRUE]
              /\ rval' = [rval EXCEPT ![c] = Verdict(worker[w].outcome)]
              /\ WakeCaller(c)
    /\ worker' = [worker EXCEPT ![w] = IdleWorker]
    /\ UNCHANGED <<queue, dispatcherVars>>

\* Whatever the outcome the verdict is handed over; an exception goes on to end
\* the worker afterwards.
Reply(w) ==
    /\ worker[w].at = "reply"
    /\ LET c == worker[w].callback IN
         /\ handled' = [handled EXCEPT ![c] = TRUE]
         /\ rval' = [rval EXCEPT ![c] = Verdict(worker[w].outcome)]
         /\ WakeCaller(c)
    /\ worker' = [worker EXCEPT ![w] = IdleWorker]
    /\ UNCHANGED <<queue, dispatcherVars>>

-----------------------------------------------------------------------------

Init ==
    /\ queue = <<>>
    /\ pc = [c \in Callers |-> "idle"]
    /\ handled = [c \in Callers |-> FALSE]
    /\ rval = [c \in Callers |-> "unset"]
    /\ dpc = "loop"
    /\ waiting = [callback |-> NULL, abort |-> FALSE]
    /\ killed = FALSE
    /\ worker = [w \in Workers |-> IdleWorker]

Caller(c) == Push(c) \/ Signal(c) \/ Await(c) \/ SpuriousWake(c) \/ Return(c)

Dispatcher ==
    \/ Enter \/ WaitAborted \/ WaitPop \/ WaitSleep \/ SpuriousDispatcherWake
    \/ Leave \/ SpawnNothing \/ (\E w \in Workers : Spawn(w)) \/ SpawnFails

Interrupt == Kill \/ Wakeup

Worker(w) == Run(w) \/ Reply(w)

Next ==
    \/ \E c \in Callers : Caller(c)
    \/ Dispatcher
    \/ Interrupt
    \/ \E w \in Workers : Worker(w)

Spec == Init /\ [][Next]_vars

(***************************************************************************)
(* The operating system and the Ruby scheduler run every thread that can    *)
(* run. Nothing makes libant call, a thread be killed, a cond_wait return   *)
(* unasked or a thread creation fail. WF on Run says that callback          *)
(* functions return.                                                        *)
(***************************************************************************)
Fairness ==
    /\ \A c \in Callers : /\ WF_vars(Signal(c))
                          /\ WF_vars(Await(c))
                          /\ WF_vars(Return(c))
    /\ WF_vars(Enter \/ WaitAborted \/ WaitPop \/ WaitSleep \/ Leave \/ SpawnNothing)
    /\ WF_vars(\E w \in Workers : Spawn(w))
    /\ \A w \in Workers : WF_vars(Run(w)) /\ WF_vars(Reply(w))

FairSpec == Spec /\ Fairness

-----------------------------------------------------------------------------
\* Properties

Blocked(c) == pc[c] \in {"signal", "wait", "asleep"}
Unanswered(c) == Blocked(c) /\ ~handled[c]
InQueue(c) == \E i \in DOMAIN queue : queue[i] = c
InHand(c) == dpc \in {"returned", "spawn"} /\ waiting.callback = c
Serves(w, c) == worker[w].at # "idle" /\ worker[w].callback = c
Stopped == dpc \in {"exited", "dead"}

TypeOK ==
    /\ queue \in Seq(Callers)
    /\ pc \in [Callers -> {"idle", "signal", "wait", "asleep", "done"}]
    /\ handled \in [Callers -> BOOLEAN]
    /\ rval \in [Callers -> {"unset", "true", "false"}]
    /\ dpc \in {"loop", "region", "asleep", "returned", "spawn", "exited", "dead"}
    /\ waiting \in [callback : Callers \cup {NULL}, abort : BOOLEAN]
    /\ killed \in BOOLEAN
    /\ worker \in [Workers -> [at : {"idle", "run", "reply"},
                               callback : Callers \cup {NULL},
                               outcome : Outcomes \cup {"none"}]]

\* A worker touches only a callback whose caller is still in rant_callback and
\* has not been answered, and no two workers have the same one: the struct is on
\* the caller's stack, so a second or a late handler would write to a dead frame
\* (handle_callback against the clean-up and return of rant_callback).
HandlersOwnTheirCallback ==
    \A w \in Workers : worker[w].at # "idle" =>
        /\ worker[w].callback \in Callers
        /\ Unanswered(worker[w].callback)
        /\ \A v \in Workers : Serves(v, worker[w].callback) => v = w

\* A callback in the queue belongs to a caller that still waits for it: nothing
\* the dispatcher can pop is a dangling pointer, and none is queued twice.
QueuedAreWaiting ==
    /\ \A i \in DOMAIN queue : Unanswered(queue[i])
    /\ \A i, j \in DOMAIN queue : queue[i] = queue[j] => i = j

\* While the dispatcher lives, a call that waits for its answer is in the queue,
\* in the dispatcher's hand or with a worker: push, pop and thread creation lose
\* no callback.
NoneLost ==
    ~Stopped => \A c \in Callers : Unanswered(c) =>
        InQueue(c) \/ InHand(c) \/ \E w \in Workers : Serves(w, c)

\* The dispatcher sleeps beside a callback only while the pusher's signal is
\* still to come: signalling after the unlock in rant_callback loses no wake-up.
NoLostWakeup ==
    dpc = "asleep" /\ queue # <<>> => \E c \in Callers : pc[c] = "signal"

\* A killed dispatcher does not sleep: the unblocking function's signal is never
\* lost, so Ruby's shutdown does not hang on this thread.
KilledIsAwake == dpc = "asleep" => ~killed /\ ~waiting.abort

\* A caller never sleeps on a callback that has been handled, and never leaves
\* rant_callback with a verdict nobody wrote.
NoLostReply ==
    \A c \in Callers :
        /\ pc[c] = "asleep" => ~handled[c]
        /\ pc[c] = "done" => handled[c] /\ rval[c] # "unset"

\* A thread is created for a callback only when a slot is free: no more threads
\* run than callers are blocked, whatever order they finish in.
ThreadsBounded ==
    dpc = "spawn" /\ waiting.callback # NULL =>
        \E w \in Workers : worker[w].at = "idle"

\* The queue is last in, first out, so a call can be overtaken for as long as
\* others arrive; once arrivals pause for good every call returns, if no interrupt
\* and no failure has stopped the dispatcher.
Pause == <>[][~\E c \in Callers : Push(c)]_vars
CallsReturnInAPause ==
    Pause /\ []~Stopped => \A c \in Callers : Blocked(c) ~> pc[c] = "idle"

\* A call that a worker has taken is answered even if the dispatcher is killed.
ServedCallReturns ==
    \A c \in Callers : (\E w \in Workers : Serves(w, c)) ~> pc[c] = "idle"

\* A kill is never ignored, wherever it meets the dispatcher: it stops.
KillStops == killed ~> Stopped

\* Nor is a call of the unblocking function: the dispatcher stops, never to wait
\* for a callback again.
AbortStops == waiting.abort ~> Stopped

=============================================================================
