------------------------ MODULE CallbackQueueProofs ------------------------
(***************************************************************************)
(* Theorems about CallbackQueue, for any number of callers and workers.     *)
(***************************************************************************)
EXTENDS CallbackQueue_Refinement, SequenceTheorems, FiniteSetTheorems, TLAPS

\* No Ruby thread calls Thread#wakeup or Thread#run on the dispatcher.
OnlyKills == "wakeup" \notin Faults

-----------------------------------------------------------------------------
\* The two list operations

Holds(q, c) == \E i \in DOMAIN q : q[i] = c
NoDuplicate(q) == \A i, j \in DOMAIN q : q[i] = q[j] => i = j

\* A push adds its callback and nothing else (callback_queue_push).
LEMMA PushAddsOne ==
    ASSUME NEW S, NEW q \in Seq(S), NEW x \in S, NEW r, r = <<x>> \o q
    PROVE  /\ r \in Seq(S)
           /\ \A c : Holds(r, c) <=> c = x \/ Holds(q, c)
           /\ NoDuplicate(q) /\ ~Holds(q, x) => NoDuplicate(r)
<1>1. /\ r \in Seq(S)
      /\ Len(r) = Len(q) + 1
      /\ \A i \in 1 .. Len(q) + 1 : r[i] = IF i = 1 THEN x ELSE q[i - 1]
  <2>1. <<x>> \in Seq(S) /\ Len(<<x>>) = 1 /\ <<x>>[1] = x
    OBVIOUS
  <2> QED BY <2>1, ConcatProperties
<1>2. DOMAIN q = 1 .. Len(q) /\ DOMAIN r = 1 .. (Len(q) + 1) /\ Len(q) \in Nat
  BY <1>1, LenProperties
<1>3. ASSUME NEW c PROVE Holds(r, c) <=> c = x \/ Holds(q, c)
  <2>1. ASSUME NEW i \in DOMAIN r, r[i] = c, c # x PROVE Holds(q, c)
    <3>1. i - 1 \in DOMAIN q /\ q[i - 1] = c
      BY <1>1, <1>2, <2>1
    <3> QED BY <3>1 DEF Holds
  <2>2. ASSUME c = x PROVE Holds(r, c)
    <3>1. 1 \in DOMAIN r /\ r[1] = x
      BY <1>1, <1>2
    <3> QED BY <3>1, <2>2 DEF Holds
  <2>3. ASSUME NEW i \in DOMAIN q, q[i] = c PROVE Holds(r, c)
    <3>1. i + 1 \in DOMAIN r /\ r[i + 1] = c
      BY <1>1, <1>2, <2>3
    <3> QED BY <3>1 DEF Holds
  <2> QED BY <2>1, <2>2, <2>3 DEF Holds
<1>4. ASSUME NoDuplicate(q), ~Holds(q, x) PROVE NoDuplicate(r)
  <2> SUFFICES ASSUME NEW i \in DOMAIN r, NEW j \in DOMAIN r, r[i] = r[j]
               PROVE  i = j
    BY DEF NoDuplicate
  <2>1. ASSUME NEW k \in DOMAIN r, k # 1 PROVE k - 1 \in DOMAIN q /\ r[k] = q[k - 1] /\ r[k] # x
    BY <1>1, <1>2, <1>4, <2>1 DEF Holds
  <2>2. r[1] = x
    BY <1>1, <1>2
  <2> QED BY <1>2, <1>4, <2>1, <2>2 DEF NoDuplicate
<1> QED BY <1>1, <1>3, <1>4

\* A pop hands over one callback of the list and keeps the others
\* (callback_queue_pop).
LEMMA PopTakesOne ==
    ASSUME NEW S, NEW q \in Seq(S), q # <<>>, NEW h, h = Head(q), NEW r, r = Tail(q)
    PROVE  /\ r \in Seq(S)
           /\ h \in S
           /\ Holds(q, h)
           /\ \A c : Holds(q, c) => c = h \/ Holds(r, c)
           /\ \A c : Holds(r, c) => Holds(q, c)
           /\ NoDuplicate(q) => NoDuplicate(r) /\ ~Holds(r, h)
<1>1. /\ r \in Seq(S)
      /\ h \in S
      /\ h = q[1]
      /\ Len(r) = Len(q) - 1
      /\ \A i \in 1 .. Len(q) - 1 : r[i] = q[i + 1]
  BY HeadTailProperties
<1>2. DOMAIN q = 1 .. Len(q) /\ DOMAIN r = 1 .. (Len(q) - 1) /\ Len(q) \in Nat \ {0}
  BY <1>1, LenProperties, EmptySeq
<1>3. Holds(q, h)
  BY <1>1, <1>2, 1 \in DOMAIN q DEF Holds
<1>4. ASSUME NEW c, Holds(q, c) PROVE c = h \/ Holds(r, c)
  <2> PICK i \in DOMAIN q : q[i] = c
    BY <1>4 DEF Holds
  <2>1. i # 1 => i - 1 \in DOMAIN r /\ r[i - 1] = c
    BY <1>1, <1>2
  <2> QED BY <1>1, <2>1 DEF Holds
<1>5. ASSUME NEW i \in DOMAIN r PROVE i + 1 \in DOMAIN q /\ q[i + 1] = r[i]
  BY <1>1, <1>2
<1>6. ASSUME NoDuplicate(q) PROVE NoDuplicate(r) /\ ~Holds(r, h)
  <2>1. NoDuplicate(r)
    BY <1>2, <1>5, <1>6 DEF NoDuplicate
  <2>2. ASSUME NEW i \in DOMAIN r PROVE r[i] # h
    BY <1>1, <1>2, <1>5, <1>6, 1 \in DOMAIN q DEF NoDuplicate
  <2> QED BY <2>1, <2>2 DEF Holds
<1> QED BY <1>1, <1>3, <1>4, <1>5, <1>6 DEF Holds

-----------------------------------------------------------------------------
\* Types

\* Every variable keeps its type, whatever is done to the dispatcher.
THEOREM TypeCorrect == Spec => []TypeOK
<1>1. Init => TypeOK
  <2> SUFFICES ASSUME Init PROVE TypeOK
    OBVIOUS
  <2>1. queue \in Seq(Callers)
    BY DEF Init
  <2>2. /\ pc \in [Callers -> {"idle", "signal", "wait", "asleep", "done"}]
        /\ handled \in [Callers -> BOOLEAN]
        /\ rval \in [Callers -> {"unset", "true", "false"}]
    BY DEF Init
  <2>3. /\ dpc = "loop" /\ killed = FALSE
        /\ waiting \in [callback : Callers \cup {NULL}, abort : BOOLEAN]
        /\ worker \in [Workers -> [at : {"idle", "run", "reply"},
                                   callback : Callers \cup {NULL},
                                   outcome : Outcomes \cup {"none"}]]
    BY DEF Init, IdleWorker
  <2> QED BY <2>1, <2>2, <2>3 DEF TypeOK
<1>2. TypeOK /\ [Next]_vars => TypeOK'
  <2> SUFFICES ASSUME TypeOK, [Next]_vars PROVE TypeOK'
    OBVIOUS
  <2> USE DEF TypeOK, callerVars, dispatcherVars
  <2>1. ASSUME NEW c \in Callers, Push(c) PROVE TypeOK'
    <3>1. queue' \in Seq(Callers)
      BY <2>1, PushAddsOne DEF Push, PushFront
    <3> QED BY <2>1, <3>1 DEF Push
  <2>2. ASSUME NEW c \in Callers, Signal(c) PROVE TypeOK'
    BY <2>2 DEF Signal, WakeDispatcher
  <2>3. ASSUME NEW c \in Callers, Await(c) PROVE TypeOK'
    BY <2>3 DEF Await
  <2>4. ASSUME NEW c \in Callers, SpuriousWake(c) \/ Return(c) PROVE TypeOK'
    BY <2>4 DEF SpuriousWake, Return
  <2>5. CASE Enter \/ WaitAborted \/ SpuriousDispatcherWake \/ Leave \/ SpawnNothing \/ SpawnFails
    BY <2>5 DEF Enter, WaitAborted, SpuriousDispatcherWake, Leave, SpawnNothing, SpawnFails
  <2>6. CASE WaitPop
    <3>1. queue' \in Seq(Callers) /\ Head(queue) \in Callers
      BY <2>6, PopTakesOne DEF WaitPop, PopFront
    <3> QED BY <2>6, <3>1 DEF WaitPop, PopFront
  <2>7. CASE WaitSleep
    BY <2>7 DEF WaitSleep
  <2>8. ASSUME NEW w \in Workers, Spawn(w) PROVE TypeOK'
    BY <2>8 DEF Spawn
  <2>9. CASE Kill \/ Wakeup
    BY <2>9 DEF Kill, Wakeup, StopWaiting, WakeDispatcher
  <2>10. ASSUME NEW w \in Workers, Run(w) PROVE TypeOK'
    BY <2>10 DEF Run
  <2>11. ASSUME NEW w \in Workers, Reply(w) PROVE TypeOK'
    BY <2>11 DEF Reply, WakeCaller, Verdict, IdleWorker
  <2>12. CASE UNCHANGED vars
    BY <2>12 DEF vars
  <2> QED
    BY <2>1, <2>2, <2>3, <2>4, <2>5, <2>6, <2>7, <2>8, <2>9, <2>10, <2>11, <2>12
       DEF Next, Caller, Dispatcher, Interrupt, Worker
<1> QED BY <1>1, <1>2, PTL DEF Spec

-----------------------------------------------------------------------------
\* No signal is lost, whatever is done to the dispatcher

\* What NoLostWakeup, KilledIsAwake and NoLostReply need to be inductive: an
\* interrupt of a dispatcher that has its unblocking function registered has set
\* abort, and a handled callback has its verdict.
SignalInv ==
    /\ NoLostWakeup
    /\ KilledIsAwake
    /\ NoLostReply
    /\ InRegion /\ killed => waiting.abort
    /\ \A c \in Callers : handled[c] => rval[c] # "unset"

LEMMA SignalInvInductive ==
    TypeOK /\ SignalInv /\ [Next]_vars => SignalInv'
<1> SUFFICES ASSUME TypeOK, SignalInv, [Next]_vars PROVE SignalInv'
  OBVIOUS
<1> USE DEF TypeOK, SignalInv, NoLostWakeup, KilledIsAwake, NoLostReply, InRegion,
        callerVars, dispatcherVars
<1>1. ASSUME NEW c \in Callers, Push(c) PROVE SignalInv'
  BY <1>1 DEF Push
<1>2. ASSUME NEW c \in Callers, Signal(c) PROVE SignalInv'
  BY <1>2 DEF Signal, WakeDispatcher
<1>3. ASSUME NEW c \in Callers, Await(c) PROVE SignalInv'
  BY <1>3 DEF Await
<1>4. ASSUME NEW c \in Callers, SpuriousWake(c) \/ Return(c) PROVE SignalInv'
  BY <1>4 DEF SpuriousWake, Return
<1>5. CASE Enter \/ WaitAborted \/ SpuriousDispatcherWake \/ Leave \/ SpawnNothing \/ SpawnFails
  BY <1>5 DEF Enter, WaitAborted, SpuriousDispatcherWake, Leave, SpawnNothing, SpawnFails
<1>6. CASE WaitPop
  BY <1>6 DEF WaitPop, PopFront
<1>7. CASE WaitSleep
  BY <1>7 DEF WaitSleep
<1>8. ASSUME NEW w \in Workers, Spawn(w) PROVE SignalInv'
  BY <1>8 DEF Spawn
<1>9. CASE Kill \/ Wakeup
  BY <1>9 DEF Kill, Wakeup, StopWaiting, WakeDispatcher
<1>10. ASSUME NEW w \in Workers, Run(w) PROVE SignalInv'
  BY <1>10 DEF Run
<1>11. ASSUME NEW w \in Workers, Reply(w) PROVE SignalInv'
  BY <1>11 DEF Reply, WakeCaller, Verdict
<1>12. CASE UNCHANGED vars
  BY <1>12 DEF vars
<1> QED
  BY <1>1, <1>2, <1>3, <1>4, <1>5, <1>6, <1>7, <1>8, <1>9, <1>10, <1>11, <1>12
     DEF Next, Caller, Dispatcher, Interrupt, Worker

LEMMA SignalInvHolds == Spec => []SignalInv
<1>1. Init => SignalInv
  BY DEF Init, SignalInv, NoLostWakeup, KilledIsAwake, NoLostReply, InRegion
<1> QED BY <1>1, TypeCorrect, SignalInvInductive, PTL DEF Spec

\* The dispatcher never sleeps beside a callback whose signal has come and gone:
\* rant_callback may signal after it has given the lock back.
THEOREM NoWakeupIsLost == Spec => []NoLostWakeup
<1>1. SignalInv => NoLostWakeup
  BY DEF SignalInv
<1> QED BY <1>1, SignalInvHolds, PTL

\* The dispatcher never sleeps with a kill pending: the signal of
\* stop_waiting_for_callback_signal always reaches it.
THEOREM KilledNeverSleeps == Spec => []KilledIsAwake
<1>1. SignalInv => KilledIsAwake
  BY DEF SignalInv
<1> QED BY <1>1, SignalInvHolds, PTL

\* No caller sleeps on a handled callback or returns a verdict nobody wrote.
THEOREM NoReplyIsLost == Spec => []NoLostReply
<1>1. SignalInv => NoLostReply
  BY DEF SignalInv
<1> QED BY <1>1, SignalInvHolds, PTL

-----------------------------------------------------------------------------
\* A callback has one owner

\* The dispatcher holds a callback it will start a thread for. (After a kill
\* waiting.callback may be one of an earlier loop, but is not looked at again.)
InUse(c) == InHand(c) /\ ~waiting.abort

OneOwner ==
    /\ NoDuplicate(queue)
    /\ \A c \in Callers : Holds(queue, c) => Unanswered(c) /\ ~InUse(c)
    /\ \A c \in Callers : InUse(c) => Unanswered(c)
    /\ \A w \in Workers : worker[w].at # "idle" =>
         /\ worker[w].callback \in Callers
         /\ Unanswered(worker[w].callback)
         /\ ~Holds(queue, worker[w].callback)
         /\ ~InUse(worker[w].callback)
         /\ \A v \in Workers : Serves(v, worker[w].callback) => v = w
    /\ ~Stopped => \A c \in Callers : Unanswered(c) =>
         Holds(queue, c) \/ InHand(c) \/ \E w \in Workers : Serves(w, c)

\* A thread is started though abort is set, for whatever waiting.callback holds.
SpawnsAfterAbort == waiting.abort /\ \E w \in Workers : Spawn(w)

LEMMA StutterSpawnsNothing == UNCHANGED vars => [Next]_vars /\ ~SpawnsAfterAbort
  BY CallbackQueueAssumption DEF vars, callerVars, dispatcherVars, SpawnsAfterAbort, Spawn

\* Nothing else takes the one owner away, no interrupt and no failure.
LEMMA OneOwnerInductive ==
    TypeOK /\ SignalInv /\ OneOwner /\ [Next]_vars /\ ~SpawnsAfterAbort => OneOwner'
<1> SUFFICES ASSUME TypeOK, SignalInv, OneOwner, [Next]_vars, ~SpawnsAfterAbort PROVE OneOwner'
  OBVIOUS
<1> USE DEF TypeOK, OneOwner, InUse, InHand, Unanswered, Blocked, Serves, Stopped,
        callerVars, dispatcherVars
<1>1. ASSUME NEW c \in Callers, Push(c) PROVE OneOwner'
  <2>1. /\ \A d : Holds(queue', d) <=> d = c \/ Holds(queue, d)
        /\ NoDuplicate(queue')
    <3>1. ~Holds(queue, c) /\ NoDuplicate(queue) /\ queue \in Seq(Callers)
      BY <1>1 DEF Push
    <3>2. queue' = <<c>> \o queue
      BY <1>1 DEF Push, PushFront
    <3> QED BY ONLY <3>1, <3>2, PushAddsOne
  <2> QED BY <1>1, <2>1 DEF Push
<1>2. ASSUME NEW c \in Callers, Signal(c) PROVE OneOwner'
  BY <1>2 DEF Signal, WakeDispatcher
<1>3. ASSUME NEW c \in Callers, Await(c) PROVE OneOwner'
  BY <1>3 DEF Await
<1>4. ASSUME NEW c \in Callers, SpuriousWake(c) \/ Return(c) PROVE OneOwner'
  BY <1>4 DEF SpuriousWake, Return, SignalInv, NoLostReply
<1>5. CASE Enter \/ WaitAborted \/ SpuriousDispatcherWake \/ Leave \/ SpawnNothing \/ SpawnFails
  BY <1>5, CallbackQueueAssumption
     DEF Enter, WaitAborted, SpuriousDispatcherWake, Leave, SpawnNothing, SpawnFails
<1>6. CASE WaitPop
  <2> DEFINE h == Head(queue)
  <2>1. /\ h \in Callers
        /\ Holds(queue, h)
        /\ \A c : Holds(queue, c) => c = h \/ Holds(queue', c)
        /\ \A c : Holds(queue', c) => Holds(queue, c)
        /\ NoDuplicate(queue') /\ ~Holds(queue', h)
    <3>1. NoDuplicate(queue) /\ queue \in Seq(Callers) /\ queue # <<>> /\ queue' = Tail(queue)
      BY <1>6 DEF WaitPop, PopFront
    <3> QED BY ONLY <3>1, PopTakesOne
  <2>2. waiting'.callback = h /\ waiting'.abort = waiting.abort
    BY <1>6 DEF WaitPop, PopFront
  <2> HIDE DEF h
  <2> QED BY <1>6, <2>1, <2>2 DEF WaitPop
<1>7. CASE WaitSleep
  BY <1>7 DEF WaitSleep
<1>8. ASSUME NEW w \in Workers, Spawn(w) PROVE OneOwner'
  <2>1. ~waiting.abort
    BY <1>8 DEF SpawnsAfterAbort
  <2> QED BY <1>8, <2>1 DEF Spawn
<1>9. CASE Kill \/ Wakeup
  BY <1>9 DEF Kill, Wakeup, StopWaiting, WakeDispatcher, InRegion
<1>10. ASSUME NEW w \in Workers, Run(w) PROVE OneOwner'
  BY <1>10 DEF Run
<1>11. ASSUME NEW w \in Workers, Reply(w) PROVE OneOwner'
  BY <1>11 DEF Reply, WakeCaller, IdleWorker
<1>12. CASE UNCHANGED vars
  BY <1>12 DEF vars
<1> QED
  BY <1>1, <1>2, <1>3, <1>4, <1>5, <1>6, <1>7, <1>8, <1>9, <1>10, <1>11, <1>12
     DEF Next, Caller, Dispatcher, Interrupt, Worker

LEMMA OneOwnerInitially == Init => OneOwner
  BY DEF Init, OneOwner, InUse, InHand, Unanswered, Blocked, Serves, Stopped, Holds, NoDuplicate,
         IdleWorker

\* With one owner for each callback the three properties hold.
LEMMA OneOwnerSuffices ==
    TypeOK /\ OneOwner => HandlersOwnTheirCallback /\ QueuedAreWaiting /\ NoneLost
<1> SUFFICES ASSUME TypeOK, OneOwner
             PROVE  HandlersOwnTheirCallback /\ QueuedAreWaiting /\ NoneLost
  OBVIOUS
<1>1. HandlersOwnTheirCallback
  BY DEF OneOwner, HandlersOwnTheirCallback
<1>2. QueuedAreWaiting
  <2>1. ASSUME NEW i \in DOMAIN queue PROVE Holds(queue, queue[i]) /\ queue[i] \in Callers
    BY ElementOfSeq, LenProperties DEF TypeOK, Holds
  <2> QED BY <2>1 DEF OneOwner, QueuedAreWaiting, NoDuplicate
<1>3. NoneLost
  BY DEF OneOwner, NoneLost, InQueue, Holds
<1> QED BY <1>1, <1>2, <1>3

-----------------------------------------------------------------------------
\* Ownership under any interrupt

\* The dispatcher has not got past line 206 with abort set: it is told to stop only
\* while it waits, or on its way from there to the thread it may have to start.
NotBeyondAbort == waiting.abort => dpc \in {"region", "returned", "spawn"}

\* Whatever interrupts the dispatcher and whether threads can be created or not, no
\* callback is lost, dangling or shared, up to the moment at which it has gone on
\* and perhaps started a thread with abort set (callbacks.c:203-206).
THEOREM OwnershipUntilAbort ==
    Spec => [](NotBeyondAbort => HandlersOwnTheirCallback /\ QueuedAreWaiting /\ NoneLost)
<1> DEFINE Inv == NotBeyondAbort => OneOwner
<1>1. Init => Inv
  BY OneOwnerInitially
<1>2. TypeOK /\ SignalInv /\ Inv /\ [Next]_vars => Inv'
  <2> SUFFICES ASSUME TypeOK, SignalInv, Inv, [Next]_vars, NotBeyondAbort' PROVE OneOwner'
    OBVIOUS
  <2>1. NotBeyondAbort /\ ~SpawnsAfterAbort
    BY DEF NotBeyondAbort, SpawnsAfterAbort, TypeOK, SignalInv, KilledIsAwake, Next, Caller,
           Dispatcher, Interrupt, Worker, Push, Signal, Await, SpuriousWake, Return, Enter,
           WaitAborted, WaitPop, PopFront, WaitSleep, SpuriousDispatcherWake, Leave, SpawnNothing,
           Spawn, SpawnFails, Kill, Wakeup, StopWaiting, WakeDispatcher, InRegion, Run, Reply,
           vars, callerVars, dispatcherVars
  <2> QED BY <2>1, OneOwnerInductive
<1>3. TypeOK /\ Inv => (NotBeyondAbort => HandlersOwnTheirCallback /\ QueuedAreWaiting /\ NoneLost)
  BY OneOwnerSuffices
<1> QED BY <1>1, <1>2, <1>3, TypeCorrect, SignalInvHolds, PTL DEF Spec

-----------------------------------------------------------------------------
\* Ownership for good, while only kills interrupt the dispatcher

\* A kill that sets abort also unwinds the dispatcher before it starts a thread.
OwnerInv ==
    /\ waiting.abort => killed /\ dpc \in {"region", "returned", "dead"}
    /\ OneOwner

LEMMA OwnerInvHolds ==
    ASSUME OnlyKills
    PROVE  Spec => []OwnerInv
<1>1. Init => OwnerInv
  BY OneOwnerInitially DEF Init, OwnerInv
<1>2. TypeOK /\ SignalInv /\ OwnerInv /\ [Next]_vars => OwnerInv'
  <2> SUFFICES ASSUME TypeOK, SignalInv, OwnerInv, [Next]_vars PROVE OwnerInv'
    OBVIOUS
  <2>1. waiting'.abort => killed' /\ dpc' \in {"region", "returned", "dead"}
    BY DEF OwnerInv, TypeOK, SignalInv, KilledIsAwake, OnlyKills, Next, Caller, Dispatcher,
           Interrupt, Worker, Push, Signal, Await, SpuriousWake, Return, Enter, WaitAborted,
           WaitPop, PopFront, WaitSleep, SpuriousDispatcherWake, Leave, SpawnNothing, Spawn,
           SpawnFails, Kill, Wakeup, StopWaiting, WakeDispatcher, InRegion, Run, Reply, vars,
           callerVars, dispatcherVars
  <2>2. ~SpawnsAfterAbort
    BY DEF OwnerInv, SpawnsAfterAbort, Spawn
  <2> QED BY <2>1, <2>2, OneOwnerInductive DEF OwnerInv
<1> QED BY <1>1, <1>2, TypeCorrect, SignalInvHolds, PTL DEF Spec

\* No worker touches the frame of a call that has returned or been answered, and
\* no two workers share a callback.
THEOREM HandlersOwn ==
    ASSUME OnlyKills
    PROVE  Spec => []HandlersOwnTheirCallback
<1>1. TypeOK /\ OwnerInv => HandlersOwnTheirCallback
  BY OneOwnerSuffices DEF OwnerInv
<1> QED BY <1>1, TypeCorrect, OwnerInvHolds, PTL

\* The list never holds a pointer to a callback whose caller has gone.
THEOREM QueueIsLive ==
    ASSUME OnlyKills
    PROVE  Spec => []QueuedAreWaiting
<1>1. TypeOK /\ OwnerInv => QueuedAreWaiting
  BY OneOwnerSuffices DEF OwnerInv
<1> QED BY <1>1, TypeCorrect, OwnerInvHolds, PTL

\* While the dispatcher lives every unanswered call is queued, in its hand or
\* with a worker.
THEOREM NoCallIsLost ==
    ASSUME OnlyKills
    PROVE  Spec => []NoneLost
<1>1. TypeOK /\ OwnerInv => NoneLost
  BY OneOwnerSuffices DEF OwnerInv
<1> QED BY <1>1, TypeCorrect, OwnerInvHolds, PTL

-----------------------------------------------------------------------------
\* Threads

\* There is a slot for each caller (MCCallbackQueue).
SlotForEach ==
    /\ IsFiniteSet(Callers) /\ IsFiniteSet(Workers)
    /\ Cardinality(Callers) <= Cardinality(Workers)

\* However many of them are at work and in whatever order they finish, as many
\* threads are enough as callers can be blocked.
THEOREM ThreadsSuffice ==
    ASSUME OnlyKills, SlotForEach
    PROVE  Spec => []ThreadsBounded
<1>1. TypeOK /\ OwnerInv => ThreadsBounded
  <2> SUFFICES ASSUME TypeOK, OwnerInv, dpc = "spawn", waiting.callback # NULL,
                      \A w \in Workers : worker[w].at # "idle"
               PROVE  FALSE
    BY DEF ThreadsBounded
  <2> DEFINE c == waiting.callback
             taken == [w \in Workers |-> worker[w].callback]
  <2>1. c \in Callers /\ InUse(c)
    BY DEF TypeOK, OwnerInv, InUse, InHand
  <2>2. taken \in [Workers -> Callers \ {c}]
    BY <2>1 DEF OwnerInv, OneOwner
  <2>3. \A v, w \in Workers : taken[v] = taken[w] => v = w
    BY DEF OwnerInv, OneOwner, Serves
  <2>4. /\ IsFiniteSet(Callers \ {c})
        /\ Cardinality(Callers \ {c}) < Cardinality(Workers)
    <3>1. IsFiniteSet(Callers \ {c}) /\ Cardinality(Callers \ {c}) = Cardinality(Callers) - 1
      BY <2>1, FS_RemoveElement DEF SlotForEach
    <3>2. Cardinality(Callers) \in Nat /\ Cardinality(Workers) \in Nat
      BY FS_CardinalityType DEF SlotForEach
    <3> QED BY <3>1, <3>2 DEF SlotForEach
  <2> HIDE DEF c, taken
  <2> QED BY <2>2, <2>3, <2>4, FS_PigeonHole DEF SlotForEach
<1> QED BY <1>1, TypeCorrect, OwnerInvHolds, PTL

-----------------------------------------------------------------------------
\* CallbackQueue implements CallbackService

\* The phase and the verdict a call maps to, case by case.
PhaseTable ==
    \A c \in Callers :
        /\ pc[c] = "idle" => PhaseOf(c) = "idle" /\ VerdictOf(c) = "none"
        /\ pc[c] # "idle" /\ handled[c] => PhaseOf(c) = "answered" /\ VerdictOf(c) = rval[c]
        /\ Unanswered(c) /\ ~(\E w \in Workers : Serves(w, c)) =>
             PhaseOf(c) = "posted" /\ VerdictOf(c) = "none"
        /\ \A w \in Workers : Serves(w, c) /\ worker[w].at = "run" =>
             PhaseOf(c) = "running" /\ VerdictOf(c) = "none"
        /\ \A w \in Workers : Serves(w, c) /\ worker[w].at = "reply" =>
             PhaseOf(c) = "decided" /\ VerdictOf(c) = Verdict(worker[w].outcome)

LEMMA PhaseTableHolds == TypeOK /\ OneOwner => PhaseTable
<1> SUFFICES ASSUME TypeOK, OneOwner, NEW c \in Callers PROVE PhaseTable!(c)
  BY DEF PhaseTable
<1>1. ASSUME NEW w \in Workers, Serves(w, c)
      PROVE  /\ Unanswered(c)
             /\ \A v \in Workers : Serves(v, c) => v = w
             /\ Server(c) = w
  <2>1. Unanswered(c) /\ \A v \in Workers : Serves(v, c) => v = w
    BY <1>1 DEF OneOwner, Serves
  <2> QED BY <2>1, <1>1 DEF Server
<1>2. pc[c] = "idle" => PhaseOf(c) = "idle" /\ VerdictOf(c) = "none"
  BY DEF PhaseOf, VerdictOf
<1>3. pc[c] # "idle" /\ handled[c] => PhaseOf(c) = "answered" /\ VerdictOf(c) = rval[c]
  BY DEF PhaseOf, VerdictOf
<1>4. Unanswered(c) /\ ~(\E w \in Workers : Serves(w, c)) =>
        PhaseOf(c) = "posted" /\ VerdictOf(c) = "none"
  BY DEF PhaseOf, VerdictOf, Unanswered, Blocked
<1>5. ASSUME NEW w \in Workers, Serves(w, c), worker[w].at = "run"
      PROVE  PhaseOf(c) = "running" /\ VerdictOf(c) = "none"
  BY <1>1, <1>5 DEF PhaseOf, VerdictOf, Unanswered, Blocked
<1>6. ASSUME NEW w \in Workers, Serves(w, c), worker[w].at = "reply"
      PROVE  PhaseOf(c) = "decided" /\ VerdictOf(c) = Verdict(worker[w].outcome)
  <2>1. PhaseOf(c) = "decided"
    BY <1>1, <1>6 DEF PhaseOf, Unanswered, Blocked
  <2> QED BY <1>1, <1>6, <2>1 DEF VerdictOf
<1> QED BY <1>2, <1>3, <1>4, <1>5, <1>6

\* What a step may do to the mapped state.
Stays(c) == PhaseOf(c)' = PhaseOf(c) /\ VerdictOf(c)' = VerdictOf(c)
OthersStay(c) == \A d \in Callers \ {c} : Stays(d)

LEMMA StepImplements ==
    ASSUME TypeOK, SignalInv, OneOwner, PhaseTable, TypeOK', OneOwner', PhaseTable',
           [Next]_vars, ~SpawnsAfterAbort
    PROVE  [Service!Next]_Service!svars
<1> DEFINE phase == [c \in Callers |-> PhaseOf(c)]
           verdict == [c \in Callers |-> VerdictOf(c)]
<1>1. ASSUME \A c \in Callers : Stays(c)
      PROVE  UNCHANGED Service!svars
  BY <1>1 DEF Stays, Service!svars
<1>2. ASSUME NEW c \in Callers, OthersStay(c), NEW to, NEW v, PhaseOf(c)' = to, VerdictOf(c)' = v
      PROVE  phase' = [phase EXCEPT ![c] = to] /\ verdict' = [verdict EXCEPT ![c] = v]
  BY <1>2 DEF Stays, OthersStay
<1>3. ASSUME NEW c \in Callers, OthersStay(c), NEW to, PhaseOf(c)' = to, VerdictOf(c)' = VerdictOf(c)
      PROVE  phase' = [phase EXCEPT ![c] = to] /\ verdict' = verdict
  BY <1>3 DEF Stays, OthersStay
<1> USE DEF TypeOK, callerVars, dispatcherVars
<1>4. ASSUME NEW d \in Callers, handled'[d] = handled[d], rval'[d] = rval[d],
             pc[d] = "idle" <=> pc'[d] = "idle",
             \A v \in Workers : Serves(v, d) \/ Serves(v, d)' => worker'[v] = worker[v]
      PROVE  Stays(d)
  <2>1. \A v \in Workers : Serves(v, d)' <=> Serves(v, d)
    BY <1>4 DEF Serves
  <2>2. PhaseOf(d)' = PhaseOf(d)
    BY <1>4, <2>1 DEF PhaseOf
  <2>3. Server(d)' = Server(d)
    BY <2>1 DEF Server
  <2>4. PhaseOf(d) = "decided" => worker'[Server(d)] = worker[Server(d)]
    <3>1. ASSUME NEW v \in Workers, Serves(v, d) PROVE Serves(Server(d), d) /\ Server(d) \in Workers
      BY <3>1 DEF Server
    <3> QED BY <1>4, <3>1 DEF PhaseOf
  <2> QED BY <1>4, <2>2, <2>3, <2>4 DEF Stays, VerdictOf
<1>5. ASSUME NEW c \in Callers, Push(c) PROVE Service!Post(c)
  <2>1. OthersStay(c)
    BY <1>5, <1>4 DEF Push, OthersStay
  <2>2. PhaseOf(c) = "idle" /\ VerdictOf(c) = "none"
    BY <1>5 DEF Push, PhaseTable
  <2>3. PhaseOf(c)' = "posted" /\ VerdictOf(c)' = "none"
    BY <1>5 DEF Push, PhaseTable, OneOwner, Unanswered, Blocked, Serves
  <2> QED BY <1>3, <2>1, <2>2, <2>3 DEF Service!Post, Service!Move
<1>6. ASSUME NEW c \in Callers, Signal(c) \/ Await(c) \/ SpuriousWake(c)
      PROVE  \A d \in Callers : Stays(d)
  BY <1>6, <1>4 DEF Signal, Await, SpuriousWake
<1>7. ASSUME NEW c \in Callers, Return(c) PROVE Service!Finish(c)
  <2>1. OthersStay(c)
    BY <1>7, <1>4 DEF Return, OthersStay
  <2>2. PhaseOf(c) = "answered" /\ PhaseOf(c)' = "idle" /\ VerdictOf(c)' = "none"
    BY <1>7 DEF Return, PhaseTable, SignalInv, NoLostReply
  <2> QED BY <1>2, <2>1, <2>2 DEF Service!Finish, Service!Move
<1>8. CASE Enter \/ WaitAborted \/ WaitPop \/ WaitSleep \/ SpuriousDispatcherWake \/ Leave
           \/ SpawnNothing \/ SpawnFails \/ Kill \/ Wakeup
  <2>1. UNCHANGED <<callerVars, worker>>
    BY <1>8 DEF Enter, WaitAborted, WaitPop, WaitSleep, SpuriousDispatcherWake, Leave,
                SpawnNothing, SpawnFails, Kill, Wakeup
  <2> QED BY <1>1, <1>4, <2>1
<1> USE DEF Unanswered, Blocked, Serves
<1>9. ASSUME NEW w \in Workers, Spawn(w) PROVE \E c \in Callers : Service!Start(c)
  <2>0. ~waiting.abort
    BY <1>9 DEF SpawnsAfterAbort
  <2> PICK c \in Callers : c = waiting.callback
    BY <1>9, <2>0 DEF Spawn, OneOwner, InUse, InHand
  <2>1. Unanswered(c) /\ (\A v \in Workers : ~Serves(v, c))
    BY <1>9, <2>0 DEF Spawn, OneOwner, InUse, InHand
  <2>2. OthersStay(c)
    BY <1>9, <1>4 DEF Spawn, OthersStay
  <2>3. PhaseOf(c) = "posted" /\ VerdictOf(c) = "none"
    BY <2>1 DEF PhaseTable
  <2>4. PhaseOf(c)' = "running" /\ VerdictOf(c)' = "none"
    BY <1>9, <2>1 DEF Spawn, PhaseTable
  <2> QED BY <1>3, <2>1, <2>2, <2>3, <2>4 DEF Service!Start, Service!Move
<1>10. ASSUME NEW w \in Workers, Run(w) PROVE \E c \in Callers : Service!Decide(c)
  <2> PICK c \in Callers : c = worker[w].callback
    BY <1>10 DEF Run, OneOwner
  <2>1. Serves(w, c)
    BY <1>10 DEF Run, OneOwner
  <2>2. OthersStay(c)
    BY <1>10, <1>4 DEF Run, OthersStay
  <2>3. PhaseOf(c) = "running"
    BY <1>10, <2>1 DEF Run, PhaseTable
  <2>4. PhaseOf(c)' = "decided" /\ VerdictOf(c)' \in {"true", "false"}
    BY <1>10, <2>1 DEF Run, PhaseTable, Verdict
  <2> QED BY <1>2, <2>1, <2>2, <2>3, <2>4 DEF Service!Decide, Service!Move
<1>11. ASSUME NEW w \in Workers, Reply(w) PROVE \E c \in Callers : Service!Answer(c)
  <2> PICK c \in Callers : c = worker[w].callback
    BY <1>11 DEF Reply, OneOwner
  <2>1. Serves(w, c) /\ Unanswered(c)
    BY <1>11 DEF Reply, OneOwner
  <2>2. OthersStay(c)
    BY <1>11, <1>4 DEF Reply, WakeCaller, IdleWorker, OthersStay
  <2>3. PhaseOf(c) = "decided" /\ VerdictOf(c) = Verdict(worker[w].outcome)
    BY <1>11, <2>1 DEF Reply, PhaseTable
  <2>4. PhaseOf(c)' = "answered" /\ VerdictOf(c)' = Verdict(worker[w].outcome)
    BY <1>11, <2>1 DEF Reply, WakeCaller, PhaseTable
  <2> QED BY <1>3, <2>1, <2>2, <2>3, <2>4 DEF Service!Answer, Service!Move
<1>12. CASE UNCHANGED vars
  BY <1>1, <1>4, <1>12 DEF vars
<1> QED
  BY <1>1, <1>5, <1>6, <1>7, <1>8, <1>9, <1>10, <1>11, <1>12
     DEF Next, Caller, Dispatcher, Interrupt, Worker, Service!Next

\* Whatever interrupts the dispatcher, with abort set or not, and whether threads can
\* be created or not: as long as no thread is started with abort set, for a callback
\* of an earlier round (callbacks.c:206), a call of rant_callback runs its callback
\* function at most once and returns that run's verdict.
THEOREM ImplementsUnlessSpawnedLate ==
    Spec /\ [][~SpawnsAfterAbort]_vars => ImplementsService
<1>1. Init => Service!Init
  <2> SUFFICES ASSUME Init PROVE Service!Init
    OBVIOUS
  <2>1. \A c \in Callers : PhaseOf(c) = "idle" /\ VerdictOf(c) = "none"
    BY DEF Init, PhaseOf, VerdictOf
  <2> QED BY <2>1 DEF Service!Init
<1>2. TypeOK /\ SignalInv /\ OneOwner /\ [Next]_vars /\ [~SpawnsAfterAbort]_vars => OneOwner'
  <2>1. CASE ~SpawnsAfterAbort
    BY <2>1, OneOwnerInductive
  <2>2. CASE UNCHANGED vars
    BY <2>2, StutterSpawnsNothing, OneOwnerInductive
  <2> QED BY <2>1, <2>2
<1>3. TypeOK /\ SignalInv /\ OneOwner /\ PhaseTable /\ TypeOK' /\ OneOwner' /\ PhaseTable'
      /\ [Next]_vars /\ [~SpawnsAfterAbort]_vars => [Service!Next]_Service!svars
  <2>1. CASE ~SpawnsAfterAbort
    BY <2>1, StepImplements
  <2>2. CASE UNCHANGED vars
    BY <2>2, StutterSpawnsNothing, StepImplements
  <2> QED BY <2>1, <2>2
<1> QED
  BY <1>1, <1>2, <1>3, TypeCorrect, SignalInvHolds, OneOwnerInitially, PhaseTableHolds, PTL
     DEF Spec, ImplementsService, Service!Spec

\* Only kills interrupting the dispatcher, a call of rant_callback runs its
\* callback function at most once and returns that run's verdict.
THEOREM Implements ==
    ASSUME OnlyKills
    PROVE  Spec => ImplementsService
<1>1. OwnerInv => ~SpawnsAfterAbort
  BY DEF OwnerInv, SpawnsAfterAbort, Spawn
<1> QED BY <1>1, OwnerInvHolds, ImplementsUnlessSpawnedLate, PTL

=============================================================================
