--------------------------- MODULE ChannelRegistry ---------------------------
(***************************************************************************)
(* ext/ant_ext/channel.c, with the channel operations of ant_ext.c: who     *)
(* knows of an Ant::Channel. Four tables name channels, and no two of them  *)
(* are updated by the same operations:                                      *)
(*                                                                          *)
(*   registry   the hash Ant::Channel.registry, by the number the program   *)
(*              gave: what an event is looked up in;                        *)
(*   evfn       libant's event function table, by channel number: where     *)
(*              libant writes a message before it calls back, a pointer     *)
(*              into the rant_channel_t of an object;                       *)
(*   hw         the channels of the ANT device;                             *)
(*   state      the Ruby objects, which the garbage collector frees.        *)
(*                                                                          *)
(* The operations run with the GVL held, ANT_..._RTO calls included: each   *)
(* is one action as far as it runs no Ruby code. assign_channel and close   *)
(* log between what they do to the device and what they do to the registry, *)
(* and the logger is Ruby code, which lets every other thread run; so is a  *)
(* block given to on_event. libant has one thread that calls back, and      *)
(* rant_callback holds it up until its event is handled (CallbackQueue).    *)
(*                                                                          *)
(* The block may be one of the program, or the one that set_event_handlers  *)
(* gives, handle_event_callback of lib/ant/channel/event_callbacks.rb.      *)
(***************************************************************************)
EXTENDS Integers

CONSTANTS
    Objects,    \* places for Ant::Channel objects in the Ruby heap
    Keys,       \* the Integers the program gives as channel numbers
    Threads,    \* those of the program that can be inside assign_channel or close
    NULL,       \* no object, no entry, no call
    Reliable    \* a command to a channel succeeds if and only if the library says so

\* NUM2CHR raises for what an int cannot hold, before assign_channel does anything.
FitsInt(k) == -2147483647 - 1 <= k /\ k <= 2147483647

ASSUME ChannelRegistryAssumption ==
    /\ Keys \subseteq Int /\ \A k \in Keys : FitsInt(k)
    /\ NULL \notin Objects /\ NULL \notin Int
    /\ \A o \in Objects : o \notin Int
    /\ NULL \notin [chan : Nat, into : Objects, handler : Objects \cup {NULL}]
    /\ Reliable \in BOOLEAN

VARIABLES
    state,      \* state[o]: "none"; "raw", allocated but not initialized; "live"
    num,        \* num[o]: channel_num
    callback,   \* the objects with a block
    buffer,     \* buffer[o][p]: what part p of the buffer holds (see Contents)
    registry,   \* registry[k]: the object under key k, or NULL
    held,       \* the objects the program has references to
    hw,         \* hw[n]: "unassigned", "assigned" or "open"
    evfn,       \* evfn[n]: the object whose buffer libant has, or NULL
    call,       \* the event libant waits for, [chan, into, handler], or NULL
    doing       \* doing[t]: the key of the assign_channel that t is inside, the
                \* channel of the close that it is inside, or NULL

objectVars == <<state, num, callback, buffer>>
vars == <<objectVars, registry, held, hw, evfn, call, doing>>

-----------------------------------------------------------------------------

\* NUM2CHR in assign_channel, the unsigned char channel_num in initialize.
ChannelNum(k) == k % 256

\* What neither sign of a short can hold: NUM2USHORT raises a RangeError in initialize.
NotShort(k) == k < -32768 \/ k > 65535

Channels == {ChannelNum(k) : k \in Keys} \cup {0}
Entries == Keys \cup Channels

\* The bytes that a short message writes, and those that only a long one reaches.
Parts == {"front", "tail"}

\* "new": the data of the event libant waits for; "left": of an event whose block
\* raised; "missed": of one for which no channel or no block was found.
Contents == {"zero", "new", "left", "missed"}

Zeroed == [p \in Parts |-> "zero"]

Registered(o) == \E k \in Entries : registry[k] = o

\* What is on the stack of a thread in Ruby code that a C function called: self
\* in close, the channel in rant_channel_call_event_callback.
OnStack(o) == (\E t \in Threads : doing[t] = o) \/ (call # NULL /\ call.handler = o)

\* (Operators whose comment begins with "Slip:" are a definition below them with a
\* bug that a change could bring in; no specification uses them.)

\* Slip: the registry is not among the collector's roots.
ReachableElsewhere(o) == o \in held \/ OnStack(o)

\* What the collector finds: the program's references, the registry's values, and
\* the stacks.
Reachable(o) == o \in held \/ Registered(o) \/ OnStack(o)

\* A command takes channel n of the device from one of the states `from` to the
\* state `to`, or does not; `said` is what the library returns.
Command(n, from, to, said) ==
    LET accepted == hw' = [hw EXCEPT ![n] = to] IN
    IF Reliable THEN IF hw[n] \in from THEN said /\ accepted ELSE ~said /\ UNCHANGED hw
    ELSE (hw[n] \in from /\ accepted) \/ UNCHANGED hw

\* The program calls a method on o.
Calls(o) == o \in held

-----------------------------------------------------------------------------
\* Ant.assign_channel

\* Up to the log message; TLC's bound: there is room for the object.
AssignDevice(t, k) ==
    /\ doing[t] = NULL
    /\ \E o \in Objects : state[o] = "none"
    /\ \E said \in BOOLEAN :
         /\ Command(ChannelNum(k), {"unassigned"}, "assigned", said)
         /\ doing' = [doing EXCEPT ![t] = IF said THEN k ELSE NULL]
    /\ UNCHANGED <<objectVars, registry, held, evfn, call>>

\* The allocation, in the place of o.
Allocate(t, o, as, n) ==
    /\ state[o] = "none"
    /\ state' = [state EXCEPT ![o] = as]
    /\ num' = [num EXCEPT ![o] = n]
    /\ callback' = callback \ {o}
    /\ buffer' = [buffer EXCEPT ![o] = Zeroed]
    /\ doing' = [doing EXCEPT ![t] = NULL]
    /\ UNCHANGED <<hw, evfn, call>>

\* Slip: channel_num is as wide as the number converted.
UntruncatedInstance(t, o) ==
    /\ doing[t] \in Keys /\ ~NotShort(doing[t])
    /\ Allocate(t, o, "live", doing[t])
    /\ registry' = [registry EXCEPT ![doing[t]] = o]
    /\ held' = held \cup {o}

\* rb_class_new_instance: the registry's key is the Integer as the program gave
\* it, and a channel registered there before is replaced.
NewInstance(t, o) ==
    /\ doing[t] \in Keys /\ ~NotShort(doing[t])
    /\ Allocate(t, o, "live", ChannelNum(doing[t]))
    /\ registry' = [registry EXCEPT ![doing[t]] = o]
    /\ held' = held \cup {o}

\* The RangeError leaves an object of channel 0 for the collector.
NewInstanceRaises(t, o) ==
    /\ doing[t] \in Keys /\ NotShort(doing[t])
    /\ Allocate(t, o, "raw", 0)
    /\ UNCHANGED <<registry, held>>

-----------------------------------------------------------------------------
\* Methods of Ant::Channel

\* Slip: on_event registers the channel it is called on.
OnEventRegisters(o) ==
    /\ Calls(o)
    /\ callback' = callback \cup {o}
    /\ evfn' = [evfn EXCEPT ![num[o]] = o]
    /\ registry' = [registry EXCEPT ![num[o]] = o]
    /\ UNCHANGED <<state, num, buffer, held, hw, call, doing>>

OnEvent(o) ==
    /\ Calls(o)
    /\ callback' = callback \cup {o}
    /\ evfn' = [evfn EXCEPT ![num[o]] = o]
    /\ UNCHANGED <<state, num, buffer, registry, held, hw, call, doing>>

Open(o) ==
    /\ Calls(o)
    /\ \E said \in BOOLEAN : Command(num[o], {"assigned"}, "open", said)
    /\ UNCHANGED <<objectVars, registry, held, evfn, call, doing>>

\* Slip: the channel leaves the registry first, and is put back on failure.
CloseOrPutBack(t, o) ==
    /\ Calls(o) /\ doing[t] = NULL
    /\ \E said \in BOOLEAN :
         /\ Command(num[o], {"open"}, "assigned", said)
         /\ registry' = [registry EXCEPT ![num[o]] = IF said THEN NULL ELSE o]
    /\ UNCHANGED <<objectVars, held, evfn, call, doing>>

\* Up to the second log message. When the library says it failed, the
\* RuntimeError leaves the registry alone.
CloseDevice(t, o) ==
    /\ Calls(o) /\ doing[t] = NULL
    /\ \E said \in BOOLEAN :
         /\ Command(num[o], {"open"}, "assigned", said)
         /\ doing' = [doing EXCEPT ![t] = IF said THEN o ELSE NULL]
    /\ UNCHANGED <<objectVars, registry, held, evfn, call>>

\* rb_hash_delete goes by the number, whoever has it by now.
CloseForgets(t) ==
    /\ doing[t] \in Objects
    /\ registry' = [registry EXCEPT ![num[doing[t]]] = NULL]
    /\ doing' = [doing EXCEPT ![t] = NULL]
    /\ UNCHANGED <<objectVars, held, hw, evfn, call>>

-----------------------------------------------------------------------------
\* Ant.reset and Ant.close

NoEntry == registry' = [k \in Entries |-> NULL]

\* Every channel of the device is unassigned, or nothing happens to them.
AllUnassignedOrKept == hw' \in {hw, [n \in Channels |-> "unassigned"]}

\* ANT_ResetSystem may fail, which reset does not look at.
Reset ==
    /\ AllUnassignedOrKept
    /\ NoEntry
    /\ UNCHANGED <<objectVars, held, evfn, call, doing>>

\* Whether the device keeps its channels and the library its event functions, until
\* the next init, is not for this code to say.
CloseLibrary ==
    /\ AllUnassignedOrKept
    /\ evfn' \in {evfn, [n \in Channels |-> NULL]}
    /\ NoEntry
    /\ UNCHANGED <<objectVars, held, call, doing>>

-----------------------------------------------------------------------------
\* The program's references and the collector

\* Ant::Channel.registry and the receiver of a block hand out references again.
Retain(o) ==
    /\ Reachable(o)
    /\ held' = held \cup {o}
    /\ UNCHANGED <<objectVars, registry, hw, evfn, call, doing>>

Release(o) ==
    /\ Calls(o)
    /\ held' = held \ {o}
    /\ UNCHANGED <<objectVars, registry, hw, evfn, call, doing>>

Collect(o) ==
    /\ state[o] # "none"
    /\ ~Reachable(o)
    /\ state' = [state EXCEPT ![o] = "none"]
    /\ callback' = callback \ {o}
    /\ buffer' = [buffer EXCEPT ![o] = Zeroed]
    /\ num' = [num EXCEPT ![o] = 0]
    /\ UNCHANGED <<registry, held, call, doing>>

\* Slip: the channel is unassigned and its event function left in place.
FreeKeepingFunction(o) ==
    /\ Collect(o)
    /\ \E said \in BOOLEAN : Command(num[o], {"assigned"}, "unassigned", said)
    /\ UNCHANGED evfn

\* rant_channel_free, at any allocation: it goes by the number, whoever has that
\* number by now. The device refuses to unassign an open channel.
Free(o) ==
    /\ Collect(o)
    /\ \E said \in BOOLEAN : Command(num[o], {"assigned"}, "unassigned", said)
    /\ evfn' = [evfn EXCEPT ![num[o]] = NULL]

-----------------------------------------------------------------------------
\* Events

\* The device closes a channel by itself, after a search timeout for one.
DeviceCloses(n) ==
    /\ hw[n] = "open"
    /\ hw' = [hw EXCEPT ![n] = "assigned"]
    /\ UNCHANGED <<objectVars, registry, held, evfn, call, doing>>

\* libant writes the message, short or long, to the buffer it knows and calls back.
DeviceEvent(n) ==
    /\ call = NULL
    /\ evfn[n] # NULL
    /\ \E written \in {{"front"}, Parts} :
         buffer' = [buffer EXCEPT ![evfn[n]] =
                        [p \in Parts |-> IF p \in written THEN "new" ELSE @[p]]]
    /\ call' = [chan |-> n, into |-> evfn[n], handler |-> NULL]
    /\ UNCHANGED <<state, num, callback, registry, held, hw, evfn, doing>>

\* The call is over; new data in a buffer was not given to its channel's block.
Ends(b) ==
    /\ buffer' = [o \in Objects |->
                    [p \in Parts |-> IF b[o][p] = "new" THEN "missed" ELSE b[o][p]]]
    /\ call' = NULL
    /\ UNCHANGED <<state, num, callback, registry, held, hw, evfn, doing>>

Looking == call # NULL /\ call.handler = NULL
Handling == call # NULL /\ call.handler # NULL

\* rant_channel_call_event_callback up to the call of the block: rb_hash_fetch
\* raises a KeyError when nothing has the number; without a block the buffer of
\* the channel that has it is cleared.
NoChannel ==
    /\ Looking /\ registry[call.chan] = NULL
    /\ Ends(buffer)

NoBlock ==
    /\ Looking /\ registry[call.chan] \in Objects \ callback
    /\ Ends([buffer EXCEPT ![registry[call.chan]] = Zeroed])

CallBlock ==
    /\ Looking /\ registry[call.chan] \in callback
    /\ call' = [call EXCEPT !.handler = registry[call.chan]]
    /\ UNCHANGED <<objectVars, registry, held, hw, evfn, doing>>

\* The program's own block, or handle_event_callback for an event whose handler
\* logs it, or parses and logs it.
BlockReturns ==
    /\ Handling
    /\ Ends([buffer EXCEPT ![call.handler] = Zeroed])

\* The program's own block, handle_event_callback for an event that HANDLER_METHODS
\* does not have, or on_event_tx for a channel whose inspect raises. The exception
\* passes by the MEMZERO at the end.
BlockRaises ==
    /\ Handling
    /\ Ends([buffer EXCEPT ![call.handler] =
                [p \in Parts |-> IF @[p] = "zero" THEN "zero" ELSE "left"]])

\* on_event_tx looks the number up again: a NoMethodError when it finds nil.
OnEventTxRaises ==
    /\ Handling /\ registry[call.chan] = NULL
    /\ Ends(buffer)

\* Otherwise it sends on the channel that has the number by now.
OnEventTx ==
    /\ Handling /\ registry[call.chan] # NULL
    /\ Ends([buffer EXCEPT ![call.handler] = Zeroed])

-----------------------------------------------------------------------------

Init ==
    /\ state = [o \in Objects |-> "none"]
    /\ num = [o \in Objects |-> 0]
    /\ callback = {}
    /\ buffer = [o \in Objects |-> Zeroed]
    /\ registry = [k \in Entries |-> NULL]
    /\ held = {}
    /\ hw = [n \in Channels |-> "unassigned"]
    /\ evfn = [n \in Channels |-> NULL]
    /\ call = NULL
    /\ doing = [t \in Threads |-> NULL]

Method(o) == OnEvent(o) \/ Open(o) \/ Retain(o) \/ Release(o)

\* What another thread can come in the middle of.
InThread(t) ==
    \/ \E k \in Keys : AssignDevice(t, k)
    \/ \E o \in Objects : NewInstance(t, o) \/ NewInstanceRaises(t, o) \/ CloseDevice(t, o)
    \/ CloseForgets(t)

Event ==
    \/ \E n \in Channels : DeviceCloses(n) \/ DeviceEvent(n)
    \/ NoChannel \/ NoBlock \/ CallBlock
    \/ BlockReturns \/ BlockRaises \/ OnEventTx \/ OnEventTxRaises

\* What happens from one reset or connection to the next.
WithinSession ==
    \/ \E t \in Threads : InThread(t)
    \/ \E o \in Objects : Method(o) \/ Free(o)
    \/ Event

Next == WithinSession \/ Reset \/ CloseLibrary

Spec == Init /\ [][Next]_vars

-----------------------------------------------------------------------------
\* Properties

Calling == [chan : Channels, into : Objects, handler : Objects \cup {NULL}]

TypeOK ==
    /\ state \in [Objects -> {"none", "raw", "live"}]
    /\ num \in [Objects -> Channels]
    /\ callback \subseteq Objects
    /\ buffer \in [Objects -> [Parts -> Contents]]
    /\ registry \in [Entries -> Objects \cup {NULL}]
    /\ held \subseteq Objects
    /\ hw \in [Channels -> {"unassigned", "assigned", "open"}]
    /\ evfn \in [Channels -> Objects \cup {NULL}]
    /\ call \in Calling \cup {NULL}
    /\ doing \in [Threads -> Keys \cup Objects \cup {NULL}]

\* The buffer pointer libant writes through is never into a freed object, though
\* neither close nor reset takes it back: rant_channel_free does, and no other
\* object's number can stand in the way (on_event, rant_channel_free).
NoDanglingBuffer ==
    \A n \in Channels : evfn[n] # NULL =>
        /\ state[evfn[n]] = "live"
        /\ num[evfn[n]] = n

\* What the registry holds under a key is an initialized channel of that number,
\* and of no other key: looking an event up finds a channel of the number it
\* came for (initialize, close, rant_channel_call_event_callback).
RegistryIsSound ==
    \A k \in Entries : registry[k] # NULL =>
        /\ state[registry[k]] = "live"
        /\ num[registry[k]] = ChannelNum(k)
        /\ \A j \in Entries : registry[j] = registry[k] => j = k

\* The data of an event for which no block was called, or whose handler no longer
\* found the channel, is never given to a block later, not even as the tail of a
\* shorter message, though nothing clears it: it is in the buffer of a channel that
\* no lookup will find again (rant_channel_call_event_callback, on_event_tx).
MissedStaysMissed ==
    \A n \in Channels, p \in Parts :
        registry[n] # NULL => buffer[registry[n]][p] # "missed"

\* closed?
Closed(o) == registry[num[o]] # o

\* A channel that answers true to closed? never answers false again, in
\* whatever order channels of its number are assigned, closed, reset and freed.
ClosedForGood ==
    [][\A o \in Objects :
        state[o] = "live" /\ state'[o] = "live" /\ Closed(o) => Closed(o)']_vars

\* ant_ext.c:351, "Channel assignment reserves a channel number": while the
\* channel that was assigned is registered, the number stays assigned to it.
AssignmentReserves ==
    \A k \in Keys : registry[k] # NULL => hw[ChannelNum(k)] # "unassigned"

=============================================================================
