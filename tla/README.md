# Verification of ruby-ant-wireless

TLA+ models of `ruby-ant-wireless`, a Ruby extension around the ANT library
(libant): what its threads, its garbage-collected objects and the ANT device do to
each other, model-checked with TLC on small instances and proved with TLAPS for
instances of every size. Paths are relative to the repository's root.

## 1. The system

| Component | Source | State it keeps | Operations |
|---|---|---|---|
| Callback dispatch | `ext/ant_ext/callbacks.c`, `ant_ext.h` | the list `rant_callback_queue` under `rant_callback_mutex`/`_cond`; one `rant_callback_t` on the stack of each waiting thread; the dispatcher's `callback_waiting_t` | `rant_callback`, `callback_thread`, `wait_for_callback_signal`, `stop_waiting_for_callback_signal`, `handle_callback` |
| Channel registry and lifetime | `ext/ant_ext/channel.c`, `ant_ext.c`, `lib/ant/channel.rb` | `Ant::Channel.registry`; `rant_channel_t` (number, buffer, block) of each object; libant's event function table; the device's channels | alloc/initialize/mark/free, `on_event`, `open`, `close`, `closed?`, the event callback; `Ant.assign_channel`, `reset`, `close` |
| Channel transmission | `ext/ant_ext/channel.c` | none | `send_burst_transfer`, `send_acknowledged_data`, `send_broadcast_data`, `send_advanced_transfer` |
| Session and settings | `ext/ant_ext/ant_ext.c`, `channel.c` | libant's connection; the device's settings; what a channel remembers of its own | `init`, `close`, `reset`; network key, power, extended messages, advanced burst; the `set_` methods of a channel |
| Response delivery | `ext/ant_ext/ant_ext.c`, `lib/ant/response_callbacks.rb` | the static `pucResponseBuffer`, `@response_callback`, the answers stored in `Ant`'s instance variables | `on_response`, the response callback, `handle_response_callback`, the `on_` handlers |
| Event handlers | `lib/ant/channel/event_callbacks.rb` | none; they run while the event's data is in the channel's buffer | `handle_event_callback`, the `on_event_` handlers |
| Bit vectors, capabilities | `lib/ant/bitvector.rb`, `response_callbacks.rb` | the vector's Integer | `on`, `off`, `toggle`, `on?`, `[]=`, `each`; `on_capabilities` |
| Validation, burst options | `lib/ant.rb` | none | `validate_...`, `enable_advanced_burst` and its conversions |
| Constants, hex dump, logging, build | `message.c`, `antdefines.h`, `mixins.rb`, ... | none | |

How they interact. libant reads the device in a thread of its own. For a response
or a channel event it writes the message to a buffer it was given
(`ANT_AssignResponseFunction`, `ANT_AssignChannelEventFunction`) and calls a C
function, which puts a `rant_callback_t` on its stack, queues it and sleeps
(`rant_callback`). The Ruby thread `callback_dispatcher` pops it without the GVL
and starts a Ruby thread, which runs the Ruby side of the callback (looking up the
response block, or the channel in the registry), stores the verdict and wakes the
sleeper. Everything else is called by the Ruby program with the GVL held and calls
libant synchronously.

What is hard about it, and the properties that follow:

* *Callback dispatch*: three kinds of thread, two locks, a signal sent after an
  unlock, spurious wake-ups, interrupts that come at any point, data that lives on
  another thread's stack. No call is lost, answered twice, answered with another
  call's verdict or touched after it has returned; no sleeper misses its signal;
  the dispatcher stops when told to and the calls return.
* *Registry and lifetime*: four tables that name channels, changed by different
  operations, one of them run by the collector at any allocation; numbers that are
  truncated in one table and not in another. libant's pointers stay valid, the
  registry maps a number to the right object, `closed?` is stable, stale data is
  not delivered.
* *Response delivery*: one static buffer that is written by libant's thread and read
  by another, later; handlers that run without a lock and may raise; a dispatch on a
  byte of the message. A block sees the message its call was made for, an answer is
  never replaced by an older one, what is stored comes from a response its handler is
  for, and no block stops the flow.
* *Transmission, bit vectors, validation*: C strings where the data is binary,
  arithmetic at the width of C integers, exclusive ranges, an index where a mask is
  given. libant reads nothing but the data and its padding; a vector is a set of bits.
* *Session and settings*: Integers that are narrowed before or after they are
  checked, answers that come after their timeout, results nobody looks at, a reset
  that clears the device and the registry and then lets other threads run. The
  Integers that a registered channel remembers convert to what it last sent, and those
  in range are what it last sent; nothing out of range is sent; what a validator let
  pass is sent as it was given.

`PROJECT.json` lists the hazards line by line, with the properties that cover each
or the reason why none does.

## 2. Modules

```
CallbackService            what callbacks.c promises: post, start, decide, answer, finish
CallbackQueue              callbacks.c: callers, dispatcher, workers, interrupts
  CallbackQueue_Refinement   the mapping of CallbackQueue to CallbackService
    MCCallbackQueue            instances for TLC
    CallbackQueueProofs        theorems
ChannelLife                what channel.c promises: create, give, start, close, collect
ChannelRegistry            channel.c, assign/reset/close of ant_ext.c, event_callbacks.rb
  ChannelRegistry_Refinement the mapping of ChannelRegistry to ChannelLife
    MCChannelRegistry          instances for TLC
  ChannelRegistryProofs      theorems
    ChannelLifeProofs          the theorem that ChannelLife is implemented
DeviceSettings             the setters of channel.c and ant_ext.c, init/close/reset,
                           the validators of lib/ant.rb
  MCDeviceSettings           instances for TLC, and the claim of a comment
  DeviceSettingsProofs       theorems
ResponseStream             what responses promise: they come, are handled one at a time
                           and in order, and stored or dropped
ResponseDelivery           responses: ant_ext.c, response_callbacks.rb; takes the steps
                           of CallbackService (INSTANCE), which CallbackQueue implements
  ResponseDelivery_Refinement the mapping of ResponseDelivery to ResponseStream
    MCResponseDelivery         instances for TLC, and the claim of a comment
    ResponseDeliveryProofs     theorems
Transmission               the send_ methods of channel.c
  MCTransmission             instances for TLC, and the claim of a comment
  TransmissionProofs         theorems
BitSet                     a set of bits
BitVector                  bitvector.rb, shown to implement BitSet; on_capabilities
  MCBitVector                instances for TLC, and the claim of a comment
```

Some operators have a comment that begins with "Slip:". Each is a definition that
follows it with a bug that a change could bring in; no specification uses them. They
serve to try the properties: each property is violated when one of them takes the
place of the definition.

### CallbackQueue

| Variable | Code |
|---|---|
| `queue` | the list from `rant_callback_queue`, its head first |
| `pc[c]` | where thread `c` of libant is in `rant_callback`: `idle` (not in it), `signal` (after the unlock of line 83), `wait` (before the test of line 90), `asleep` (line 92), `done` (past the loop) |
| `handled[c]`, `rval[c]` | those fields of the `rant_callback_t` on `c`'s stack |
| `dpc` | where the dispatcher is in `callback_thread`: `loop` (line 196), `region` and `asleep` (in `wait_for_callback_signal` before the test of line 150, and in its `cond_wait`), `returned` (that function has returned, the GVL is not yet taken), `spawn` (line 203), `exited`, `dead` (unwound by an interrupt or by a ThreadError) |
| `waiting` | its `callback_waiting_t` |
| `killed` | an interrupt that will unwind the dispatcher is pending |
| `worker[w]` | a thread in `handle_callback`: before and after line 120, with its callback and what the function did |

Each critical section of the file takes one lock, takes no other in it, and blocks
only in `pthread_cond_wait`: each is one action that ends at the unlock or at the
`cond_wait`. The signal of line 86, which is outside the lock, is an action of its
own. A wake-up takes a waiter back to the test of its loop; `SpuriousWake` and
`SpuriousDispatcherWake` do so unasked.

Of the Ruby virtual machine the model takes what `rb_thread_call_without_gvl`
documents: a pending interrupt is delivered before the region is entered (the
unblocking function is registered in one step with the check that none is pending)
and again when the GVL is back; between them an interrupt calls the unblocking
function. `Thread#kill`, `Thread#raise` and the shutdown of the process leave
something pending that unwinds the thread; `Thread#wakeup` and `Thread#run` only
call the unblocking function. The constant `Faults` says which of these, and
whether a `ThreadError` of `rb_thread_create`, can happen. What kills a *worker*
is the outcome `raise`: `rb_protect` catches it, and the verdict is handed over.

The set `Workers` stands for the Ruby threads that can run at a time. The models
have as many as there are callers; `ThreadsBounded` shows that no more are needed,
so that the set restricts nothing.

The queue is last in, first out (the comment at line 40 says so): a call may be
overtaken for as long as new ones come. `CallsReturnInAPause` therefore promises
its return only once arrivals stop.

### ChannelRegistry

| Variable | Code |
|---|---|
| `state[o]` | an `Ant::Channel` in the Ruby heap: `none`, `raw` (allocated, `initialize` raised), `live` |
| `num[o]`, `callback`, `buffer[o]` | the fields of its `rant_channel_t`; of the buffer only where the contents of its two parts come from: the bytes a short message writes, and those behind them |
| `registry[k]` | `Ant::Channel.registry`; the keys are the Integers as the program gave them (`Keys`, negative ones included, as far as an `int` can hold them: `NUM2CHR` raises for others before anything is done) and the numbers they are truncated to (`Channels`) |
| `held` | the objects the program has references to |
| `hw[n]` | the device's channel `n` |
| `evfn[n]` | the object whose buffer was given to `ANT_AssignChannelEventFunction` |
| `call` | the event libant's thread is in `rant_callback` for |
| `doing[t]` | that thread `t` of the program is inside `assign_channel` (the key it was given), at the log call of line 396, or inside `close` (the object), at that of line 391 |

A C function called with the GVL held is one action as far as it runs no Ruby code.
Three do. `assign_channel` logs, and then allocates, after it has assigned the
channel on the device (`AssignDevice`, then `NewInstance` or `NewInstanceRaises`);
`close` logs between the device and the registry (`CloseDevice`, then
`CloseForgets`); and the block of `on_event` is Ruby code altogether (`CallBlock`,
then `BlockReturns`, `BlockRaises`, `OnEventTx` or `OnEventTxRaises`). The logger is
Ruby code with locks and I/O of its own: any other thread may run in all three
places, and the collector. libant has one thread that calls back, and
`rant_callback` keeps it until the event is handled, so there is one `call` at a
time: that it gets exactly one answer is what `CallbackQueue` shows.

The block may be the one of `set_event_handlers`. Of `event_callbacks.rb` the model
has what reaches the buffer and the registry: an id that `HANDLER_METHODS` lacks
raises, `on_event_tx` looks the channel up a second time and may find nil or another
one, everything else logs and returns. `inspect`, which `on_event_tx` logs, raises
for a channel without a frequency or a network number, as in `ResponseDelivery`. An
exception passes by the `MEMZERO` at the end of `rant_channel_call_event_callback`
and leaves the message in the buffer; so does an event that finds no channel.
`MissedStaysMissed` speaks of both parts of the buffer, so that it excludes the tail
of a missed message behind a later, shorter one.

With `Reliable = FALSE` a command to the device may be refused or lost and the
library may report success of a command that failed and failure of one that took
effect (an answer that came after the timeout). With `Reliable = TRUE` it reports
what the device did. The result of `ANT_ResetSystem` is ignored, so that `Reset` and
`CloseLibrary` leave it open whether the device's channels are unassigned; and
`CloseLibrary` whether libant forgets its event functions. The collector finds what the program, the registry and the stacks of
`close` and of a running block refer to; that `channel` stays on that stack during
the block is the conservative scan's doing, not the source's.

`ChannelLife` is the same without numbers, hash, function table, device and threads:
an object is registered once, when it is made, may be closed by others and stays so,
a block is started only for a registered one, and an object goes only when it is
closed, its block does not run and libant can no longer write to its buffer. The
mapping takes an object for registered when any key leads to it, for `writable` when
any entry of libant's function table does, and for `running` when it is the
`handler` of the call.

### DeviceSettings

| Variable | Code |
|---|---|
| `setting` | which of the nine settings the behaviour is about; it never changes |
| `connection` | the USB device number that `ANT_Init` was given, or NULL |
| `told` | what was last sent for that setting: the Integers `given`, the `value` in libant's parameters, the object it was sent by, and whether it is `sure` that the device has it and nothing newer |
| `made`, `recorded[o]` | the `Ant::Channel` objects of one channel number and their instance variables (`@device_number` and the like, `@rf_frequency`, `@agility_frequencies`) |
| `registered` | `Ant::Channel.registry` for that number |
| `since` | the microseconds since the last reset, as far as it matters: 0, `Pause` (what `reset` waits) or `Settle` (what its comment asks for) |
| `doing[t]` | thread `t` is inside `assign_channel` at its log call, or in the pause of `reset` |

The settings do not touch each other, nor do channel numbers: a behaviour follows
one setting of one number, for which TLC and the proofs take every choice. A value
is the tuple of a setter's arguments; `Fields` says how each is converted
(`NUM2CHR`, `NUM2USHORT`), `OnWire` what is narrowed once more by libant's
prototype, `Refused` what the setter checks, and always after the conversion.
A call that raises over its arguments changes nothing and is no action (`FitsInt` is
what a `NUM2CHR` takes; TLC's own integers go no further, so that only the proofs have
Integers beyond it). `Valid` is what `lib/ant.rb` lets pass, with its exclusive ranges.

libant is external. `Ask` is a function with a response time: it may do as it says,
fail, or fail and have done it, the answer being late. `Send` is one without, whose
result the setter ignores, logs or returns: the command may be lost, and then
nothing is `sure`. Not connected, nothing is sent. `InitLibrary` leaves it open
whether the device has kept its settings. A setting made during another thread's
reset, while `reset` pauses, is a step like any other.

`ChannelRegistry` has several numbers, the truncation of the key and the collector;
here there are several objects of one number, one of them registered, and what they
remember. A setter that records keeps the program's Integers and sends what they were
converted to. `RegisteredRemembers` says of the two what the code can keep: that the
one converts to the other, and that they are the same when the Integers are in the
range that the documentation or the validator of the setting gives (`InRange`).
`set_frequency_agility( 256, 0, 380 )` sends 0, 0 and 124 and records what it was given.

### ResponseDelivery

| Variable | Code |
|---|---|
| `sent`, `inbox` | what the device has sent, and what libant has not read of it |
| `phase[k]`, `verdict[k]` | call `k` of `rant_callback` (CallbackService): `idle`, `posted`, `running`, `decided`, `answered` |
| `message[k]` | the response that call `k` was made for. Its id and channel are in the `struct on_response_call` on the stack, from where the dispatch takes them; the rest is no variable of the code, only the properties' memory |
| `buffer` | `pucResponseBuffer` |
| `block`, `assigned` | `@response_callback`; whether libant was given `rant_on_response_callback` |
| `seen[k]` | what the worker of call `k` has on its stack: the block it looked up and the String it copied from the buffer |
| `stored[a]` | `@capabilities`, `@hardware_version`, `@serial_num`, `@advanced_burst_capabilities` of `Ant` |
| `registered`, `tuned`, `numbered` | `Ant::Channel.registry` as `log_response_event` sees it, and the channels in it with an `rf_frequency` and with a `network_number`, which `assign_channel` may be given or not |

libant has one thread that reads and calls back: `HeldUp` says that it is inside
`rant_callback`, and that is all that protects the one buffer. The set `Calls` has
more than one element in `response_flow` although one would do, so that a thread
that was not held up would have a second call to make. A message is its number, its
id and, of a response event, the command it acknowledges, the channel and whether
the status is zero; what an answer says is not modelled, only whose it is. `Begin`
is `rant_call_response_callback` to the call of the block, `Run` the block; between
the two, other threads change the block, the registry and the frequency. `Handle`
dispatches on the id and the channel of the call, and of a response event on the
second byte of the data, which comes from the buffer. A handler that raises leaves
the verdict false and what is stored as it was; `Raises` are an id without a handler,
and an error response for a registered channel whose `inspect` raises, since it has no
frequency to add 2400 to or no network number for its `%d`. (That error is then not
logged, against the comment at `response_callbacks.rb:104`.)

`StoredByItsHandler` holds of every command: a variable of `Ant` holds an answer of its
kind or, for the advanced burst capabilities only, the acknowledgement of
`configure_advanced_burst`. That the second is there at all contradicts the
documentation; `response_burst` shows it.

`ResponseStream` is the same without buffer, call, thread and block: responses come,
each is taken when the one before it has been dealt with, in the order they were
sent, or passed over while nobody has asked for them, and the one being dealt with
may be stored under the name of what it is or acknowledges. In the mapping the
`current` response is the `message` of the call whose block has not returned; the
step that decides a call is the one that keeps or drops its response. That what is
stored comes from the one shared buffer, read by another thread and later, is what
has to be shown.

### Transmission

| Variable | Code |
|---|---|
| `data` | the String of the last call |
| `copy` | all of `data_s`, or of `aucTempBuffer` |
| `count` | `usNumDataPackets`; 1 for a single message |
| `result` | what the method did |

Each method is one action: it holds the GVL, and nothing it calls changes what it
works on. `Strncpy`, `Padded` and `Packets` are the arithmetic; `CountSpan` is the
number of values of an `unsigned short`, so that the wrap can be met in a small
instance and the proofs do not depend on its value. The packets per message of the
advanced transfer are handed to libant and leave no trace here.

### BitVector

`bv` is `@bv`. The operators are those of Integer, with the bitwise ones of the
community modules; `Width` bounds the bits in use and is the width of a byte of the
capabilities message. `BitSet` is the abstract vector, and the refinement mapping is
`{b : on?(b)}`. `Reported` is what `on_capabilities` finds in a byte.

## 3. Runs

| Run | Instance | Shows |
|---|---|---|
| `callback_safety` | 3 callers, 3 workers, kills and thread errors, symmetric | no lost, doubled or dangling callback, no lost signal, and that `CallbackQueue` implements `CallbackService` |
| `callback_interrupted` | 2 and 2, every interrupt, fair | the dispatcher stops when it is told to, served calls return all the same, and once arrivals pause every call returns if nothing stopped the dispatcher |
| `registry_safety` | 2 objects, 2 threads, numbers 0, 256 and 65537, unreliable commands, symmetric; deadlock checked | pointers, registry, stale data and `closed?`, and that `ChannelRegistry` implements `ChannelLife` |
| `registry_reserve` | 2 objects, number 0, reliable, resets only between the program's other calls (`ApartSpec`) | refutes "reserves a channel number", `ant_ext.c:351` |
| `response_flow` | 3 responses, 2 pending, 2 calls, 1 channel, two requests and two commands, `configure_advanced_burst` among them, fair; deadlock checked | each block sees its message, answers never go back and are stored by their own handlers, `ResponseDelivery` implements `ResponseStream`, the flow never stops, with the handlers installed every answer arrives |
| `response_burst` | 1 call, one request and one command | refutes "stores it at Ant.advanced_burst_capabilities", `ant_ext.c:616` |
| `settings_safety` | 2 objects, 2 threads, for each setting two to seven argument tuples, device numbers 0, 256 and -1, timeouts 0 and 10, symmetric; deadlock checked | memory against device, ranges, exact conversion |
| `session_reset` | 1 object, 1 thread | refutes "the application should wait 500ms", `ant_ext.c:287` |
| `transmission_send` | 0 to 36 bytes, zero bytes, a count of 2 bits; deadlock checked | no read behind the copy, no stale byte, text sent whole |
| `transmission_binary` | 0 to 8 bytes | refutes "Send the given data", `channel.c:508` |
| `bitvector_bits` | every byte; deadlock checked | the vector is a set of bits, `each` yields it |
| `bitvector_capabilities` | every byte | refutes the reading of the capabilities, `ant_ext.c:566` |

Why the bounds are enough to see what matters. Three callers are a queue with a
first, a middle and a last; overtaking, a cut list or a doubled head need two. Two
objects are an old and a new channel of one number, which every conflict between
the tables needs; two threads are one inside `assign_channel` or `close` and one
that comes in between; 256 collides with 0 in the device and not in the registry,
65537 is refused by `initialize` after the device has assigned its channel 1. (The
theorems of section 4 have no such bounds.) The arguments of the settings
(`Arguments`) are the first and the last valid value, their neighbours, and
Integers that come into range, or leave it, only by the conversion: 256 and -1 for a
byte, 65536, -65536 and -1 for a short. Three
responses (`MaxSent`) are an answer, another answer to the same request and
something between or behind them; two pending (`MaxPending`) are one that libant can
read while it should be held up and one behind it. 36 bytes (`MaxLength`) are four
and a half packets where four wrap the count; the places of the zero byte (`ZeroAt`)
are the ends of a packet and its inside. `CHECK_DEADLOCK FALSE` stands where the
dispatcher may be killed: every caller may then be blocked for good, which is what
the code does.

`registry_reserve` takes the steps of `ApartSpec`, in which the program resets and
closes the library while none of its threads is inside `assign_channel` or `close`. A
reset in between breaks the property too, without the collector; the run is about the
collector, and `ReservesOtherwise` (section 4) says that there is no third cause.

`callback_safety` has no `"wakeup"` among its faults: `waiting.callback` is assigned
behind the `&&` of `callbacks.c:150` and nothing resets it, so after a
`Thread#wakeup` of the dispatcher, which sets `abort` without unwinding it, line 206
starts a second thread for the callback of an earlier round, whose caller may have
left. (The comment at line 202 expects NULL there.) `callback_interrupted` has it.

Fairness. A thread that can run is run by the operating system, and a Ruby thread
by the Ruby scheduler: weak fairness of every step of callers, dispatcher and
workers, and in `ResponseDelivery` of libant's thread and of the threads that the
dispatcher starts. Weak fairness of `Run` says that callback functions return. That
a posted call is begun at all is what `CallsReturnInAPause` shows of the queue: with
libant's one thread held up, nothing overtakes it. There is no fairness on `Push`,
on interrupts, on failures and on spurious wake-ups, nor on the program and the
device, which nothing obliges to act.

What the violated claims show:

* `AssignmentReserves`. Assign, reset, assign the same number: when the collector
  frees the first object, `rant_channel_free` unassigns the second one's channel on
  the device and clears its event function. (`close` of the first object does the
  like: it closes the second one's channel and deletes that one from the registry.)
* `AnswersAreGenuine`. The acknowledgement of `configure_advanced_burst` has channel 0;
  `on_response_event` hands it to `on_config_adv_burst_id`, for which 0 means
  "capabilities", and bytes of the acknowledgement are stored for them, also when the
  command has failed and when nobody has asked for the capabilities.
* `CommandsWait`. `tv_usec = 500` is half a millisecond; `reset` returns and the next
  command goes out while the device may still be restarting.
* `DataIsSent`. `strncpy` stops at the first zero byte of the data.
* `CapabilitiesAreRead`. `on?` takes a bit's number; the constants are masks, so that
  0x01 reads bit 1 and everything from 0x08 up reads a bit beyond the byte.

## 4. Proofs

Everything is proved for arbitrary sets of callers, workers, threads, calls, objects
and channel numbers, for any Integers as arguments, for any number of responses, for
Strings of any length and any width of the packet count, from
`CallbackQueueAssumption`, `ChannelRegistryAssumption`, `DeviceSettingsAssumption`,
`ResponseDeliveryAssumption` and `TransmissionAssumption` (typing facts about the
constants). A theorem that needs more states it as a hypothesis with a name; the
hypotheses are explained below the table.

| Theorem | States | Argument |
|---|---|---|
| `CallbackQueueProofs!TypeCorrect` | `[]TypeOK` | inductive as it stands |
| `NoWakeupIsLost`, `KilledNeverSleeps`, `NoReplyIsLost` | `[]NoLostWakeup`, `[]KilledIsAwake`, `[]NoLostReply` | `SignalInv`: the three are inductive together with "killed inside the region means abort is set" and "handled means rval is written" |
| `HandlersOwn`, `QueueIsLive`, `NoCallIsLost` | `[]HandlersOwnTheirCallback`, `[]QueuedAreWaiting`, `[]NoneLost`, under `OnlyKills` | `OwnerInv`: an unanswered callback is in one place only, the queue, the dispatcher's hand or one worker (`OneOwner`), and `abort` is set only in a dispatcher that is going to be unwound |
| `OwnershipUntilAbort` | the same three under every fault, as long as the dispatcher has not gone past line 206 with `abort` set (`NotBeyondAbort`) | `OneOwner` is kept by every step but one, the start of a thread with `abort` set (`SpawnsAfterAbort`), and after that step the state is beyond |
| `ThreadsSuffice` | `[]ThreadsBounded`, under `OnlyKills` and `SlotForEach` | with a callback in hand, `OneOwner` maps the busy workers one to one into the other callers: the pigeonhole principle |
| `ImplementsUnlessSpawnedLate` | `ImplementsService` of a behaviour under any faults that has no `SpawnsAfterAbort` step | `StepImplements`: with `OneOwner` each step but that one is a step of the service or leaves it alone; `PhaseTable` gives the phase of a call from where its callback is |
| `Implements` | `Spec => ImplementsService`, under `OnlyKills` | with `OwnerInv` no step is a `SpawnsAfterAbort` |
| `ChannelRegistryProofs!TypeCorrect` | `[]TypeOK` | inductive as it stands |
| `BufferPointersLive`, `RegistrySound` | `[]NoDanglingBuffer`, `[]RegistryIsSound` | `HeapInv`: the objects the program holds and those on a stack (of `close`, of a running block) are live, together with the two properties; freeing clears the entry of the object's own number, and no entry is under another number |
| `ClosedIsForGood` | `ClosedForGood` | only `initialize` writes an entry, and for its own new object |
| `MissedData` | `[]MissedStaysMissed` | `BufferInv`: fresh data is only in the buffer that libant calls back for, while the block runs only in that of the block's own channel or of a closed one, missed data only in a closed channel, and closed is for good; `EndsBuffer` is the step that ends a call |
| `ReservesUntilReset` | `[]AssignmentReserves` of a behaviour with neither reset nor close of the library, under `NothingFails` | `Reserved`: the number of every object, and of every thread between the assignment and the allocation, is assigned on the device, and to no other; so the collector unassigns a number that nobody else has |
| `ReservesOtherwise` | `[]AssignmentReserves` of a behaviour with resets, under `Reliable`, without `FreesAnothers` and `ResetsUnderway` steps | `AssignedInUse`: a number that is registered, or that a thread is assigning, is assigned on the device; a reset takes both away together unless a thread is in between |
| `CloseRemovesOwn` | `CloseSparesOthers` (what `close` removes from the registry is the channel it was called for), under `Reliable`, of a behaviour whose steps are `Orderly` | `UsedOnce` with `AssignedInUse`: of the registered keys, the threads that assign and those that close, no two have the same number, but for the key of the channel being closed |
| `ChannelLifeProofs!Implements` | `Spec => ImplementsLife` | `StepImplementsLife`: with `HeapInv` each step is a step of `ChannelLife` or leaves it alone. `RegistrySound` makes a replaced or deleted entry close one object; `Reachable` is what keeps the collector from a registered or running one |
| `ResponseDeliveryProofs!TypeCorrect` | `[]TypeOK` | inductive as it stands |
| `BlocksSeeTheirMessages` | `[]BlockSeesItsMessage` | `OneCall`: at most one call has not returned, and until it has the buffer holds its message, and the block that runs was given the buffer's |
| `AnswersStayNew` | `AnswersNeverGoBack` | `Ordered`: the numbers of the messages grow from what is stored through the buffer to the inbox, and along the inbox; that a block stores what is in the buffer is `OneCall` |
| `StoredOwn` | `[]StoredByItsHandler`, of any requests and commands | the id in the call and the data from the buffer are those of one message (`OneCall`), so that the handler chosen by the one stores the other |
| `ResponseDeliveryProofs!Implements` | `Spec => ImplementsStream` | `StepImplementsStream`: with `OneCall` each step is a step of `ResponseStream` or leaves it alone; `CurrentTable` says which response is being dealt with before and after it, in place of the `CHOOSE` of the mapping |
| `DeviceSettingsProofs!TypeCorrect` | `[]TypeOK` | inductive as it stands; it contains that what was sent was accepted, so that `Legal` and `Exact` follow from it |
| `Remembers` | `[]RegisteredRemembers` | `RemembersInv`: `RemembersGiven` (what the channel in the registry records are the arguments of what was sent last) together with `NeverSent`, that while libant is not connected what was sent last is not from that channel (such a channel may record a value that was never sent). That valid arguments are their own remainders is `Exact` for an id and `FrequenciesExact` for frequencies |
| `LongerPauseSuffices` | `EarlyOnlyInPause` (a command that goes out in the time after a reset does so while a thread is in the pause of `reset`), of a behaviour without `ReturnsEarly` steps | `SettledOrPausing`: until the time is over, some thread is in the pause; the last of several resets counts |
| `Legal`, `Exact` | `[]LegalOnly`, `[]ValidIsExact` | the arithmetic of the conversions: what is accepted is in range after them, and a valid Integer is its own remainder |
| `TransmissionProofs!TypeCorrect`, `InsideTheCopy`, `OnlyTheData`, `TextWhole` | `[]TypeOK`, `[]ReadsInside`, `[]NothingStale`, `[]TextIsSent` | `Sent`, the four together, holds after each call whatever was there before: `PacketsCover` is the arithmetic of the count, wrapped or not, `StrncpyWrites` and `PaddedWrites` say what is in the copy |

The hypotheses.

* `OnlyKills`: nobody calls `Thread#wakeup` or `Thread#run` on the dispatcher. With
  it among the faults the three ownership properties fail (section 3);
  `OwnershipUntilAbort` says where: nothing is lost or shared before the dispatcher
  goes on with `abort` set.
* `SlotForEach`: finite sets, and no fewer workers than callers, as in the instances.
  The system has no such limit; `Workers` stands for threads that Ruby can start.
* `NothingFails`: commands do what the library says they did, and no number is one that
  neither sign of a short can hold (`NotShort`). Each is needed. Where an assignment may be lost, a number is registered
  that the device does not have assigned. And with 65537 the object whose
  `initialize` raised has channel 0 in it: its collection unassigns channel 0
  of the device, whichever object that belongs to. That resets are excluded is the
  finding of `registry_reserve`.
* `SpawnsAfterAbort` is the start of a thread at line 206 with `abort` set, which only
  a `Thread#wakeup` leads to: the one step of the file that is not a step of the
  service, whichever interrupts come.
* `Reliable`: the library reports what the device did.
* `FreesAnothers` is the collection of an object whose number another one is
  registered for, or a thread is assigning (`channel.c:44`); `ResetsUnderway` a reset,
  or close of the library, at the log call of `assign_channel` (`ant_ext.c:396`).
  Without either of the two exclusions TLC finds a behaviour in which the number is
  not reserved: they are the causes, and there is no third.
* `Orderly` excludes three steps: `FreesAnothersOrClosed`, the collection of an object
  whose number is registered, being assigned or being closed for another;
  `ResetsBetween`, a reset at a log call of `assign_channel` or `close`; and
  `ClosesUnregistered`, a `close` of an object that is not registered any more. Again
  TLC finds a violation when any one of them is permitted. Neither the truncation of
  numbers nor the number that `initialize` refuses is a fourth cause.
* `ReturnsEarly` is a return of `reset` less than `Settle` after the last reset of the
  device, what `session_reset` finds. The theorem is about the code with a pause of
  that length. It does not say that a command waits for another thread's reset.

TLC has checked `OneOwner`, `Reserved`, `AssignedInUse`, `UsedOnce`, `OneCall`
and `Ordered` as invariants of the instances before they were proved, and
`AssignmentReserves`, `CloseSparesOthers` and `EarlyOnlyInPause` on instances restricted to the steps that
the hypotheses permit.

Only model-checked: the liveness properties (they need fairness, of which the prover
has no account), and all of `BitVector`: its bitwise operators are recursive, and what
`each` computes for every vector is an induction over data; both are out of the
prover's reach.

## 5. What is not modelled, and what is not proved

Not modelled, and why:

* *Fields of received data* (`event_callbacks.rb:123-198`): parsed for the log only.
  (The channel of a burst packet is masked with 0x1F and shifted by 5, always 0; the
  flags of the flagged messages are tested as an Integer, always true.)
* *The GVL over `ANT_Close` and over commands with a timeout*: whether they wait for
  libant's thread while that one waits for Ruby is decided in libant, which is not
  in the repository.
* *`enable_advanced_burst`*: a table of three lengths and one flag. It passes its
  options Hash by position to `make_required_fields_config( **options )`, which Ruby
  3 refuses with an ArgumentError.
* *USB queries, `initialized?`, `log_directory=`*: reads, or libant's own files.
* *Memory of the transfers*: the copies are never freed; nothing reads them again.
* Tables of constants and the SDK's headers (`message.c`, `antmessage.h`,
  `antdefines.h` but for the capability masks, `types.h`, and the second half of
  `ant_ext.c`), the hex dump, the log's wording, the build files, the example
  program: no state and no control flow.

What is proved and what is not: every safety property of the passing runs, apart from
those of `BitVector`, is the subject of a theorem, and so are the three refinements of
an abstract specification by a component with threads. `AssignmentReserves`, which the
code violates, has two theorems that say when it holds, `CommandsWait` one that says
what it takes, and `AnswersAreGenuine` one, `StoredOwn`, that names its only exception. There is no abstract
specification of `DeviceSettings`: what it promises is what its three invariants say,
and with the callbacks, the numbers and the collector left out there is no detail to
hide. `BitSet` is implemented by `BitVector` as far as TLC has checked it, for every
byte.
