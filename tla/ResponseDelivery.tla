-------------------------- MODULE ResponseDelivery --------------------------
(***************************************************************************)
(* How the device's responses get to Ruby: ext/ant_ext/ant_ext.c, from the  *)
(* requests to on_response, and lib/ant/response_callbacks.rb, the handlers *)
(* that Ant.set_response_handler installs.                                  *)
(*                                                                          *)
(* libant's thread writes each response to one static buffer, calls         *)
(* rant_on_response_callback, and so rant_callback, with two bytes on its   *)
(* stack, and reads the next response when that returns. The buffer is read *)
(* by another thread, some time later, and the response block runs in that  *)
(* thread without a lock on anything. What rant_callback does in between is *)
(* CallbackService, which CallbackQueue implements; its phases are those of *)
(* a response here.                                                         *)
(***************************************************************************)
EXTENDS Naturals, Sequences

CONSTANTS
    Calls,       \* calls of rant_callback that the stack of libant's thread has room for
    Channels,    \* channel numbers
    Requests,    \* what the program asks the device for: members of Answers
    Commands,    \* the commands it gives: members of Acknowledged
    MaxPending,  \* bound: responses that the device has sent and libant has not read
    MaxSent,     \* bound: responses in all
    NULL         \* no message, no block

\* The messages that a handler stores in an instance variable of Ant, and the
\* commands whose response events have a method in HANDLER_METHODS: one that
\* reports the status, on_config_adv_burst_id, or one that is not defined.
Answers == {"capabilities", "version", "serial_num", "adv_burst"}
Acknowledged == {"setting", "adv_burst", "adv_burst_data"}

\* A response: its number, its message id, the command it acknowledges if it is a
\* response event (MESG_RESPONSE_EVENT_ID), its channel byte and whether its
\* status is RESPONSE_NO_ERROR.
Messages == [num : 1..MaxSent, id : Answers \cup {"response_event", "unknown"},
             about : Acknowledged \cup {NULL}, chan : Channels \cup {0}, ok : BOOLEAN]

ASSUME ResponseDeliveryAssumption ==
    /\ Requests \subseteq Answers
    /\ Commands \subseteq Acknowledged
    /\ MaxPending \in Nat /\ MaxSent \in Nat
    /\ NULL \notin Messages /\ NULL \notin Answers

VARIABLES
    sent,       \* the number of responses the device has sent
    inbox,      \* those that libant has not read
    phase,      \* phase[k], verdict[k]: see CallbackService
    verdict,
    message,    \* message[k]: the response that call k is for; of it, the id and the
                \* channel are in the call's struct on_response_call
    buffer,     \* pucResponseBuffer
    block,      \* @response_callback: "handlers", the program's "own", or NULL
    assigned,   \* libant has been given rant_on_response_callback
    seen,       \* seen[k]: the block that call k's thread runs and the data it has
    stored,     \* stored[a]: the message whose data is in Ant's variable for a
    registered, \* the channels in Ant::Channel.registry
    tuned,      \* the registered channels with a frequency
    numbered    \* the registered channels that assign_channel gave a network number

serviceVars == <<phase, verdict>>
deviceVars == <<sent, inbox>>
channelVars == <<registered, tuned, numbered>>
vars == <<deviceVars, serviceVars, message, buffer, block, assigned, seen, stored,
          channelVars>>

Service == INSTANCE CallbackService WITH Callers <- Calls

Nothing == [block |-> NULL, data |-> NULL]

-----------------------------------------------------------------------------
\* The program and the device

\* (Operators whose comment begins with "Slip:" are a definition below them with a
\* bug that a change could bring in; no specification uses them.)

Sends(id, about, chan, ok) ==
    /\ sent < MaxSent /\ Len(inbox) < MaxPending
    /\ sent' = sent + 1
    /\ inbox' = Append(inbox, [num |-> sent + 1, id |-> id, about |-> about,
                               chan |-> chan, ok |-> ok])

\* Ant.request_capabilities and the other requests, when the device answers.
Request(a) ==
    /\ Sends(a, NULL, 0, TRUE)
    /\ UNCHANGED <<serviceVars, message, buffer, block, assigned, seen, stored, channelVars>>

\* A command, and the response event it gets, whose status only log_response_event
\* looks at. That of configure_advanced_burst has no channel: the byte is 0.
Command(c, n) ==
    /\ \E ok \in {TRUE, c # "setting"} : Sends("response_event", c, IF c = "adv_burst" THEN 0 ELSE n, ok)
    /\ UNCHANGED <<serviceVars, message, buffer, block, assigned, seen, stored, channelVars>>

\* A message nobody asked for, with an id that HANDLER_METHODS does not have.
Unasked ==
    /\ Sends("unknown", NULL, 0, TRUE)
    /\ UNCHANGED <<serviceVars, message, buffer, block, assigned, seen, stored, channelVars>>

\* Ant.on_response; Ant.set_response_handler gives it the handlers.
OnResponse(b) ==
    /\ block' = b
    /\ assigned' = TRUE
    /\ UNCHANGED <<deviceVars, serviceVars, message, buffer, seen, stored, channelVars>>

\* assign_channel, whose network number may be left out; set_channel_rf_freq; close,
\* or reset when there is one channel.
Register(n) ==
    /\ registered' = registered \cup {n}
    /\ tuned' = tuned \ {n}
    /\ numbered' \in {numbered \cup {n}, numbered \ {n}}
    /\ UNCHANGED <<deviceVars, serviceVars, message, buffer, block, assigned, seen, stored>>

Tune(n) ==
    /\ n \in registered
    /\ tuned' = tuned \cup {n}
    /\ UNCHANGED <<deviceVars, serviceVars, message, buffer, block, assigned, seen, stored,
                   registered, numbered>>

\* Slip: the frequency is remembered by number.
UnregisterOnly(n) ==
    /\ registered' = registered \ {n}
    /\ UNCHANGED <<deviceVars, serviceVars, message, buffer, block, assigned, seen, stored,
                   tuned, numbered>>

Unregister(n) ==
    /\ registered' = registered \ {n}
    /\ tuned' = tuned \ {n}
    /\ numbered' = numbered \ {n}
    /\ UNCHANGED <<deviceVars, serviceVars, message, buffer, block, assigned, seen, stored>>

-----------------------------------------------------------------------------
\* libant's thread

\* Slip: a call returns before it is answered.
NeverHeldUp == FALSE

\* The thread is in rant_callback until its callback is handled.
HeldUp == \E k \in Calls : phase[k] # "idle"

Ignore ==
    /\ ~HeldUp /\ inbox # <<>> /\ ~assigned
    /\ inbox' = Tail(inbox)
    /\ UNCHANGED <<sent, serviceVars, message, buffer, block, assigned, seen, stored,
                   channelVars>>

\* The message is copied to the buffer and rant_on_response_callback is called.
Read(k) ==
    /\ ~HeldUp /\ inbox # <<>> /\ assigned
    /\ inbox' = Tail(inbox)
    /\ buffer' = Head(inbox)
    /\ message' = [message EXCEPT ![k] = Head(inbox)]
    /\ Service!Post(k)
    /\ UNCHANGED <<sent, block, assigned, seen, stored, channelVars>>

Return(k) ==
    /\ Service!Finish(k)
    /\ UNCHANGED <<deviceVars, message, buffer, block, assigned, seen, stored, channelVars>>

-----------------------------------------------------------------------------
\* rant_call_response_callback, in the thread that the dispatcher started

\* The block is looked up and the buffer is copied to a String.
Begin(k) ==
    /\ Service!Start(k)
    /\ seen' = [seen EXCEPT ![k] = [block |-> block, data |-> buffer]]
    /\ UNCHANGED <<deviceVars, message, buffer, block, assigned, stored, channelVars>>

\* Slip: a handler that stores keeps the first answer it got.
StoreOnce(a, m) == stored' = [stored EXCEPT ![a] = IF @ = NULL THEN m ELSE @]

\* The handler unpacks the data, whatever it is, to its instance variable.
Store(a, m) == stored' = [stored EXCEPT ![a] = m]

\* HANDLER_METHODS: the handler is that of the id in c, on the stack of the call;
\* on_response_event goes on to the one for the message id in the second byte of the
\* data m.
Subject(c, m) == IF c.id = "response_event" THEN m.about ELSE c.id

\* The handlers that raise: there is none for the message, or log_response_event
\* puts the inspect of a channel in its error message, which adds 2400 to the
\* frequency and formats the network number with %d.
Raises(c, m) ==
    \/ Subject(c, m) = "unknown"
    \/ Subject(c, m) = "setting" /\ ~m.ok /\ c.chan \in registered \ (tuned \cap numbered)

\* handle_response_callback: every handler that does not raise ends in a true
\* value, from the logger or instance_variable_set.
Handle(k, c, m) ==
    /\ verdict'[k] = IF Raises(c, m) THEN "false" ELSE "true"
    /\ IF Subject(c, m) \in Answers THEN Store(Subject(c, m), m) ELSE UNCHANGED stored

\* The block runs. Without one the result is nil; the program's own block may
\* return anything or raise.
Run(k) ==
    /\ Service!Decide(k)
    /\ LET s == seen[k] IN
         \/ s.block = NULL /\ verdict'[k] = "false" /\ UNCHANGED stored
         \/ s.block = "own" /\ UNCHANGED stored
         \/ s.block = "handlers" /\ Handle(k, message[k], s.data)
    /\ seen' = [seen EXCEPT ![k] = Nothing]
    /\ UNCHANGED <<deviceVars, message, buffer, block, assigned, channelVars>>

\* Slip: the caller is answered only if the block returned a true value.
AnswerIfTrue(k) ==
    /\ verdict[k] = "true"
    /\ Service!Answer(k)
    /\ UNCHANGED <<deviceVars, message, buffer, block, assigned, seen, stored, channelVars>>

Answer(k) ==
    /\ Service!Answer(k)
    /\ UNCHANGED <<deviceVars, message, buffer, block, assigned, seen, stored, channelVars>>

-----------------------------------------------------------------------------

Init ==
    /\ Service!Init
    /\ sent = 0
    /\ inbox = <<>>
    /\ message = [k \in Calls |-> NULL]
    /\ buffer = NULL
    /\ block = NULL
    /\ assigned = FALSE
    /\ seen = [k \in Calls |-> Nothing]
    /\ stored = [a \in Answers |-> NULL]
    /\ registered = {}
    /\ tuned = {}
    /\ numbered = {}

Program ==
    \/ \E a \in Requests : Request(a)
    \/ \E c \in Commands, n \in Channels : Command(c, n)
    \/ \E b \in {"handlers", "own"} : OnResponse(b)
    \/ \E n \in Channels : Register(n) \/ Tune(n) \/ Unregister(n)

Library == Ignore \/ \E k \in Calls : Read(k) \/ Return(k)

Dispatched == \E k \in Calls : Begin(k) \/ Run(k) \/ Answer(k)

Next == Program \/ Unasked \/ Library \/ Dispatched

Spec == Init /\ [][Next]_vars

(***************************************************************************)
(* libant's thread reads on; a call that is posted is begun and answered    *)
(* while the dispatcher lives (CallbackQueue: with one caller nothing can   *)
(* overtake it); blocks return. Nothing obliges the program or the device.  *)
(***************************************************************************)
FairSpec == Spec /\ WF_vars(Library) /\ WF_vars(Dispatched)

-----------------------------------------------------------------------------
\* Properties

TypeOK ==
    /\ sent \in 0..MaxSent
    /\ inbox \in Seq(Messages)
    /\ phase \in [Calls -> Service!Phases]
    /\ verdict \in [Calls -> {"none", "true", "false"}]
    /\ message \in [Calls -> Messages \cup {NULL}]
    /\ buffer \in Messages \cup {NULL}
    /\ block \in {"handlers", "own", NULL}
    /\ assigned \in BOOLEAN
    /\ seen \in [Calls -> [block : {"handlers", "own", NULL}, data : Messages \cup {NULL}]]
    /\ stored \in [Answers -> Messages \cup {NULL}]
    /\ registered \subseteq Channels
    /\ tuned \subseteq registered /\ numbered \subseteq registered

\* A block is given the data of the very response its call was made for, though
\* every response is written to the same buffer and the buffer is read by another
\* thread later (pucResponseBuffer, rant_call_response_callback).
BlockSeesItsMessage ==
    \A k \in Calls : phase[k] = "running" => seen[k].data = message[k]

\* What is in an instance variable of Ant is the latest answer handled: none is
\* replaced by an earlier one, whatever order the threads run in.
AnswersNeverGoBack ==
    [][\A a \in Answers : stored[a] # NULL => stored'[a].num >= stored[a].num]_vars

\* An instance variable of Ant holds data of an answer to the request for it, and
\* never what some other response has in the same bytes, with one exception: the
\* acknowledgement of configure_advanced_burst goes to on_config_adv_burst_id, which
\* takes it for the capabilities (on_response_event, handle_response_callback).
StoredByItsHandler ==
    \A a \in Answers : stored[a] # NULL =>
        \/ stored[a].id = a
        \/ a = "adv_burst" /\ stored[a].id = "response_event" /\ stored[a].about = a

\* A block that raises, or a missing block, never stops the flow of responses:
\* libant's thread is always freed to read the next one.
ResponsesFlow == (HeldUp \/ inbox # <<>>) ~> (~HeldUp /\ inbox = <<>>)

\* With the handlers installed and left alone, every answer the device sends comes
\* to Ant: its variable is set from it or from a later one.
AnswersArrive ==
    \A i \in 1..MaxSent, a \in Requests :
        (\E j \in DOMAIN inbox : inbox[j].num = i /\ inbox[j].id = a) /\ [](block = "handlers")
            ~> stored[a] # NULL /\ stored[a].num >= i

=============================================================================
