---------------------------- MODULE DeviceSettings ----------------------------
(***************************************************************************)
(* What the program sets on the ANT device: the set_ methods of             *)
(* ext/ant_ext/channel.c, the settings and the session of ant_ext.c, and    *)
(* the validators of lib/ant.rb. A setter converts Ruby's Integers to C     *)
(* integers that may be narrower, may check them, sends them, may wait for  *)
(* an answer, and may remember them in the Channel object.                  *)
(*                                                                          *)
(* The settings are independent of each other: a behaviour follows one of   *)
(* them, `setting`. So are channel numbers: the objects are those of one.   *)
(* A call that raises over its arguments changes nothing and is no action.  *)
(*                                                                          *)
(* A function runs with the GVL held. Other threads come in between where   *)
(* assign_channel logs and where reset pauses. set_frequency_agility, init, *)
(* use_extended_messages= and configure_advanced_burst log before they do   *)
(* anything: each is the one action after the log.                          *)
(***************************************************************************)
EXTENDS Integers, Sequences

CONSTANTS
    Objects,        \* the Ant::Channel objects of a channel number
    Threads,        \* those of the program that can be inside assign_channel or reset
    Given,          \* Given[s]: arguments that the program may give for setting s
    DeviceNumbers,  \* arguments of Ant.init
    Timeouts,       \* arguments `timeout`, 0 when left out
    NULL            \* no object, no value

-----------------------------------------------------------------------------
\* Conversions and checks

\* (Operators whose comment begins with "Slip:" are a definition below them with a
\* bug that a change could bring in; no specification uses them.)

\* Slip: the char that NUM2CHR makes is kept as one.
SignedByte(v) == ((v + 128) % 256) - 128

\* NUM2CHR, and a wider variable given for an unsigned char of libant.
Byte(v) == v % 256

\* Slip: NUM2SHORT, as in device_usb_info.
SignedShort(v) == ((v + 32768) % 65536) - 32768

\* NUM2USHORT, which raises for what neither sign of a short can hold.
Short(v) == v % 65536
NotShort(v) == v < -32768 \/ v > 65535

\* NUM2CHR raises for what an int cannot hold.
FitsInt(v) == -2147483647 - 1 <= v /\ v <= 2147483647

\* The C variables that the arguments of a setting are converted to. What is "same"
\* stands for the length of a network key and for a truth value, 0 or 1.
Fields ==
    [id        |-> <<"short", "byte", "byte">>,
     period    |-> <<"short">>,
     search    |-> <<"byte">>,
     frequency |-> <<"short">>,
     agility   |-> <<"byte", "byte", "byte">>,
     power     |-> <<"byte">>,
     key       |-> <<"short", "same">>,
     extended  |-> <<"same">>,
     burst     |-> <<"byte", "short", "byte">>]

Settings == DOMAIN Fields

\* Those that a Channel object remembers.
Remembered == {"id", "frequency", "agility"}

ASSUME DeviceSettingsAssumption ==
    /\ Given \in [Settings -> SUBSET Seq(Int)]
    /\ \A s \in Settings : NULL \notin Given[s]
    /\ \A s \in Settings : \A v \in Given[s] : DOMAIN v = DOMAIN Fields[s]
    /\ DeviceNumbers \subseteq Int
    /\ Timeouts \subseteq Nat
    /\ NULL \notin Objects /\ NULL \notin Int /\ NULL \notin {"assigning", "pausing"}

Raises(s, v) ==
    \E i \in DOMAIN v :
        \/ Fields[s][i] = "short" /\ NotShort(v[i])
        \/ Fields[s][i] = "byte" /\ ~FitsInt(v[i])

Converted(s, v) ==
    [i \in DOMAIN v |-> CASE Fields[s][i] = "byte" -> Byte(v[i])
                          [] Fields[s][i] = "short" -> Short(v[i])
                          [] OTHER -> v[i]]

\* ANT_SetChannelRFFreq and ANT_SetNetworkKey take the short as an unsigned char.
OnWire(s, c) == IF s \in {"frequency", "key"} THEN [c EXCEPT ![1] = Byte(@)] ELSE c

Value(s, v) == OnWire(s, Converted(s, v))

\* The checks come after the conversion.
Refused(s, c) ==
    \/ s \in {"frequency", "agility"} /\ \E i \in DOMAIN c : c[i] > 124
    \/ s = "power" /\ c[1] > 4
    \/ s = "key" /\ c[2] # 8

\* Slip: what is checked is what the program gave.
AcceptedAsGiven(s, v) == ~Raises(s, v) /\ ~Refused(s, v)

Accepted(s, v) == ~Raises(s, v) /\ ~Refused(s, Converted(s, v))

\* Ruby's 0...n, which n is not in.
Below(n, v) == 0 <= v /\ v < n

\* What the validate_ methods of lib/ant.rb let pass; a transmission type has none.
Valid(s, v) ==
    \/ s = "id" /\ Below(65535, v[1]) /\ Below(127, v[2]) /\ Below(256, v[3])
    \/ s = "period" /\ Below(65535, v[1])
    \/ s = "frequency" /\ Below(124, v[1])
    \/ s = "key" /\ Below(256, v[1]) /\ v[2] = 8

-----------------------------------------------------------------------------
\* Microseconds: what reset waits, and what the comment in it asks for.
Pause == 500
Settle == 500 * 1000

VARIABLES
    setting,    \* the setting that this behaviour is about
    connection, \* the number of the USB device that libant is connected to, or NULL
    told,       \* what was last sent, [given, value, by, sure], or NULL; see Sent
    made,       \* the objects that exist
    recorded,   \* recorded[o]: the arguments in o's instance variables, or NULL
    registered, \* the object in the registry, or NULL
    since,      \* at least as many microseconds since the device was last reset
    doing       \* doing[t]: "assigning" or "pausing", inside that function, or NULL

objectVars == <<made, recorded>>
sessionVars == <<connection, registered, since, doing>>
vars == <<setting, told, objectVars, sessionVars>>

\* The object o, or Ant itself for NULL, sends v: not `sure` if the call failed, or
\* if a later command was lost that nobody waited for.
Sent(o, v) == [given |-> v, value |-> Value(setting, v), by |-> o, sure |-> TRUE]

\* The program calls the setter of s, with arguments it takes.
Sets(s, v) == setting = s /\ v \in Given[s] /\ Accepted(s, v)

\* A function of libant with a response time, which returns `said`. With 0 it only
\* writes. Otherwise the answer can come too late: the device has done it by then.
Ask(sent, timeout, said) ==
    IF connection = NULL THEN ~said /\ UNCHANGED told
    ELSE \/ said /\ told' = sent
         \/ ~said /\ UNCHANGED told
         \/ ~said /\ timeout > 0 /\ told' = [sent EXCEPT !.sure = FALSE]

\* A function of libant without one, whose result the caller does not act on.
Send(sent) ==
    IF connection = NULL THEN UNCHANGED told
    ELSE \/ told' = sent
         \/ told # NULL /\ told' = [told EXCEPT !.sure = FALSE]
         \/ told = NULL /\ UNCHANGED told

-----------------------------------------------------------------------------
\* The set_ methods of Ant::Channel

Records(o, v) == recorded' = [recorded EXCEPT ![o] = v]

\* A RuntimeError leaves the instance variables as they were.
SetChannelId(o, v, timeout) ==
    /\ o \in made /\ Sets("id", v)
    /\ \E said \in BOOLEAN :
         /\ Ask(Sent(o, v), timeout, said)
         /\ IF said THEN Records(o, v) ELSE UNCHANGED recorded
    /\ UNCHANGED <<setting, made, sessionVars>>

SetChannelPeriod(o, v, timeout) ==
    /\ o \in made /\ Sets("period", v)
    /\ \E said \in BOOLEAN : Ask(Sent(o, v), timeout, said)
    /\ UNCHANGED <<setting, objectVars, sessionVars>>

SetChannelSearchTimeout(o, v, timeout) ==
    /\ o \in made /\ Sets("search", v)
    /\ \E said \in BOOLEAN : Ask(Sent(o, v), timeout, said)
    /\ UNCHANGED <<setting, objectVars, sessionVars>>

SetChannelRfFreq(o, v) ==
    /\ o \in made /\ Sets("frequency", v)
    /\ Send(Sent(o, v))
    /\ Records(o, v)
    /\ UNCHANGED <<setting, made, sessionVars>>

SetFrequencyAgility(o, v) ==
    /\ o \in made /\ Sets("agility", v)
    /\ Send(Sent(o, v))
    /\ Records(o, v)
    /\ UNCHANGED <<setting, made, sessionVars>>

-----------------------------------------------------------------------------
\* The settings of Ant

\* The caller is told of a failure, or the log.
SetsForAll(s, v) ==
    /\ Sets(s, v)
    /\ Send(Sent(NULL, v))
    /\ UNCHANGED <<setting, objectVars, sessionVars>>

SetTransmitPower(v) == SetsForAll("power", v)
SetNetworkKey(v) == SetsForAll("key", v)
UseExtendedMessages(v) == SetsForAll("extended", v)

\* max_packet_length, stall_count, retry_count.
ConfigureAdvancedBurst(v) == SetsForAll("burst", v)

-----------------------------------------------------------------------------
\* The session

\* The device may have kept its settings. An init that raises changes nothing; the
\* program does not call it while connected.
InitLibrary(n) ==
    /\ connection = NULL /\ FitsInt(n)
    /\ connection' = Byte(n)
    /\ told' \in {told, NULL}
    /\ UNCHANGED <<setting, objectVars, registered, since, doing>>

\* Slip: the registry is left as it is.
CloseKeepingRegistry ==
    /\ connection' = NULL
    /\ UNCHANGED <<setting, told, objectVars, registered, since, doing>>

CloseLibrary ==
    /\ connection' = NULL
    /\ registered' = NULL
    /\ UNCHANGED <<setting, told, objectVars, since, doing>>

\* ANT_ResetSystem may fail, which reset does not look at.
Reset(t) ==
    /\ doing[t] = NULL
    /\ \/ connection # NULL /\ told' = NULL /\ since' = 0
       \/ UNCHANGED <<told, since>>
    /\ registered' = NULL
    /\ doing' = [doing EXCEPT ![t] = "pausing"]
    /\ UNCHANGED <<setting, objectVars, connection>>

\* rb_thread_wait_for. When another thread pauses too, its reset may be the last one.
ResetReturns(t) ==
    /\ doing[t] = "pausing"
    /\ doing' = [doing EXCEPT ![t] = NULL]
    /\ since' = IF since < Pause /\ \A u \in Threads \ {t} : doing[u] # "pausing"
                THEN Pause ELSE since
    /\ UNCHANGED <<setting, told, objectVars, connection, registered>>

\* Time passes.
Settles ==
    /\ since' = Settle /\ since # Settle
    /\ UNCHANGED <<setting, told, objectVars, connection, registered, doing>>

\* assign_channel up to its log message, if it succeeds.
AssignDevice(t) ==
    /\ doing[t] = NULL /\ connection # NULL
    /\ doing' = [doing EXCEPT ![t] = "assigning"]
    /\ UNCHANGED <<setting, told, objectVars, connection, registered, since>>

NewInstance(t, o) ==
    /\ doing[t] = "assigning" /\ o \notin made
    /\ doing' = [doing EXCEPT ![t] = NULL]
    /\ made' = made \cup {o}
    /\ Records(o, NULL)
    /\ registered' = o
    /\ UNCHANGED <<setting, told, connection, since>>

\* The end of close, on any object of the number (ChannelRegistry).
CloseForgets ==
    /\ registered # NULL
    /\ registered' = NULL
    /\ UNCHANGED <<setting, told, objectVars, connection, since, doing>>

-----------------------------------------------------------------------------

Init ==
    /\ setting \in Settings
    /\ connection = NULL
    /\ told = NULL
    /\ made = {}
    /\ recorded = [o \in Objects |-> NULL]
    /\ registered = NULL
    /\ since = Settle
    /\ doing = [t \in Threads |-> NULL]

SetOfChannel(o, v) ==
    \/ SetChannelRfFreq(o, v) \/ SetFrequencyAgility(o, v)
    \/ \E timeout \in Timeouts :
         \/ SetChannelId(o, v, timeout)
         \/ SetChannelPeriod(o, v, timeout)
         \/ SetChannelSearchTimeout(o, v, timeout)

SetOfAnt(v) ==
    SetTransmitPower(v) \/ SetNetworkKey(v) \/ UseExtendedMessages(v) \/ ConfigureAdvancedBurst(v)

Session ==
    \/ \E n \in DeviceNumbers : InitLibrary(n)
    \/ CloseLibrary \/ CloseForgets \/ Settles
    \/ \E t \in Threads :
         \/ Reset(t) \/ ResetReturns(t) \/ AssignDevice(t)
         \/ \E o \in Objects : NewInstance(t, o)

Next ==
    \/ \E v \in Given[setting] : SetOfAnt(v) \/ \E o \in Objects : SetOfChannel(o, v)
    \/ Session

Spec == Init /\ [][Next]_vars

-----------------------------------------------------------------------------
\* Properties

TypeOK ==
    /\ setting \in Settings
    /\ connection # NULL => connection \in Int /\ Below(256, connection)
    /\ told # NULL =>
         /\ told.given \in Given[setting] /\ Accepted(setting, told.given)
         /\ told = [Sent(told.by, told.given) EXCEPT !.sure = told.sure]
         /\ told.by \in made \cup {NULL} /\ told.sure \in BOOLEAN
    /\ made \subseteq Objects
    /\ recorded \in [Objects -> Given[setting] \cup {NULL}]
    /\ registered \in made \cup {NULL}
    /\ since \in {0, Pause, Settle}
    /\ doing \in [Threads -> {"assigning", "pausing", NULL}]

\* What the documentation of a remembered setting, or its validator, permits.
InRange(s, v) ==
    \/ s = "id" /\ Valid(s, v)
    \/ s \in {"frequency", "agility"} /\ \A i \in DOMAIN v : 0 <= v[i] /\ v[i] <= 124

\* What a channel in the registry says of its own settings is what it last sent to
\* the device, through failed and late answers, resets and reconnections, unless a
\* command was lost that the method did not wait for (set_channel_id,
\* set_channel_rf_freq, set_frequency_agility, close). It says so in the Integers it
\* was given. Those in range are what was sent. Of others, which the conversion may
\* let pass, the remainders are: 256 is remembered where 0 was sent.
RegisteredRemembers ==
    /\ setting \in Remembered
    /\ registered # NULL /\ told # NULL
    /\ told.by = registered /\ told.sure
    => LET remembered == recorded[registered] IN
         /\ remembered # NULL
         /\ Value(setting, remembered) = told.value
         /\ InRange(setting, remembered) => remembered = told.value

\* No value out of range gets to the device, whatever Integer it was made of by the
\* conversion (set_channel_rf_freq, set_frequency_agility, transmit_power=).
LegalOnly ==
    told # NULL =>
        /\ setting \in {"frequency", "agility"} =>
              \A i \in DOMAIN told.value : 0 <= told.value[i] /\ told.value[i] <= 124
        /\ setting = "power" => 0 <= told.value[1] /\ told.value[1] <= 4

\* What the validators of lib/ant.rb let pass gets to the device as it was given.
ValidIsExact ==
    told # NULL /\ Valid(setting, told.given) => told.value = told.given

=============================================================================
