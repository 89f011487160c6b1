------------------------ MODULE DeviceSettingsProofs ------------------------
(***************************************************************************)
(* Theorems about DeviceSettings, for any objects, threads and arguments.   *)
(***************************************************************************)
EXTENDS DeviceSettings, TLAPS

\* What a conversion makes of an Integer, and that it keeps one that fits.
LEMMA Conversions ==
    ASSUME NEW v \in Int
    PROVE  /\ Byte(v) \in Int /\ Below(256, Byte(v)) /\ (Below(256, v) => Byte(v) = v)
           /\ Short(v) \in Int /\ Below(65536, Short(v)) /\ (Below(65536, v) => Short(v) = v)
<1>1. v % 256 \in Int /\ 0 <= v % 256 /\ v % 256 < 256
  OBVIOUS
<1>2. v % 65536 \in Int /\ 0 <= v % 65536 /\ v % 65536 < 65536
  OBVIOUS
<1>3. 0 <= v /\ v < 256 => v % 256 = v
  OBVIOUS
<1>4. 0 <= v /\ v < 65536 => v % 65536 = v
  OBVIOUS
<1> QED BY <1>1, <1>2, <1>3, <1>4 DEF Byte, Short, Below

\* The arguments of each setting are that many Integers.
LEMMA Arguments ==
    ASSUME NEW s \in Settings, NEW v \in Given[s]
    PROVE  /\ v \in Seq(Int) /\ DOMAIN v = DOMAIN Fields[s]
           /\ \A i \in DOMAIN v : v[i] \in Int
<1>1. v \in Seq(Int) /\ DOMAIN v = DOMAIN Fields[s]
  BY DeviceSettingsAssumption
<1> QED BY <1>1

\* The message that a setter of s sends for v.
Sendable(sent) ==
    /\ sent.given \in Given[setting] /\ Accepted(setting, sent.given)
    /\ sent = [Sent(sent.by, sent.given) EXCEPT !.sure = sent.sure]
    /\ sent.by \in made \cup {NULL} /\ sent.sure \in BOOLEAN

LEMMA SentIsSendable ==
    ASSUME NEW o \in made \cup {NULL}, NEW v \in Given[setting], Accepted(setting, v)
    PROVE  /\ Sendable(Sent(o, v)) /\ Sendable([Sent(o, v) EXCEPT !.sure = FALSE])
           /\ Sent(o, v).given = v /\ Sent(o, v).by = o
           /\ [Sent(o, v) EXCEPT !.sure = FALSE].given = v
           /\ [Sent(o, v) EXCEPT !.sure = FALSE].by = o
           /\ ~[Sent(o, v) EXCEPT !.sure = FALSE].sure
<1> DEFINE Message(b) == [given |-> v, value |-> Value(setting, v), by |-> o, sure |-> b]
<1>1. \A b \in BOOLEAN : Message(b) = [Sent(o, v) EXCEPT !.sure = b]
  BY DEF Sent
<1>2. \A b \in BOOLEAN :
        Message(b).given = v /\ Message(b).by = o /\ Message(b).sure = b
  OBVIOUS
<1>3. \A b \in BOOLEAN : Sendable(Message(b))
  BY <1>1, <1>2 DEF Sendable
<1>4. Sent(o, v) = Message(TRUE)
  BY DEF Sent
<1> QED BY <1>1, <1>2, <1>3, <1>4

\* A setter leaves what was sent last as it was, or less sure, or puts its own there,
\* which it does only when connected.
LEMMA AskSends ==
    ASSUME TypeOK, NEW o \in made \cup {NULL}, NEW v \in Given[setting], Accepted(setting, v),
           UNCHANGED <<setting, made>>,
           \/ \E timeout, said : Ask(Sent(o, v), timeout, said)
           \/ Send(Sent(o, v))
    PROVE  /\ told' # NULL => Sendable(told')
           /\ \/ told' = told
              \/ told # NULL /\ told'.by = told.by /\ ~told'.sure
              \/ connection # NULL /\ told'.by = o /\ told'.given = v
<1>1. CASE told' = told
  BY <1>1 DEF TypeOK, Sendable
<1>2. CASE told' = Sent(o, v) /\ connection # NULL
  BY <1>2, SentIsSendable
<1>3. CASE told' = [Sent(o, v) EXCEPT !.sure = FALSE] /\ connection # NULL
  BY <1>3, SentIsSendable
<1>4. CASE told # NULL /\ told' = [told EXCEPT !.sure = FALSE]
  <2>1. Sendable(told)
    BY <1>4 DEF TypeOK, Sendable
  <2>2. told' = [Sent(told.by, told.given) EXCEPT !.sure = FALSE]
    BY <1>4, <2>1 DEF Sendable, Sent
  <2>3. told.by \in made \cup {NULL} /\ told.given \in Given[setting] /\ Accepted(setting, told.given)
    BY <2>1 DEF Sendable
  <2>4. Sendable(told') /\ told'.by = told.by /\ ~told'.sure
    BY <2>2, <2>3, SentIsSendable
  <2>5. told # NULL
    BY <1>4
  <2> QED BY <2>4, <2>5 DEF Sendable
<1> QED BY <1>1, <1>2, <1>3, <1>4 DEF Ask, Send

Setter(o, v) ==
    /\ v \in Given[setting] /\ Accepted(setting, v)
    /\ UNCHANGED <<setting, made, sessionVars>>
    /\ (\E timeout, said : Ask(Sent(o, v), timeout, said)) \/ Send(Sent(o, v))

\* Every set_ operation is a setter, which records nothing, or its arguments.
LEMMA SettersSet ==
    /\ \A v : SetOfAnt(v) => Setter(NULL, v) /\ UNCHANGED recorded
    /\ \A o \in Objects : \A v : SetOfChannel(o, v) =>
         /\ o \in made /\ Setter(o, v)
         /\ recorded' = recorded \/ Records(o, v)
<1> USE DEF Setter, Sets, objectVars
<1>1. ASSUME NEW v, SetOfAnt(v) PROVE Setter(NULL, v) /\ UNCHANGED recorded
  BY <1>1 DEF SetOfAnt, SetTransmitPower, SetNetworkKey, UseExtendedMessages,
              ConfigureAdvancedBurst, SetsForAll
<1>2. ASSUME NEW o \in Objects, NEW v, SetOfChannel(o, v)
      PROVE  o \in made /\ Setter(o, v) /\ (recorded' = recorded \/ Records(o, v))
  <2>1. CASE SetChannelRfFreq(o, v) \/ SetFrequencyAgility(o, v)
    BY <2>1 DEF SetChannelRfFreq, SetFrequencyAgility
  <2>2. ASSUME NEW timeout, SetChannelId(o, v, timeout)
        PROVE  o \in made /\ Setter(o, v) /\ (recorded' = recorded \/ Records(o, v))
    BY <2>2 DEF SetChannelId
  <2>3. ASSUME NEW timeout,
               SetChannelPeriod(o, v, timeout) \/ SetChannelSearchTimeout(o, v, timeout)
        PROVE  o \in made /\ Setter(o, v) /\ (recorded' = recorded \/ Records(o, v))
    BY <2>3 DEF SetChannelPeriod, SetChannelSearchTimeout
  <2> QED BY <1>2, <2>1, <2>2, <2>3 DEF SetOfChannel
<1> QED BY <1>1, <1>2

\* Every variable keeps its type, and what was sent last is what a setter sends.
THEOREM TypeCorrect == Spec => []TypeOK
<1>1. Init => TypeOK
  BY DEF Init, TypeOK
<1>2. TypeOK /\ [Next]_vars => TypeOK'
  <2> SUFFICES ASSUME TypeOK, [Next]_vars PROVE TypeOK'
    OBVIOUS
  <2>1. ASSUME UNCHANGED setting, told' \in {told, NULL}, made \subseteq made',
               made' \subseteq Objects,
               connection' # NULL => connection' \in Int /\ Below(256, connection'),
               recorded' \in [Objects -> Given[setting] \cup {NULL}],
               registered' \in made' \cup {NULL},
               since' \in {0, Pause, Settle},
               doing' \in [Threads -> {"assigning", "pausing", NULL}]
        PROVE  TypeOK'
    BY <2>1 DEF TypeOK, Sent
  <2>2. ASSUME NEW o \in made \cup {NULL}, NEW v, Setter(o, v),
               recorded' = recorded \/ (o # NULL /\ Records(o, v))
        PROVE  TypeOK'
    <3>1. told' # NULL => Sendable(told')
      BY <2>2, AskSends DEF Setter
    <3>2. recorded' \in [Objects -> Given[setting] \cup {NULL}]
      BY <2>2 DEF TypeOK, Records, Setter
    <3> QED BY <2>2, <3>1, <3>2 DEF TypeOK, Sendable, Setter, Sent, sessionVars
  <2>3. ASSUME NEW v, SetOfAnt(v) PROVE TypeOK'
    BY <2>2, <2>3, SettersSet
  <2>4. ASSUME NEW o \in Objects, NEW v, SetOfChannel(o, v) PROVE TypeOK'
    BY <2>2, <2>4, SettersSet, DeviceSettingsAssumption
  <2> USE DEF TypeOK, objectVars, sessionVars
  <2>5. ASSUME NEW n \in DeviceNumbers, InitLibrary(n) PROVE TypeOK'
    <3>1. n \in Int
      BY DeviceSettingsAssumption
    <3>2. connection' \in Int /\ Below(256, connection')
      BY <2>5, <3>1, Conversions DEF InitLibrary
    <3> QED BY <2>1, <2>5, <3>2 DEF InitLibrary
  <2>6. CASE CloseLibrary \/ CloseForgets \/ Settles
    BY <2>1, <2>6 DEF CloseLibrary, CloseForgets, Settles
  <2>7. ASSUME NEW t \in Threads, Reset(t) PROVE TypeOK'
    BY <2>1, <2>7 DEF Reset
  <2>8. ASSUME NEW t \in Threads, ResetReturns(t) \/ AssignDevice(t) PROVE TypeOK'
    BY <2>1, <2>8 DEF ResetReturns, AssignDevice
  <2>9. ASSUME NEW t \in Threads, NEW o \in Objects, NewInstance(t, o) PROVE TypeOK'
    BY <2>1, <2>9 DEF NewInstance, Records
  <2>10. CASE UNCHANGED vars
    BY <2>1, <2>10 DEF vars
  <2> QED
    BY <2>3, <2>4, <2>5, <2>6, <2>7, <2>8, <2>9, <2>10 DEF Next, Session
<1> QED BY <1>1, <1>2, PTL DEF Spec

\* While libant is not connected, what was sent last is not from the channel in the registry.
NeverSent == connection = NULL /\ registered # NULL /\ told # NULL => told.by # registered

\* A setter of a channel that sends something known to have been sent remembers it,
\* and it remembers nothing else while libant is connected.
LEMMA SettersRemember ==
    ASSUME TypeOK, NEW o \in Objects, NEW v, SetOfChannel(o, v), setting \in Remembered,
           told' # NULL, told'.sure
    PROVE  \/ told' = Sent(o, v) /\ Records(o, v)
           \/ told' = told /\ (connection = NULL \/ UNCHANGED recorded)
<1>1. ~[Sent(o, v) EXCEPT !.sure = FALSE].sure
  BY DEF Sent
<1>2. told # NULL => ~[told EXCEPT !.sure = FALSE].sure
  BY DEF TypeOK, Sent
<1>3. ASSUME NEW timeout, SetChannelId(o, v, timeout)
      PROVE  \/ told' = Sent(o, v) /\ Records(o, v)
             \/ told' = told /\ (connection = NULL \/ UNCHANGED recorded)
  BY <1>1, <1>3 DEF SetChannelId, Ask
<1>4. CASE SetChannelRfFreq(o, v) \/ SetFrequencyAgility(o, v)
  BY <1>2, <1>4 DEF SetChannelRfFreq, SetFrequencyAgility, Send
<1>5. ~\E timeout : SetChannelPeriod(o, v, timeout) \/ SetChannelSearchTimeout(o, v, timeout)
  BY DEF SetChannelPeriod, SetChannelSearchTimeout, Sets, Remembered
<1> QED BY <1>3, <1>4, <1>5 DEF SetOfChannel

\* What a channel in the registry remembers are the Integers given for what it sent.
RemembersGiven ==
    /\ setting \in Remembered
    /\ registered # NULL /\ told # NULL
    /\ told.by = registered /\ told.sure
    => recorded[registered] = told.given

RemembersInv == RemembersGiven /\ NeverSent

LEMMA RemembersInductive == TypeOK /\ RemembersInv /\ [Next]_vars => RemembersInv'
<1> SUFFICES ASSUME TypeOK, RemembersInv, [Next]_vars PROVE RemembersInv'
  OBVIOUS
<1>1. ASSUME told' \in {told, NULL}, UNCHANGED <<setting, recorded>>,
             \/ registered' = NULL
             \/ registered' = registered /\ (connection' = NULL => connection = NULL)
      PROVE  RemembersInv'
  BY <1>1 DEF RemembersInv, RemembersGiven, NeverSent
<1>2. ASSUME NEW o \in made \cup {NULL}, NEW v, Setter(o, v) PROVE NeverSent'
  BY <1>2, AskSends DEF RemembersInv, NeverSent, Setter, sessionVars
<1>3. ASSUME NEW v, SetOfAnt(v) PROVE RemembersInv'
  <2>1. setting' \notin Remembered
    BY <1>3 DEF SetOfAnt, SetTransmitPower, SetNetworkKey, UseExtendedMessages,
                ConfigureAdvancedBurst, SetsForAll, Sets, Remembered
  <2> QED BY <1>2, <1>3, <2>1, SettersSet DEF RemembersInv, RemembersGiven
<1>4. ASSUME NEW o \in Objects, NEW v, SetOfChannel(o, v) PROVE RemembersInv'
  <2>1. o \in made /\ Setter(o, v)
    BY <1>4, SettersSet
  <2>2. UNCHANGED <<setting, connection, registered>>
    BY <2>1 DEF Setter, sessionVars
  <2>3. SUFFICES ASSUME setting \in Remembered, registered # NULL, told' # NULL,
                        told'.by = registered, told'.sure
                 PROVE  recorded'[registered] = told'.given
    BY <1>2, <2>1, <2>2 DEF RemembersInv, RemembersGiven
  <2>4. recorded \in [Objects -> Given[setting] \cup {NULL}]
    BY DEF TypeOK
  <2>5. CASE told' = Sent(o, v) /\ Records(o, v)
    <3>1. told'.by = o /\ told'.given = v
      BY <2>5 DEF Sent
    <3> QED BY <2>3, <2>4, <2>5, <3>1 DEF Records
  <2>6. CASE told' = told /\ (connection = NULL \/ UNCHANGED recorded)
    BY <2>3, <2>6 DEF RemembersInv, RemembersGiven, NeverSent
  <2> QED BY <1>4, <2>3, <2>5, <2>6, SettersRemember
<1>5. ASSUME NEW t \in Threads, NEW o \in Objects, NewInstance(t, o) PROVE RemembersInv'
  <2>1. registered' = o /\ o \notin made /\ UNCHANGED told
    BY <1>5 DEF NewInstance
  <2>2. told # NULL => told.by # o
    BY <2>1, DeviceSettingsAssumption DEF TypeOK
  <2> QED BY <2>1, <2>2 DEF RemembersInv, RemembersGiven, NeverSent
<1>6. CASE UNCHANGED vars
  BY <1>1, <1>6 DEF vars, objectVars, sessionVars
<1>7. CASE Session
  <2> USE DEF objectVars
  <2>1. ASSUME NEW n \in DeviceNumbers, InitLibrary(n) PROVE RemembersInv'
    BY <1>1, <2>1 DEF InitLibrary
  <2>2. CASE CloseLibrary \/ CloseForgets \/ Settles
    BY <1>1, <2>2 DEF CloseLibrary, CloseForgets, Settles
  <2>3. ASSUME NEW t \in Threads, Reset(t) \/ ResetReturns(t) \/ AssignDevice(t)
        PROVE  RemembersInv'
    BY <1>1, <2>3 DEF Reset, ResetReturns, AssignDevice
  <2> QED BY <1>5, <1>7, <2>1, <2>2, <2>3 DEF Session
<1> QED BY <1>3, <1>4, <1>6, <1>7 DEF Next

-----------------------------------------------------------------------------

\* The C variables of a setting, one by one.
LEMMA Convert ==
    ASSUME NEW s \in Settings, NEW v \in Given[s]
    PROVE  /\ DOMAIN Converted(s, v) = DOMAIN v /\ DOMAIN v = DOMAIN Fields[s]
           /\ \A i \in DOMAIN v :
                /\ v[i] \in Int
                /\ Fields[s][i] = "byte" => Converted(s, v)[i] = Byte(v[i])
                /\ Fields[s][i] = "short" => Converted(s, v)[i] = Short(v[i])
                /\ Fields[s][i] = "same" => Converted(s, v)[i] = v[i]
BY Arguments DEF Converted

\* The value of a setting, once accepted, is in range.
LEMMA ValuesInRange ==
    ASSUME NEW s \in Settings, NEW v \in Given[s], Accepted(s, v)
    PROVE  /\ s \in {"frequency", "agility"} =>
                \A i \in DOMAIN Value(s, v) : 0 <= Value(s, v)[i] /\ Value(s, v)[i] <= 124
           /\ s = "power" => 0 <= Value(s, v)[1] /\ Value(s, v)[1] <= 4
<1> DEFINE c == Converted(s, v)
<1>1. CASE s = "agility"
  <2>1. Value(s, v) = c /\ \A i \in DOMAIN c : ~(c[i] > 124)
    BY <1>1 DEF Value, OnWire, Accepted, Refused
  <2>2. \A i \in DOMAIN Fields[s] : Fields[s][i] = "byte"
    BY <1>1 DEF Fields
  <2>3. ASSUME NEW i \in DOMAIN c PROVE c[i] \in Int /\ 0 <= c[i]
    <3>1. v[i] \in Int /\ c[i] = Byte(v[i])
      BY <2>2, <2>3, Convert
    <3> QED BY <3>1, Conversions DEF Below
  <2> QED BY <1>1, <2>1, <2>3
<1>2. CASE s = "frequency"
  <2>1. DOMAIN c = {1} /\ v[1] \in Int /\ c[1] = Short(v[1])
    <3>1. Fields[s] = <<"short">>
      BY <1>2 DEF Fields
    <3>2. DOMAIN Fields[s] = {1} /\ Fields[s][1] = "short"
      BY <3>1
    <3>3. DOMAIN v = {1} /\ DOMAIN c = {1}
      BY <3>2, Convert
    <3> QED BY <3>2, <3>3, Convert
  <2>2. ~(c[1] > 124)
    BY <1>2, <2>1 DEF Accepted, Refused
  <2>3. c[1] \in Int /\ 0 <= c[1] /\ c[1] <= 124
    BY <2>1, <2>2, Conversions DEF Below
  <2>4. Value(s, v) = [c EXCEPT ![1] = Byte(@)] /\ Byte(c[1]) = c[1]
    BY <1>2, <2>3, Conversions DEF Value, OnWire, Below
  <2> HIDE DEF c
  <2> QED BY <1>2, <2>1, <2>3, <2>4
<1>3. CASE s = "power"
  <2>1. v[1] \in Int /\ c[1] = Byte(v[1])
    <3>1. Fields[s] = <<"byte">>
      BY <1>3 DEF Fields
    <3>2. DOMAIN Fields[s] = {1} /\ Fields[s][1] = "byte"
      BY <3>1
    <3>3. DOMAIN v = {1} /\ DOMAIN c = {1}
      BY <3>2, Convert
    <3> QED BY <3>2, <3>3, Convert
  <2>2. Value(s, v) = c /\ ~(c[1] > 4)
    BY <1>3 DEF Value, OnWire, Accepted, Refused
  <2> QED BY <1>3, <2>1, <2>2, Conversions DEF Below
<1> QED BY <1>1, <1>2, <1>3

\* No value out of range gets to the device.
THEOREM Legal == Spec => []LegalOnly
<1>1. TypeOK => LegalOnly
  <2> SUFFICES ASSUME TypeOK, told # NULL
               PROVE  /\ setting \in {"frequency", "agility"} => \A i \in DOMAIN told.value :
                            0 <= told.value[i] /\ told.value[i] <= 124
                      /\ setting = "power" => 0 <= told.value[1] /\ told.value[1] <= 4
    BY DEF LegalOnly
  <2>1. /\ setting \in Settings /\ told.given \in Given[setting]
        /\ Accepted(setting, told.given) /\ told.value = Value(setting, told.given)
    BY DEF TypeOK, Sent
  <2> QED BY <2>1, ValuesInRange
<1> QED BY <1>1, TypeCorrect, PTL

\* What is valid fits the variables it is converted to.
LEMMA ValuesExact ==
    ASSUME NEW s \in Settings, NEW v \in Given[s], Valid(s, v)
    PROVE  Value(s, v) = v
<1> DEFINE c == Converted(s, v)
<1>1. ASSUME \A i \in DOMAIN v : c[i] = v[i] PROVE c = v
  BY <1>1, Arguments DEF Converted
<1>2. CASE s = "id"
  <2>1. Fields[s] = <<"short", "byte", "byte">>
    BY <1>2 DEF Fields
  <2>2. /\ DOMAIN Fields[s] = {1, 2, 3}
        /\ Fields[s][1] = "short" /\ Fields[s][2] = "byte" /\ Fields[s][3] = "byte"
    BY <2>1
  <2>3. /\ v[1] \in Int /\ v[2] \in Int /\ v[3] \in Int
        /\ c[1] = Short(v[1]) /\ c[2] = Byte(v[2]) /\ c[3] = Byte(v[3])
    BY <2>2, Convert
  <2>4. Below(65536, v[1]) /\ Below(256, v[2]) /\ Below(256, v[3])
    BY <1>2, <2>3 DEF Valid, Below
  <2>5. c[1] = v[1] /\ c[2] = v[2] /\ c[3] = v[3]
    BY <2>3, <2>4, Conversions
  <2> QED BY <1>1, <1>2, <2>2, <2>5, Convert DEF Value, OnWire
<1>3. CASE s \in {"period", "frequency"}
  <2>1. Fields["period"] = <<"short">> /\ Fields["frequency"] = <<"short">>
    BY DEF Fields
  <2>2. DOMAIN Fields[s] = {1} /\ Fields[s][1] = "short"
    BY <1>3, <2>1
  <2>3. v[1] \in Int /\ c[1] = Short(v[1])
    <3>1. DOMAIN v = {1}
      BY <2>2, Convert
    <3> QED BY <2>2, <3>1, Convert
  <2>4. Below(65536, v[1]) /\ (s = "frequency" => Below(256, v[1]))
    BY <1>3, <2>3 DEF Valid, Below
  <2>5. c[1] = v[1] /\ (s = "frequency" => Byte(v[1]) = v[1])
    BY <2>3, <2>4, Conversions
  <2>6. c = v
    BY <1>1, <2>2, <2>5, Convert
  <2> HIDE DEF c
  <2>7. v = [v EXCEPT ![1] = v[1]]
    BY Arguments
  <2> QED BY <1>3, <2>5, <2>6, <2>7 DEF Value, OnWire, c
<1>4. CASE s = "key"
  <2>1. Fields[s] = <<"short", "same">>
    BY <1>4 DEF Fields
  <2>2. DOMAIN Fields[s] = {1, 2} /\ Fields[s][1] = "short" /\ Fields[s][2] = "same"
    BY <2>1
  <2>3. v[1] \in Int /\ c[1] = Short(v[1]) /\ c[2] = v[2]
    BY <2>2, Convert
  <2>4. Below(65536, v[1]) /\ Below(256, v[1])
    BY <1>4, <2>3 DEF Valid, Below
  <2>5. c[1] = v[1] /\ Byte(v[1]) = v[1]
    BY <2>3, <2>4, Conversions
  <2>6. c = v
    BY <1>1, <2>2, <2>3, <2>5, Convert
  <2> HIDE DEF c
  <2>7. v = [v EXCEPT ![1] = v[1]]
    BY Arguments
  <2> QED BY <1>4, <2>5, <2>6, <2>7 DEF Value, OnWire, c
<1> QED BY <1>2, <1>3, <1>4 DEF Valid

\* What the validators let pass gets to the device as it was given.
THEOREM Exact == Spec => []ValidIsExact
<1>1. TypeOK => ValidIsExact
  <2> SUFFICES ASSUME TypeOK, told # NULL, Valid(setting, told.given)
               PROVE  told.value = told.given
    BY DEF ValidIsExact
  <2>1. /\ setting \in Settings /\ told.given \in Given[setting]
        /\ told.value = Value(setting, told.given)
    BY DEF TypeOK, Sent
  <2> QED BY <2>1, ValuesExact
<1> QED BY <1>1, TypeCorrect, PTL

\* Frequencies in range fit the variables they are converted to.
LEMMA FrequenciesExact ==
    ASSUME NEW s \in {"frequency", "agility"}, NEW v \in Given[s], InRange(s, v)
    PROVE  Value(s, v) = v
<1> DEFINE c == Converted(s, v)
<1>1. s \in Settings
  BY DEF Settings, Fields
<1>2. ASSUME NEW i \in DOMAIN v PROVE v[i] \in Int /\ Byte(v[i]) = v[i] /\ Short(v[i]) = v[i]
  <2>1. v[i] \in Int /\ Below(256, v[i]) /\ Below(65536, v[i])
    BY <1>1, <1>2, Convert DEF InRange, Below
  <2> QED BY <2>1, Conversions
<1>3. /\ Fields["frequency"] = <<"short">>
      /\ Fields["agility"] = <<"byte", "byte", "byte">>
  BY DEF Fields
<1>4. \A i \in DOMAIN Fields[s] : Fields[s][i] \in {"byte", "short"}
  BY <1>3
<1>5. \A i \in DOMAIN v : c[i] = v[i]
  BY <1>1, <1>2, <1>4, Convert
<1>6. c = v
  BY <1>1, <1>5, Arguments DEF Converted
<1>7. CASE s = "agility"
  BY <1>6, <1>7 DEF Value, OnWire
<1>8. CASE s = "frequency"
  <2>1. 1 \in DOMAIN v
    BY <1>1, <1>3, <1>8, Convert
  <2>2. Byte(v[1]) = v[1] /\ v = [v EXCEPT ![1] = v[1]]
    BY <1>1, <1>2, <2>1, Arguments
  <2> HIDE DEF c
  <2> QED BY <1>6, <1>8, <2>2 DEF Value, OnWire, c
<1> QED BY <1>7, <1>8

\* What a channel in the registry remembers converts to what it last sent, and is what
\* it last sent if it is in range, whatever the arguments of its calls were.
THEOREM Remembers == Spec => []RegisteredRemembers
<1>1. Init => RemembersInv
  BY DEF Init, RemembersInv, RemembersGiven, NeverSent
<1>2. TypeOK /\ RemembersInv => RegisteredRemembers
  <2> SUFFICES ASSUME TypeOK, RemembersInv, setting \in Remembered, registered # NULL,
                      told # NULL, told.by = registered, told.sure
               PROVE  LET remembered == recorded[registered] IN
                        /\ remembered # NULL
                        /\ Value(setting, remembered) = told.value
                        /\ InRange(setting, remembered) => remembered = told.value
    BY DEF RegisteredRemembers
  <2>1. /\ setting \in Settings /\ told.given \in Given[setting]
        /\ told.value = Value(setting, told.given)
    BY DEF TypeOK, Sent
  <2>2. recorded[registered] = told.given
    BY DEF RemembersInv, RemembersGiven
  <2>3. told.given # NULL
    BY <2>1, DeviceSettingsAssumption
  <2>4. ASSUME InRange(setting, told.given) PROVE Value(setting, told.given) = told.given
    BY <2>1, <2>4, ValuesExact, FrequenciesExact DEF InRange
  <2> QED BY <2>1, <2>2, <2>3, <2>4
<1> QED BY <1>1, <1>2, TypeCorrect, RemembersInductive, PTL DEF Spec

-----------------------------------------------------------------------------
\* What a longer pause would be enough for

\* A reset returns before the device has had the time that the comment in it asks for.
ReturnsEarly == since < Settle /\ \E t \in Threads : ResetReturns(t)

\* Until that time is over some thread is in the pause of reset.
SettledOrPausing == since < Settle => \E t \in Threads : doing[t] = "pausing"

LEMMA SettledOrPausingInductive ==
    TypeOK /\ SettledOrPausing /\ [Next]_vars /\ ~ReturnsEarly => SettledOrPausing'
<1> SUFFICES ASSUME TypeOK, SettledOrPausing, [Next]_vars, ~ReturnsEarly
             PROVE  SettledOrPausing'
  OBVIOUS
<1>1. since \in Nat /\ doing \in [Threads -> {"assigning", "pausing", NULL}]
  BY DEF TypeOK, Pause, Settle
<1>2. ASSUME UNCHANGED since,
             \A t \in Threads : doing[t] = "pausing" => doing'[t] = "pausing"
      PROVE  SettledOrPausing'
  BY <1>2 DEF SettledOrPausing
<1>3. CASE UNCHANGED <<since, doing>>
  BY <1>2, <1>3
<1>4. ASSUME NEW v, NEW o \in Objects, SetOfChannel(o, v) PROVE UNCHANGED <<since, doing>>
  BY <1>4, SettersSet DEF Setter, sessionVars
<1>5. ASSUME NEW v, SetOfAnt(v) PROVE UNCHANGED <<since, doing>>
  BY <1>5, SettersSet DEF Setter, sessionVars
<1>6. ASSUME NEW t \in Threads, Reset(t) PROVE SettledOrPausing'
  BY <1>1, <1>6 DEF Reset, SettledOrPausing
<1>7. ASSUME NEW t \in Threads, ResetReturns(t) PROVE SettledOrPausing'
  <2>1. ~(since < Settle)
    BY <1>7 DEF ReturnsEarly
  <2>2. UNCHANGED since
    BY <1>1, <1>7, <2>1 DEF ResetReturns, Pause, Settle
  <2> QED BY <2>1, <2>2 DEF SettledOrPausing
<1>8. ASSUME NEW t \in Threads, AssignDevice(t) \/ \E o \in Objects : NewInstance(t, o)
      PROVE  SettledOrPausing'
  BY <1>1, <1>2, <1>8, DeviceSettingsAssumption DEF AssignDevice, NewInstance
<1>9. CASE Settles
  BY <1>9 DEF Settles, SettledOrPausing, Settle
<1>10. CASE CloseLibrary \/ CloseForgets \/ \E n \in DeviceNumbers : InitLibrary(n)
  BY <1>3, <1>10 DEF CloseLibrary, CloseForgets, InitLibrary
<1>11. CASE UNCHANGED vars
  BY <1>3, <1>11 DEF vars, sessionVars
<1> QED BY <1>3, <1>4, <1>5, <1>6, <1>7, <1>8, <1>9, <1>10, <1>11 DEF Next, Session

\* A command goes out before the time is over only while a thread is in the pause.
EarlyOnlyInPause ==
    [][told' # told /\ told' # NULL /\ since < Settle =>
         \E t \in Threads : doing[t] = "pausing"]_vars

\* The length of the pause is all that is wrong with it: if no reset returned early, no
\* command that follows one would reach the device early, whatever other threads
\* reset, assign, connect or set meanwhile. A thread that does so during the pause is
\* not held up by it (ant_ext.c:281-290).
THEOREM LongerPauseSuffices == Spec /\ [][~ReturnsEarly]_vars => EarlyOnlyInPause
<1>1. Init => SettledOrPausing
  BY DEF Init, SettledOrPausing, Settle
<1>2. TypeOK /\ SettledOrPausing /\ [Next]_vars /\ [~ReturnsEarly]_vars => SettledOrPausing'
  <2> SUFFICES ASSUME TypeOK, SettledOrPausing, [Next]_vars, [~ReturnsEarly]_vars
               PROVE  SettledOrPausing'
    OBVIOUS
  <2>1. CASE ~ReturnsEarly
    BY <2>1, SettledOrPausingInductive
  <2>2. CASE UNCHANGED vars
    BY <2>2 DEF SettledOrPausing, vars, sessionVars
  <2> QED BY <2>1, <2>2
<1>3. SettledOrPausing /\ [Next]_vars =>
        [told' # told /\ told' # NULL /\ since < Settle =>
           \E t \in Threads : doing[t] = "pausing"]_vars
  BY DEF SettledOrPausing
<1> QED BY <1>1, <1>2, <1>3, TypeCorrect, PTL DEF Spec, EarlyOnlyInPause

=============================================================================
