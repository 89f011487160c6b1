----------------------- MODULE ResponseDeliveryProofs -----------------------
(***************************************************************************)
(* Theorems about ResponseDelivery, for any number of calls, channels and   *)
(* responses.                                                               *)
(***************************************************************************)
EXTENDS ResponseDelivery_Refinement, SequenceTheorems, TLAPS

-----------------------------------------------------------------------------
\* What the device has sent and libant has not read

Growing(q) == \A i, j \in DOMAIN q : i < j => q[i].num < q[j].num

\* Messages sent before m, and after it.
AllBefore(q, m) == \A i \in DOMAIN q : q[i].num < m.num
AllAfter(q, m) == \A i \in DOMAIN q : m.num < q[i].num

\* The device sends one more.
LEMMA AppendKeepsOrder ==
    ASSUME NEW S, NEW q \in Seq(S), NEW x \in S, NEW r, r = Append(q, x)
    PROVE  /\ r \in Seq(S)
           /\ \A i \in DOMAIN r : r[i] = x \/ \E j \in DOMAIN q : r[i] = q[j]
           /\ Growing(q) /\ AllBefore(q, x) => Growing(r)
<1>1. /\ r \in Seq(S)
      /\ Len(r) = Len(q) + 1
      /\ \A i \in 1 .. Len(q) : r[i] = q[i]
      /\ r[Len(q) + 1] = x
  BY AppendProperties
<1>2. DOMAIN q = 1 .. Len(q) /\ DOMAIN r = 1 .. (Len(q) + 1) /\ Len(q) \in Nat
  BY <1>1, LenProperties
<1>3. ASSUME NEW i \in DOMAIN r
      PROVE  (i \in DOMAIN q /\ r[i] = q[i]) \/ (i = Len(q) + 1 /\ r[i] = x)
  BY <1>1, <1>2
<1>4. ASSUME Growing(q), AllBefore(q, x) PROVE Growing(r)
  <2> SUFFICES ASSUME NEW i \in DOMAIN r, NEW j \in DOMAIN r, i < j PROVE r[i].num < r[j].num
    BY DEF Growing
  <2>1. i \in DOMAIN q /\ r[i] = q[i]
    BY <1>2, <1>3
  <2> QED BY <1>3, <1>4, <2>1 DEF Growing, AllBefore
<1> QED BY <1>1, <1>3, <1>4

\* libant reads the oldest.
LEMMA TailKeepsOrder ==
    ASSUME NEW S, NEW q \in Seq(S), q # <<>>, NEW h, h = Head(q), NEW r, r = Tail(q)
    PROVE  /\ r \in Seq(S)
           /\ h \in S
           /\ \E j \in DOMAIN q : h = q[j]
           /\ \A i \in DOMAIN r : \E j \in DOMAIN q : r[i] = q[j]
           /\ Growing(q) => Growing(r) /\ AllAfter(r, h)
<1>1. /\ r \in Seq(S)
      /\ h \in S
      /\ h = q[1]
      /\ Len(r) = Len(q) - 1
      /\ \A i \in 1 .. Len(q) - 1 : r[i] = q[i + 1]
  BY HeadTailProperties
<1>2. DOMAIN q = 1 .. Len(q) /\ DOMAIN r = 1 .. (Len(q) - 1) /\ Len(q) \in Nat \ {0}
  BY <1>1, LenProperties, EmptySeq
<1>3. 1 \in DOMAIN q
  BY <1>2
<1>4. ASSUME NEW i \in DOMAIN r PROVE i + 1 \in DOMAIN q /\ r[i] = q[i + 1] /\ 1 < i + 1 /\ i \in Nat
  BY <1>1, <1>2
<1>5. ASSUME Growing(q) PROVE Growing(r) /\ AllAfter(r, h)
  <2>1. ASSUME NEW i \in DOMAIN r, NEW j \in DOMAIN r, i < j PROVE r[i].num < r[j].num
    <3>1. i + 1 < j + 1
      BY <1>4, <2>1
    <3> QED BY <1>4, <1>5, <3>1 DEF Growing
  <2>2. ASSUME NEW i \in DOMAIN r PROVE h.num < r[i].num
    BY <1>1, <1>3, <1>4, <1>5 DEF Growing
  <2> QED BY <2>1, <2>2 DEF Growing, AllAfter
<1> QED BY <1>1, <1>3, <1>4, <1>5

-----------------------------------------------------------------------------
\* Types

\* The device has sent one more message, with this id and about this command.
Sent(id, about) ==
    /\ sent' = sent + 1 /\ sent' \in 0 .. MaxSent
    /\ \E m \in Messages : /\ m.num = sent + 1 /\ m.id = id /\ m.about = about
                           /\ inbox' = Append(inbox, m)

\* What the program asks for and orders, and what nobody asked for, is sent.
LEMMA AllAreSent ==
    ASSUME TypeOK
    PROVE  /\ \A a \in Requests : Request(a) => Sent(a, NULL)
           /\ \A c \in Commands, n \in Channels : Command(c, n) => Sent("response_event", c)
           /\ Unasked => Sent("unknown", NULL)
<1> DEFINE Coming == [num : {sent + 1}, id : Answers \cup {"response_event", "unknown"},
                     about : Acknowledged \cup {NULL}, chan : Channels \cup {0}, ok : BOOLEAN]
<1>1. ASSUME NEW m \in Coming, sent < MaxSent, sent' = sent + 1, inbox' = Append(inbox, m)
      PROVE  Sent(m.id, m.about)
  <2>1. sent' \in 0 .. MaxSent /\ sent + 1 \in 1 .. MaxSent
    BY <1>1, ResponseDeliveryAssumption DEF TypeOK
  <2>2. m \in Messages /\ m.num = sent + 1
    BY <2>1 DEF Messages
  <2> QED BY <1>1, <2>1, <2>2 DEF Sent
<1>2. ASSUME NEW a \in Requests, Request(a) PROVE Sent(a, NULL)
  <2> DEFINE m == [num |-> sent + 1, id |-> a, about |-> NULL, chan |-> 0, ok |-> TRUE]
  <2>1. m \in Coming /\ m.id = a /\ m.about = NULL
    BY ResponseDeliveryAssumption
  <2>2. sent < MaxSent /\ sent' = sent + 1 /\ inbox' = Append(inbox, m)
    BY <1>2 DEF Request, Sends
  <2> HIDE DEF m, Coming
  <2> QED BY <1>1, <2>1, <2>2
<1>3. ASSUME NEW c \in Commands, NEW n \in Channels, Command(c, n) PROVE Sent("response_event", c)
  <2> PICK ok \in {TRUE, c # "setting"} : Sends("response_event", c, IF c = "adv_burst" THEN 0 ELSE n, ok)
    BY <1>3 DEF Command
  <2> DEFINE m == [num |-> sent + 1, id |-> "response_event", about |-> c,
                   chan |-> IF c = "adv_burst" THEN 0 ELSE n, ok |-> ok]
  <2>1. m \in Coming /\ m.id = "response_event" /\ m.about = c
    BY ResponseDeliveryAssumption
  <2>2. sent < MaxSent /\ sent' = sent + 1 /\ inbox' = Append(inbox, m)
    BY DEF Sends
  <2> HIDE DEF m, Coming
  <2> QED BY <1>1, <2>1, <2>2
<1>4. ASSUME Unasked PROVE Sent("unknown", NULL)
  <2> DEFINE m == [num |-> sent + 1, id |-> "unknown", about |-> NULL, chan |-> 0, ok |-> TRUE]
  <2>1. m \in Coming /\ m.id = "unknown" /\ m.about = NULL
    OBVIOUS
  <2>2. sent < MaxSent /\ sent' = sent + 1 /\ inbox' = Append(inbox, m)
    BY <1>4 DEF Unasked, Sends
  <2> HIDE DEF m, Coming
  <2> QED BY <1>1, <2>1, <2>2
<1> QED BY <1>2, <1>3, <1>4

LEMMA TypeInductive == TypeOK /\ [Next]_vars => TypeOK'
<1> SUFFICES ASSUME TypeOK, [Next]_vars PROVE TypeOK'
  OBVIOUS
<1> USE DEF serviceVars, deviceVars, channelVars
<1>1. ASSUME NEW id, NEW about, Sent(id, about)
      PROVE  sent' \in 0 .. MaxSent /\ inbox' \in Seq(Messages)
  BY <1>1, AppendKeepsOrder DEF Sent, TypeOK
<1>2. ASSUME NEW a \in Requests, Request(a) PROVE TypeOK'
  <2>1. sent' \in 0 .. MaxSent /\ inbox' \in Seq(Messages)
    BY <1>1, <1>2, AllAreSent
  <2> QED BY <1>2, <2>1 DEF Request, TypeOK
<1>3. ASSUME NEW c \in Commands, NEW n \in Channels, Command(c, n) PROVE TypeOK'
  <2>1. sent' \in 0 .. MaxSent /\ inbox' \in Seq(Messages)
    BY <1>1, <1>3, AllAreSent
  <2> QED BY <1>3, <2>1 DEF Command, TypeOK
<1>4. CASE Unasked
  <2>1. sent' \in 0 .. MaxSent /\ inbox' \in Seq(Messages)
    BY <1>1, <1>4, AllAreSent
  <2> QED BY <1>4, <2>1 DEF Unasked, TypeOK
<1>5. ASSUME NEW b \in {"handlers", "own"}, OnResponse(b) PROVE TypeOK'
  BY <1>5 DEF OnResponse, TypeOK
<1>6. ASSUME NEW n \in Channels, Register(n) \/ Tune(n) \/ Unregister(n) PROVE TypeOK'
  BY <1>6 DEF Register, Tune, Unregister, TypeOK
<1>7. CASE Ignore
  <2>1. inbox' \in Seq(Messages)
    BY <1>7, TailKeepsOrder DEF Ignore, TypeOK
  <2> QED BY <1>7, <2>1 DEF Ignore, TypeOK
<1>8. ASSUME NEW k \in Calls, Read(k) PROVE TypeOK'
  <2>1. inbox' \in Seq(Messages) /\ Head(inbox) \in Messages
    BY <1>8, TailKeepsOrder DEF Read, TypeOK
  <2> QED BY <1>8, <2>1 DEF Read, TypeOK, Service!Post, Service!Move, Service!Phases
<1>9. ASSUME NEW k \in Calls, Return(k) PROVE TypeOK'
  BY <1>9 DEF Return, TypeOK, Service!Finish, Service!Move, Service!Phases
<1>10. ASSUME NEW k \in Calls, Begin(k) PROVE TypeOK'
  BY <1>10 DEF Begin, TypeOK, Service!Start, Service!Move, Service!Phases
<1>11. ASSUME NEW k \in Calls, Run(k) PROVE TypeOK'
  <2>1. /\ phase' \in [Calls -> Service!Phases]
        /\ verdict' \in [Calls -> {"none", "true", "false"}]
    BY <1>11 DEF Run, TypeOK, Service!Decide, Service!Move, Service!Phases
  <2>2. stored' \in [Answers -> Messages \cup {NULL}]
    BY <1>11 DEF Run, TypeOK, Handle, Store
  <2>3. seen' \in [Calls -> [block : {"handlers", "own", NULL}, data : Messages \cup {NULL}]]
    BY <1>11 DEF Run, TypeOK, Nothing
  <2> QED BY <1>11, <2>1, <2>2, <2>3 DEF Run, TypeOK
<1>12. ASSUME NEW k \in Calls, Answer(k) PROVE TypeOK'
  BY <1>12 DEF Answer, TypeOK, Service!Answer, Service!Move, Service!Phases
<1>13. CASE UNCHANGED vars
  BY <1>13 DEF vars, TypeOK
<1> QED
  BY <1>2, <1>3, <1>4, <1>5, <1>6, <1>7, <1>8, <1>9, <1>10, <1>11, <1>12, <1>13
     DEF Next, Program, Library, Dispatched

\* Every variable keeps its type: what is stored is a message or nothing, and only
\* a registered channel has a frequency.
THEOREM TypeCorrect == Spec => []TypeOK
<1>1. Init => TypeOK
  <2> SUFFICES ASSUME Init PROVE TypeOK
    OBVIOUS
  <2>1. inbox \in Seq(Messages) /\ sent \in 0 .. MaxSent
    BY ResponseDeliveryAssumption DEF Init
  <2> QED BY <2>1 DEF Init, TypeOK, Nothing, Service!Init, Service!Phases
<1> QED BY <1>1, TypeInductive, PTL DEF Spec

-----------------------------------------------------------------------------
\* One call at a time, and messages that stay in order

\* The numbers grow from what Ant has stored through the buffer to what libant has
\* not read.
Ordered ==
    /\ Growing(inbox)
    /\ \A i \in DOMAIN inbox : inbox[i].num <= sent
    /\ buffer # NULL => buffer.num <= sent /\ AllAfter(inbox, buffer)
    /\ \A a \in Answers : stored[a] # NULL => buffer # NULL /\ stored[a].num <= buffer.num

\* libant's thread is held up in at most one call, and as long as it is nothing
\* writes to the buffer.
OneCall ==
    /\ \A j, k \in Calls : phase[j] # "idle" /\ phase[k] # "idle" => j = k
    /\ \A k \in Calls : phase[k] # "idle" => buffer # NULL /\ message[k] = buffer
    /\ \A k \in Calls : phase[k] = "running" => seen[k].data = buffer

LEMMA OneCallInductive == TypeOK /\ OneCall /\ [Next]_vars => OneCall'
<1> SUFFICES ASSUME TypeOK, OneCall, [Next]_vars PROVE OneCall'
  OBVIOUS
<1> USE DEF serviceVars, deviceVars, channelVars
<1>1. ASSUME NEW k \in Calls, Read(k) PROVE OneCall'
  <2>1. Head(inbox) # NULL
    BY <1>1, TailKeepsOrder, ResponseDeliveryAssumption DEF Read, TypeOK
  <2>2. \A j \in Calls : phase[j] = "idle" /\ (phase'[j] # "idle" => j = k)
    BY <1>1 DEF Read, HeldUp, TypeOK, Service!Post, Service!Move
  <2>3. phase'[k] = "posted" /\ message'[k] = Head(inbox) /\ buffer' = Head(inbox)
    BY <1>1 DEF Read, TypeOK, Service!Post, Service!Move
  <2> QED BY <2>1, <2>2, <2>3 DEF OneCall
<1>2. ASSUME NEW k \in Calls, Return(k) PROVE OneCall'
  BY <1>2 DEF Return, TypeOK, OneCall, Service!Finish, Service!Move
<1>3. ASSUME NEW k \in Calls, Begin(k) PROVE OneCall'
  BY <1>3 DEF Begin, TypeOK, OneCall, Service!Start, Service!Move
<1>4. ASSUME NEW k \in Calls, Run(k) PROVE OneCall'
  BY <1>4 DEF Run, TypeOK, OneCall, Service!Decide, Service!Move
<1>5. ASSUME NEW k \in Calls, Answer(k) PROVE OneCall'
  BY <1>5 DEF Answer, TypeOK, OneCall, Service!Answer, Service!Move
<1>6. CASE UNCHANGED <<phase, message, buffer, seen>>
  BY <1>6 DEF OneCall
<1>7. CASE Program \/ Unasked \/ Ignore \/ UNCHANGED vars
  BY <1>6, <1>7 DEF Program, Unasked, Request, Command, OnResponse, Register, Tune, Unregister,
                    Ignore, vars
<1> QED BY <1>1, <1>2, <1>3, <1>4, <1>5, <1>7 DEF Next, Library, Dispatched

LEMMA OneCallHolds == Spec => []OneCall
<1>1. Init => OneCall
  BY DEF Init, OneCall, Service!Init
<1> QED BY <1>1, OneCallInductive, TypeCorrect, PTL DEF Spec

\* A block is given the response its call was made for, though all of them go
\* through one buffer that another thread reads without a lock: nothing writes to it
\* while rant_callback holds libant's thread up.
THEOREM BlocksSeeTheirMessages == Spec => []BlockSeesItsMessage
<1>1. OneCall => BlockSeesItsMessage
  BY DEF OneCall, BlockSeesItsMessage
<1> QED BY <1>1, OneCallHolds, PTL

\* A message that is sent is the latest, whatever it is.
LEMMA SentKeepsOrder ==
    ASSUME TypeOK, Ordered, NEW id, NEW about, Sent(id, about), UNCHANGED <<buffer, stored>>
    PROVE  Ordered'
<1> PICK m \in Messages : m.num = sent + 1 /\ inbox' = Append(inbox, m)
  BY DEF Sent
<1> USE DEF Sent
<1>1. /\ Growing(inbox')
      /\ \A i \in DOMAIN inbox' : inbox'[i] = m \/ \E j \in DOMAIN inbox : inbox'[i] = inbox[j]
  <2>1. inbox \in Seq(Messages) /\ sent \in Nat
    BY DEF TypeOK
  <2>2. AllBefore(inbox, m)
    <3> SUFFICES ASSUME NEW i \in DOMAIN inbox PROVE inbox[i].num < m.num
      BY DEF AllBefore
    <3>1. inbox[i] \in Messages /\ inbox[i].num <= sent
      BY <2>1, ElementOfSeq, LenProperties DEF Ordered
    <3> QED BY <2>1, <3>1 DEF Messages
  <2>3. Growing(inbox) /\ m \in Messages /\ inbox' = Append(inbox, m)
    BY DEF Ordered
  <2>4. Growing(inbox')
    BY ONLY <2>1, <2>2, <2>3, AppendKeepsOrder
  <2>5. \A i \in DOMAIN inbox' : inbox'[i] = m \/ \E j \in DOMAIN inbox : inbox'[i] = inbox[j]
    BY ONLY <2>1, <2>2, <2>3, AppendKeepsOrder
  <2> QED BY <2>4, <2>5
<1>2. \A i \in DOMAIN inbox : inbox[i] \in Messages
  BY ElementOfSeq, LenProperties DEF TypeOK
<1>3. sent \in Nat
  BY DEF TypeOK
<1>4. \A i \in DOMAIN inbox' : inbox'[i].num <= sent'
  BY <1>1, <1>2, <1>3 DEF Ordered, Messages
<1>5. buffer' # NULL => buffer'.num <= sent' /\ AllAfter(inbox', buffer')
  <2> SUFFICES ASSUME buffer # NULL PROVE buffer.num <= sent' /\ AllAfter(inbox', buffer)
    OBVIOUS
  <2>1. buffer.num \in Nat /\ buffer.num <= sent
    BY DEF TypeOK, Ordered, Messages
  <2> QED BY <1>1, <1>3, <2>1 DEF Ordered, AllAfter
<1> QED BY <1>1, <1>4, <1>5 DEF Ordered

LEMMA OrderedInductive == TypeOK /\ OneCall /\ Ordered /\ [Next]_vars => Ordered'
<1> SUFFICES ASSUME TypeOK, OneCall, Ordered, [Next]_vars PROVE Ordered'
  OBVIOUS
<1> USE DEF serviceVars, deviceVars, channelVars
<1>1. CASE Program \/ Unasked
  <2>1. ASSUME NEW a \in Requests, Request(a) PROVE Ordered'
    BY <2>1, AllAreSent, SentKeepsOrder DEF Request
  <2>2. ASSUME NEW c \in Commands, NEW n \in Channels, Command(c, n) PROVE Ordered'
    BY <2>2, AllAreSent, SentKeepsOrder DEF Command
  <2>3. CASE Unasked
    BY <2>3, AllAreSent, SentKeepsOrder DEF Unasked
  <2>4. CASE UNCHANGED <<sent, inbox, buffer, stored>>
    BY <2>4 DEF Ordered
  <2> QED BY <1>1, <2>1, <2>2, <2>3, <2>4
             DEF Program, OnResponse, Register, Tune, Unregister
<1>2. ASSUME inbox # <<>>, inbox' = Tail(inbox)
      PROVE  /\ Growing(inbox')
             /\ \A i \in DOMAIN inbox' : inbox'[i].num <= sent
             /\ buffer # NULL => AllAfter(inbox', buffer)
             /\ Head(inbox) \in Messages /\ Head(inbox).num <= sent
             /\ AllAfter(inbox', Head(inbox))
             /\ buffer # NULL => buffer.num < Head(inbox).num
  <2>1. Growing(inbox) /\ inbox \in Seq(Messages)
    BY DEF TypeOK, Ordered
  <2>2. /\ Head(inbox) \in Messages
        /\ \E j \in DOMAIN inbox : Head(inbox) = inbox[j]
    BY ONLY <1>2, <2>1, TailKeepsOrder
  <2>3. \A i \in DOMAIN inbox' : \E j \in DOMAIN inbox : inbox'[i] = inbox[j]
    BY ONLY <1>2, <2>1, TailKeepsOrder
  <2>4. Growing(inbox') /\ AllAfter(inbox', Head(inbox))
    BY ONLY <1>2, <2>1, TailKeepsOrder
  <2> QED BY <2>2, <2>3, <2>4 DEF Ordered, AllAfter
<1>3. CASE Ignore
  BY <1>2, <1>3 DEF Ignore, Ordered
<1>4. ASSUME NEW k \in Calls, Read(k) PROVE Ordered'
  <2>1. \A a \in Answers : stored[a] # NULL => stored[a].num <= Head(inbox).num
    <3> SUFFICES ASSUME NEW a \in Answers, stored[a] # NULL PROVE stored[a].num <= Head(inbox).num
      OBVIOUS
    <3>1. stored[a] \in Messages /\ buffer \in Messages /\ Head(inbox) \in Messages
      BY <1>2, <1>4 DEF Read, TypeOK, Ordered
    <3>2. stored[a].num <= buffer.num /\ buffer.num < Head(inbox).num
      BY <1>2, <1>4 DEF Read, Ordered
    <3> QED BY <3>1, <3>2 DEF Messages
  <2> QED BY <1>2, <1>4, <2>1, ResponseDeliveryAssumption DEF Read, Ordered
<1>5. ASSUME NEW k \in Calls, Run(k) PROVE Ordered'
  <2>1. buffer # NULL /\ seen[k].data = buffer /\ buffer \in Messages
    BY <1>5 DEF Run, TypeOK, OneCall, Service!Decide, Service!Move
  <2>2. stored' = stored \/ \E a \in Answers : stored' = [stored EXCEPT ![a] = buffer]
    BY <1>5, <2>1 DEF Run, Handle, Store
  <2>3. \A a \in Answers : stored'[a] # NULL => stored'[a].num <= buffer.num
    BY <2>1, <2>2 DEF TypeOK, Ordered, Messages
  <2> QED BY <1>5, <2>1, <2>3 DEF Run, Ordered
<1>6. ASSUME NEW k \in Calls, Return(k) \/ Begin(k) \/ Answer(k) PROVE Ordered'
  BY <1>6 DEF Return, Begin, Answer, Ordered
<1>7. CASE UNCHANGED vars
  BY <1>7 DEF vars, Ordered
<1> QED BY <1>1, <1>3, <1>4, <1>5, <1>6, <1>7 DEF Next, Library, Dispatched

LEMMA OrderedHolds == Spec => []Ordered
<1>1. Init => Ordered
  BY DEF Init, Ordered, Growing
<1> QED BY <1>1, OrderedInductive, OneCallHolds, TypeCorrect, PTL DEF Spec

\* No answer that Ant holds is replaced by an earlier one, whichever threads the
\* handlers run in.
THEOREM AnswersStayNew == Spec => AnswersNeverGoBack
<1>1. TypeOK /\ OneCall /\ Ordered /\ [Next]_vars
        => [\A a \in Answers : stored[a] # NULL => stored'[a].num >= stored[a].num]_vars
  <2> SUFFICES ASSUME TypeOK, OneCall, Ordered, Next, NEW a \in Answers, stored[a] # NULL
               PROVE  stored'[a].num >= stored[a].num
    BY DEF vars
  <2>1. stored[a].num \in Nat
    BY DEF TypeOK, Messages
  <2>2. ASSUME NEW k \in Calls, Run(k) PROVE stored'[a].num >= stored[a].num
    <3>1. seen[k].data = buffer /\ buffer \in Messages /\ stored[a].num <= buffer.num
      BY <2>2 DEF Run, TypeOK, OneCall, Ordered, Service!Decide, Service!Move
    <3>2. stored'[a] \in {stored[a], buffer}
      BY <2>2, <3>1 DEF Run, Handle, Store, TypeOK
    <3> QED BY <2>1, <3>1, <3>2 DEF Messages
  <2>3. CASE stored' = stored
    BY <2>1, <2>3
  <2> QED
    BY <2>2, <2>3
       DEF Next, Program, Library, Dispatched, Request, Command, Unasked, OnResponse, Register,
           Tune, Unregister, Ignore, Read, Return, Begin, Answer
<1> QED BY <1>1, TypeCorrect, OneCallHolds, OrderedHolds, PTL DEF Spec, AnswersNeverGoBack

-----------------------------------------------------------------------------
\* What is stored

LEMMA StoredInductive ==
    TypeOK /\ OneCall /\ StoredByItsHandler /\ [Next]_vars => StoredByItsHandler'
<1> SUFFICES ASSUME TypeOK, OneCall, StoredByItsHandler, [Next]_vars
             PROVE  StoredByItsHandler'
  OBVIOUS
<1>1. ASSUME NEW k \in Calls, Run(k) PROVE StoredByItsHandler'
  <2>1. buffer \in Messages /\ message[k] = buffer /\ seen[k].data = buffer
    BY <1>1 DEF Run, TypeOK, OneCall, Service!Decide, Service!Move
  <2>2. \/ stored' = stored
        \/ /\ Subject(buffer, buffer) \in Answers
           /\ stored' = [stored EXCEPT ![Subject(buffer, buffer)] = buffer]
    BY <1>1, <2>1 DEF Run, Handle, Store
  \* The one message that is acknowledged and stored is that of advanced bursts.
  <2>3. ASSUME Subject(buffer, buffer) \in Answers
        PROVE  \/ Subject(buffer, buffer) = buffer.id
               \/ /\ buffer.id = "response_event"
                  /\ buffer.about = "adv_burst" /\ Subject(buffer, buffer) = "adv_burst"
    <3>1. buffer.about \in Acknowledged \cup {NULL}
      BY <2>1 DEF Messages
    <3> QED BY <2>3, <3>1, ResponseDeliveryAssumption DEF Subject, Answers, Acknowledged
  <2> QED BY <2>2, <2>3 DEF TypeOK, StoredByItsHandler
<1>2. CASE UNCHANGED stored
  BY <1>2 DEF StoredByItsHandler
<1> QED
  BY <1>1, <1>2
     DEF Next, Program, Library, Dispatched, Request, Command, Unasked, OnResponse, Register,
         Tune, Unregister, Ignore, Read, Return, Begin, Answer, vars

\* What Ant holds is an answer to the request of that kind, for any requests and
\* commands, but for the acknowledgement that on_config_adv_burst_id is given.
THEOREM StoredOwn == Spec => []StoredByItsHandler
<1>1. Init => StoredByItsHandler
  BY DEF Init, StoredByItsHandler
<1> QED BY <1>1, StoredInductive, TypeCorrect, OneCallHolds, PTL DEF Spec

-----------------------------------------------------------------------------
\* ResponseDelivery implements ResponseStream

\* What is being dealt with, by the one call whose block has not returned.
CurrentTable ==
    /\ \A k \in Calls : UnderWay(k) => Current = message[k]
    /\ (\A k \in Calls : ~UnderWay(k)) => Current = NULL

LEMMA CurrentTableHolds == OneCall => CurrentTable
<1> SUFFICES ASSUME OneCall PROVE CurrentTable
  OBVIOUS
<1>1. ASSUME NEW k \in Calls, UnderWay(k) PROVE Current = message[k]
  <2>1. \A j \in Calls : UnderWay(j) => j = k
    BY <1>1 DEF OneCall, UnderWay
  <2>2. (CHOOSE j \in Calls : UnderWay(j)) = k
    BY <1>1, <2>1
  <2> QED BY <1>1, <2>2 DEF Current
<1>2. ASSUME \A k \in Calls : ~UnderWay(k) PROVE Current = NULL
  BY <1>2 DEF Current
<1> QED BY <1>1, <1>2 DEF CurrentTable

LEMMA StepImplementsStream ==
    ASSUME TypeOK, OneCall, CurrentTable, TypeOK', OneCall', CurrentTable', [Next]_vars
    PROVE  [Stream!Next]_Stream!rvars
<1> USE DEF serviceVars, deviceVars, channelVars
<1>1. ASSUME UNCHANGED <<phase, message>> PROVE Current' = Current
  BY <1>1 DEF Current, UnderWay
<1>2. ASSUME NEW id, NEW about, Sent(id, about), UNCHANGED <<phase, message, stored>>
      PROVE  Stream!Arrive
  BY <1>1, <1>2 DEF Sent, Stream!Arrive
<1>3. CASE Program \/ Unasked
  <2>1. ASSUME NEW a \in Requests, Request(a) PROVE Stream!Arrive
    BY <1>2, <2>1, AllAreSent DEF Request
  <2>2. ASSUME NEW c \in Commands, NEW n \in Channels, Command(c, n) PROVE Stream!Arrive
    BY <1>2, <2>2, AllAreSent DEF Command
  <2>3. ASSUME Unasked PROVE Stream!Arrive
    BY <1>2, <2>3, AllAreSent DEF Unasked
  <2>4. ASSUME UNCHANGED <<inbox, phase, message, stored>> PROVE UNCHANGED Stream!rvars
    BY <1>1, <2>4 DEF Stream!rvars
  <2> QED BY <1>3, <2>1, <2>2, <2>3, <2>4
             DEF Stream!Next, Program, OnResponse, Register, Tune, Unregister
\* libant's thread reads only when no call is under way.
<1>4. ASSUME ~HeldUp PROVE Current = NULL
  BY <1>4 DEF HeldUp, UnderWay, CurrentTable
<1>5. CASE Ignore
  <2>1. Stream!PassOver
    BY <1>1, <1>4, <1>5 DEF Ignore, Stream!PassOver
  <2> QED BY <2>1 DEF Stream!Next
<1>6. ASSUME NEW k \in Calls, Read(k) PROVE Stream!Take
  <2>1. UnderWay(k)' /\ message'[k] = Head(inbox)
    BY <1>6 DEF Read, TypeOK, UnderWay, Service!Post, Service!Move
  <2>2. Current' = Head(inbox)
    BY <2>1 DEF CurrentTable
  <2> QED BY <1>4, <1>6, <2>2 DEF Read, Stream!Take
<1>7. ASSUME NEW k \in Calls, Return(k) \/ Begin(k) \/ Answer(k) PROVE UNCHANGED Stream!rvars
  <2>1. UNCHANGED <<inbox, stored, message>> /\ \A j \in Calls : UnderWay(j)' <=> UnderWay(j)
    BY <1>7 DEF Return, Begin, Answer, TypeOK, UnderWay, Service!Finish, Service!Start,
                Service!Answer, Service!Move
  <2>2. Current' = Current
    BY <2>1 DEF CurrentTable
  <2> QED BY <2>1, <2>2 DEF Stream!rvars
\* The block returns, and has dealt with the response of its own call.
<1>8. ASSUME NEW k \in Calls, Run(k) PROVE Stream!Drop \/ \E a \in Answers : Stream!Keep(a)
  <2>1. /\ UnderWay(k) /\ \A j \in Calls : ~UnderWay(j)'
        /\ seen[k].data = message[k] /\ message[k] # NULL
    BY <1>8 DEF Run, TypeOK, OneCall, UnderWay, Service!Decide, Service!Move
  <2>2. Current = seen[k].data /\ Current = message[k] /\ Current # NULL /\ Current' = NULL
    BY <2>1 DEF CurrentTable
  <2>3. CASE stored' = stored
    BY <1>8, <2>2, <2>3 DEF Run, Stream!Drop
  <2>4. CASE /\ Subject(Current, Current) \in Answers
             /\ Store(Subject(Current, Current), Current)
    BY <1>8, <2>2, <2>4 DEF Run, Store, Subject, Stream!Keep
  <2> QED BY <1>8, <2>2, <2>3, <2>4 DEF Run, Handle
<1>9. CASE UNCHANGED vars
  BY <1>1, <1>9 DEF vars, Stream!rvars
<1> QED
  BY <1>3, <1>5, <1>6, <1>7, <1>8, <1>9 DEF Next, Library, Dispatched, Stream!Next

\* Responses are dealt with one by one and in order, each once, and Ant's variables
\* are set from the one that is being dealt with: the buffer, the threads and the
\* exceptions of handlers cannot be seen in what is stored.
THEOREM Implements == Spec => ImplementsStream
<1>1. Init => Stream!Init
  BY DEF Init, Stream!Init, Current, UnderWay, Service!Init
<1>2. TypeOK /\ OneCall /\ CurrentTable /\ TypeOK' /\ OneCall' /\ CurrentTable' /\ [Next]_vars
      => [Stream!Next]_Stream!rvars
  BY StepImplementsStream
<1> QED
  BY <1>1, <1>2, TypeCorrect, OneCallHolds, CurrentTableHolds, PTL
     DEF Spec, ImplementsStream, Stream!Spec

=============================================================================
