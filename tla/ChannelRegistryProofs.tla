------------------------ MODULE ChannelRegistryProofs ------------------------
(***************************************************************************)
(* Theorems about ChannelRegistry, for any objects and any channel numbers. *)
(***************************************************************************)
EXTENDS ChannelRegistry, TLAPS

\* Channel numbers are the bytes, so reading one as a key gives it back.
LEMMA ChannelIsByte ==
    /\ \A k \in Keys : ChannelNum(k) \in Channels
    /\ \A n \in Channels : n \in Nat /\ ChannelNum(n) = n
    /\ \A k \in Entries : ChannelNum(k) \in Channels
<1>1. \A k \in Int : k % 256 \in 0 .. 255
  OBVIOUS
<1>2. \A n \in 0 .. 255 : n % 256 = n
  OBVIOUS
<1>3. \A n \in Channels : n \in 0 .. 255
  BY <1>1, ChannelRegistryAssumption DEF ChannelNum, Channels
<1>4. \A n \in Channels : n \in Nat /\ ChannelNum(n) = n
  BY <1>2, <1>3 DEF ChannelNum
<1>5. \A k \in Keys : ChannelNum(k) \in Channels
  BY DEF Channels
<1> QED BY <1>4, <1>5 DEF Entries

\* What every operation on the registry, the references and the heap keeps.
HeapInv ==
    /\ \A o \in Objects : o \in held \/ OnStack(o) => state[o] = "live"
    /\ NoDanglingBuffer
    /\ RegistryIsSound

Has(o, p, data) == state[o] = "live" /\ buffer[o][p] = data

\* Fresh data is in the buffer of the channel libant calls back for.
FreshIsCalledFor ==
    \A o \in Objects, p \in Parts :
        Has(o, p, "new") => call # NULL /\ call.into = o /\ num[o] = call.chan

\* While a block runs, it is its channel's, or where no lookup finds it.
FreshIsHandled ==
    Handling => \A o \in Objects, p \in Parts : Has(o, p, "new") => o = call.handler \/ Closed(o)

\* Missed data is where no lookup finds it.
MissedIsClosed ==
    \A o \in Objects, p \in Parts : Has(o, p, "missed") => Closed(o)

BufferInv == FreshIsCalledFor /\ FreshIsHandled /\ MissedIsClosed

\* A command leaves each channel in one of its three states.
LEMMA CommandType ==
    ASSUME hw \in [Channels -> {"unassigned", "assigned", "open"}],
           NEW n \in Channels, NEW from, NEW to \in {"unassigned", "assigned", "open"},
           NEW said, Command(n, from, to, said)
    PROVE  hw' \in [Channels -> {"unassigned", "assigned", "open"}]
BY DEF Command

\* The end of a call leaves no new data, and writes nothing but zeros otherwise.
LEMMA EndsBuffer ==
    ASSUME NEW b \in [Objects -> [Parts -> Contents]], Ends(b)
    PROVE  /\ buffer' \in [Objects -> [Parts -> Contents]]
           /\ \A o \in Objects, p \in Parts :
                buffer'[o][p] = IF b[o][p] = "new" THEN "missed" ELSE b[o][p]
BY DEF Ends, Contents

\* Every variable keeps its type.
THEOREM TypeCorrect == Spec => []TypeOK
<1>1. Init => TypeOK
  BY ChannelIsByte DEF Init, TypeOK, Channels, Contents, Zeroed
<1>2. TypeOK /\ [Next]_vars => TypeOK'
  <2> SUFFICES ASSUME TypeOK, [Next]_vars PROVE TypeOK'
    OBVIOUS
  <2> USE DEF TypeOK, objectVars
  <2> HIDE DEF Contents
  <2>0. Zeroed \in [Parts -> Contents]
    BY DEF Zeroed, Contents
  <2>1. ASSUME NEW t \in Threads, NEW k \in Keys, AssignDevice(t, k) PROVE TypeOK'
    BY <2>1, CommandType, ChannelIsByte DEF AssignDevice
  <2>2. ASSUME NEW t \in Threads, NEW o \in Objects, NewInstance(t, o) PROVE TypeOK'
    BY <2>0, <2>2, ChannelIsByte, ChannelRegistryAssumption DEF NewInstance, Allocate, Entries
  <2>3. ASSUME NEW t \in Threads, NEW o \in Objects, NewInstanceRaises(t, o) PROVE TypeOK'
    BY <2>0, <2>3 DEF NewInstanceRaises, Allocate, Channels
  <2>4. ASSUME NEW t \in Threads, NEW o \in Objects, CloseDevice(t, o) PROVE TypeOK'
    BY <2>4, CommandType DEF CloseDevice
  <2>5. ASSUME NEW t \in Threads, CloseForgets(t) PROVE TypeOK'
    BY <2>5 DEF CloseForgets
  <2>6. CASE Reset \/ CloseLibrary
    BY <2>6 DEF Reset, CloseLibrary, NoEntry, AllUnassignedOrKept
  <2>7. ASSUME NEW o \in Objects, OnEvent(o) PROVE TypeOK'
    BY <2>7 DEF OnEvent
  <2>8. ASSUME NEW o \in Objects, Open(o) PROVE TypeOK'
    BY <2>8, CommandType DEF Open
  <2>9. ASSUME NEW o \in Objects, Retain(o) \/ Release(o) PROVE TypeOK'
    BY <2>9 DEF Retain, Release
  <2>10. ASSUME NEW o \in Objects, Free(o) PROVE TypeOK'
    <3>1. hw' \in [Channels -> {"unassigned", "assigned", "open"}]
      BY <2>10, CommandType DEF Free
    <3> QED BY <2>0, <2>10, <3>1 DEF Free, Collect, Channels
  <2>11. ASSUME NEW n \in Channels, DeviceCloses(n) PROVE TypeOK'
    BY <2>11 DEF DeviceCloses
  <2>12. ASSUME NEW n \in Channels, DeviceEvent(n) PROVE TypeOK'
    <3>1. PICK written \in {{"front"}, Parts} :
            buffer' = [buffer EXCEPT ![evfn[n]] =
                           [p \in Parts |-> IF p \in written THEN "new" ELSE @[p]]]
      BY <2>12 DEF DeviceEvent
    <3>2. [p \in Parts |-> IF p \in written THEN "new" ELSE buffer[evfn[n]][p]]
            \in [Parts -> Contents]
      BY <2>12 DEF DeviceEvent, Contents
    <3>3. buffer' \in [Objects -> [Parts -> Contents]]
      BY <3>1, <3>2
    <3> QED BY <2>12, <3>3 DEF DeviceEvent, Calling
  <2>13. ASSUME NEW b \in [Objects -> [Parts -> Contents]], Ends(b) PROVE TypeOK'
    BY <2>13, EndsBuffer DEF Ends
  <2>14. CASE NoChannel \/ NoBlock \/ BlockReturns \/ OnEventTx \/ OnEventTxRaises
    BY <2>0, <2>13, <2>14 DEF NoChannel, NoBlock, BlockReturns, OnEventTx, OnEventTxRaises
  <2>15. CASE BlockRaises
    <3>1. call.handler \in Objects
      BY <2>15 DEF BlockRaises, Handling, Calling
    <3>2. [p \in Parts |-> IF buffer[call.handler][p] = "zero" THEN "zero" ELSE "left"]
            \in [Parts -> Contents]
      BY DEF Contents
    <3> QED BY <2>13, <2>15, <3>1, <3>2 DEF BlockRaises
  <2>16. CASE CallBlock
    BY <2>16 DEF CallBlock, Calling, Looking
  <2>17. CASE UNCHANGED vars
    BY <2>17 DEF vars
  <2> QED
    BY <2>1, <2>2, <2>3, <2>4, <2>5, <2>6, <2>7, <2>8, <2>9, <2>10, <2>11, <2>12, <2>14, <2>15,
       <2>16, <2>17
       DEF Next, WithinSession, InThread, Method, Event
<1> QED BY <1>1, <1>2, PTL DEF Spec

LEMMA HeapInvInductive == TypeOK /\ HeapInv /\ [Next]_vars => HeapInv'
<1> SUFFICES ASSUME TypeOK, HeapInv, [Next]_vars PROVE HeapInv'
  OBVIOUS
<1> USE ChannelRegistryAssumption
    DEF TypeOK, HeapInv, NoDanglingBuffer, RegistryIsSound, OnStack, objectVars, Calls
<1>1. ASSUME NEW t \in Threads, NEW k \in Keys, AssignDevice(t, k) PROVE HeapInv'
  <2>1. /\ UNCHANGED <<state, num, registry, held, evfn, call>>
        /\ \A u \in Threads : doing'[u] \in {doing[u], NULL, k}
    BY <1>1 DEF AssignDevice
  <2>2. \A o \in Objects : o # k /\ o # NULL
    OBVIOUS
  <2> QED BY <2>1, <2>2
<1>2. ASSUME NEW t \in Threads, NEW o \in Objects, NewInstance(t, o) PROVE HeapInv'
  BY <1>2 DEF NewInstance, Allocate, Entries
<1>3. ASSUME NEW t \in Threads, NEW o \in Objects, NewInstanceRaises(t, o) PROVE HeapInv'
  BY <1>3 DEF NewInstanceRaises, Allocate
<1>4. ASSUME NEW t \in Threads, NEW o \in Objects, CloseDevice(t, o) PROVE HeapInv'
  BY <1>4 DEF CloseDevice
<1>5. ASSUME NEW t \in Threads, CloseForgets(t) PROVE HeapInv'
  <2>1. /\ UNCHANGED <<state, num, held, evfn, call>>
        /\ \A u \in Threads : doing'[u] \in {doing[u], NULL}
    BY <1>5 DEF CloseForgets
  <2>2. \A k \in Entries : registry'[k] \in {registry[k], NULL}
    BY <1>5 DEF CloseForgets, Entries
  <2> QED BY <2>1, <2>2
<1>6. CASE Reset \/ CloseLibrary
  BY <1>6 DEF Reset, CloseLibrary, NoEntry
<1>7. ASSUME NEW o \in Objects, Method(o) PROVE HeapInv'
  <2>1. CASE OnEvent(o)
    BY <2>1 DEF OnEvent
  <2>2. CASE Open(o) \/ Release(o)
    BY <2>2 DEF Open, Release
  <2>3. CASE Retain(o)
    <3>1. state[o] = "live"
      BY <2>3 DEF Retain, Reachable, Registered
    <3> QED BY <2>3, <3>1 DEF Retain
  <2> QED BY <1>7, <2>1, <2>2, <2>3 DEF Method
<1>8. ASSUME NEW o \in Objects, Free(o) PROVE HeapInv'
  BY <1>8 DEF Free, Collect, Reachable, Registered
<1>9. CASE Event
  <2>1. ASSUME NEW n \in Channels, DeviceCloses(n) \/ DeviceEvent(n) PROVE HeapInv'
    BY <2>1 DEF DeviceCloses, DeviceEvent
  <2>2. ASSUME NEW b, Ends(b) PROVE HeapInv'
    BY <2>2 DEF Ends
  <2>3. CASE NoChannel \/ NoBlock \/ BlockReturns \/ BlockRaises \/ OnEventTx \/ OnEventTxRaises
    BY <2>2, <2>3 DEF NoChannel, NoBlock, BlockReturns, BlockRaises, OnEventTx, OnEventTxRaises
  <2>4. CASE CallBlock
    <3>1. /\ UNCHANGED <<state, num, registry, held, evfn, doing>>
          /\ call'.handler = registry[call.chan]
          /\ call.chan \in Entries
      BY <2>4 DEF CallBlock, Looking, Calling, Entries
    <3> QED BY <2>4, <3>1 DEF CallBlock
  <2> QED BY <1>9, <2>1, <2>3, <2>4 DEF Event
<1>10. CASE UNCHANGED vars
  BY <1>10 DEF vars
<1> QED
  BY <1>1, <1>2, <1>3, <1>4, <1>5, <1>6, <1>7, <1>8, <1>9, <1>10
     DEF Next, WithinSession, InThread

LEMMA HeapInvHolds == Spec => []HeapInv
<1>1. Init => HeapInv
  BY ChannelRegistryAssumption DEF Init, HeapInv, OnStack, NoDanglingBuffer, RegistryIsSound
<1> QED BY <1>1, TypeCorrect, HeapInvInductive, PTL DEF Spec

\* libant never has the address of a freed buffer.
THEOREM BufferPointersLive == Spec => []NoDanglingBuffer
<1>1. HeapInv => NoDanglingBuffer
  BY DEF HeapInv
<1> QED BY <1>1, HeapInvHolds, PTL

\* The registry holds initialized channels under keys of their number, each once.
THEOREM RegistrySound == Spec => []RegistryIsSound
<1>1. HeapInv => RegistryIsSound
  BY DEF HeapInv
<1> QED BY <1>1, HeapInvHolds, PTL

\* An object of a channel that closed? calls closed stays so until it is freed.
LEMMA StaysClosed ==
    ASSUME TypeOK, HeapInv, [Next]_vars, NEW o \in Objects,
           state[o] = "live", state'[o] = "live", Closed(o)
    PROVE  Closed(o)'
<1> USE DEF TypeOK, objectVars, Calls, Closed
<1>1. ASSUME NEW t \in Threads, NEW p \in Objects, NewInstance(t, p) PROVE Closed(o)'
  <2>1. p # o /\ num'[o] = num[o] /\ num[o] \in Entries
    BY <1>1 DEF NewInstance, Allocate, Entries
  <2>2. registry'[num[o]] = registry[num[o]] \/ registry'[num[o]] = p
    BY <1>1, <2>1 DEF NewInstance
  <2> QED BY <2>1, <2>2
<1>2. ASSUME NEW t \in Threads, NEW p \in Objects, NewInstanceRaises(t, p) PROVE Closed(o)'
  BY <1>2 DEF NewInstanceRaises, Allocate
<1>3. CASE Reset \/ CloseLibrary
  BY <1>3, ChannelRegistryAssumption DEF Reset, CloseLibrary, NoEntry, Entries
<1>4. ASSUME NEW t \in Threads, CloseForgets(t) PROVE Closed(o)'
  BY <1>4, ChannelRegistryAssumption DEF CloseForgets, Entries
<1>5. CASE UNCHANGED <<num, registry>>
  BY <1>5
<1>6. ASSUME NEW p \in Objects, Free(p) PROVE Closed(o)'
  BY <1>6 DEF Free, Collect
<1>7. ASSUME NEW p \in Objects, Method(p) PROVE UNCHANGED <<num, registry>>
  BY <1>7 DEF Method, OnEvent, Open, Retain, Release
<1>8. CASE Event
  BY <1>5, <1>8 DEF Event, DeviceCloses, DeviceEvent, NoChannel, NoBlock, CallBlock,
                    BlockReturns, BlockRaises, OnEventTx, OnEventTxRaises, Ends
<1>9. CASE UNCHANGED vars
  BY <1>5, <1>9 DEF vars
<1>10. ASSUME NEW t \in Threads, (\E k \in Keys : AssignDevice(t, k))
                                   \/ \E p \in Objects : CloseDevice(t, p)
       PROVE  UNCHANGED <<num, registry>>
  BY <1>10 DEF AssignDevice, CloseDevice
<1> QED
  BY <1>1, <1>2, <1>3, <1>4, <1>5, <1>6, <1>7, <1>8, <1>9, <1>10
     DEF Next, WithinSession, InThread

\* closed? never goes back from true to false.
THEOREM ClosedIsForGood == Spec => ClosedForGood
<1>1. TypeOK /\ HeapInv /\ [Next]_vars =>
        [\A o \in Objects :
           state[o] = "live" /\ state'[o] = "live" /\ Closed(o) => Closed(o)']_vars
  BY StaysClosed
<1> QED BY <1>1, TypeCorrect, HeapInvHolds, PTL DEF Spec, ClosedForGood

LEMMA BufferInvInductive ==
    TypeOK /\ HeapInv /\ BufferInv /\ [Next]_vars => BufferInv'
<1> SUFFICES ASSUME TypeOK, HeapInv, BufferInv, [Next]_vars PROVE BufferInv'
  OBVIOUS
<1>1. ASSUME NEW o \in Objects, state[o] = "live", state'[o] = "live", Closed(o)
      PROVE  Closed(o)'
  BY <1>1, StaysClosed
<1> USE DEF TypeOK, BufferInv, FreshIsCalledFor, FreshIsHandled, MissedIsClosed, Has,
            objectVars, Calls, Handling
<1>2. ASSUME UNCHANGED <<state, num, buffer, call>> PROVE BufferInv'
  BY <1>1, <1>2
<1>3. ASSUME NEW t \in Threads, NEW o \in Objects, NewInstance(t, o) \/ NewInstanceRaises(t, o)
      PROVE  BufferInv'
  <2>1. /\ \A q \in Objects \ {o} : state'[q] = state[q] /\ num'[q] = num[q] /\ buffer'[q] = buffer[q]
        /\ \A p \in Parts : buffer'[o][p] = "zero"
        /\ state[o] = "none"
        /\ UNCHANGED call
    BY <1>3 DEF NewInstance, NewInstanceRaises, Allocate, Zeroed
  <2>2. \A q \in Objects, p \in Parts :
          Has(q, p, "new")' \/ Has(q, p, "missed")' =>
            q # o /\ state[q] = "live" /\ num'[q] = num[q] /\ buffer'[q] = buffer[q]
    BY <2>1
  <2>3. FreshIsCalledFor'
    BY <2>1, <2>2
  <2>4. FreshIsHandled'
    BY <1>1, <2>1, <2>2
  <2>5. MissedIsClosed'
    BY <1>1, <2>1, <2>2
  <2> QED BY <2>3, <2>4, <2>5
<1>4. ASSUME NEW o \in Objects, Free(o) PROVE BufferInv'
  <2>1. /\ UNCHANGED <<call, registry>> /\ state'[o] = "none"
        /\ \A q \in Objects \ {o} : state'[q] = state[q] /\ num'[q] = num[q] /\ buffer'[q] = buffer[q]
    BY <1>4 DEF Free, Collect
  <2>2. \A q \in Objects, p \in Parts :
          Has(q, p, "new")' \/ Has(q, p, "missed")' =>
            q # o /\ state[q] = "live" /\ num'[q] = num[q] /\ buffer'[q] = buffer[q]
    BY <2>1
  <2>3. FreshIsCalledFor'
    BY <2>1, <2>2
  <2>4. FreshIsHandled'
    BY <1>1, <2>1, <2>2
  <2>5. MissedIsClosed'
    BY <1>1, <2>1, <2>2
  <2> QED BY <2>3, <2>4, <2>5
<1>5. ASSUME NEW n \in Channels, DeviceEvent(n) PROVE BufferInv'
  <2>1. evfn[n] \in Objects /\ num[evfn[n]] = n
    BY <1>5 DEF DeviceEvent, HeapInv, NoDanglingBuffer
  <2>2. /\ call = NULL /\ call' = [chan |-> n, into |-> evfn[n], handler |-> NULL]
        /\ UNCHANGED <<state, num, registry>>
    BY <1>5 DEF DeviceEvent
  <2>3. \A o \in Objects, p \in Parts :
          \/ buffer'[o][p] = buffer[o][p]
          \/ o = evfn[n] /\ buffer'[o][p] = "new"
    BY <1>5, <2>1 DEF DeviceEvent
  <2>4. call' # NULL /\ call'.handler = NULL /\ call'.into = evfn[n] /\ call'.chan = n
    BY <2>1, <2>2, ChannelIsByte, ChannelRegistryAssumption
  <2>5. FreshIsCalledFor'
    BY <2>1, <2>2, <2>3, <2>4
  <2>6. FreshIsHandled'
    BY <2>4
  <2>7. MissedIsClosed'
    BY <1>1, <2>2, <2>3
  <2> QED BY <2>5, <2>6, <2>7
<1>6. ASSUME NEW b \in [Objects -> [Parts -> Contents]],
             \A o \in Objects, p \in Parts : b[o][p] \in {"new", "missed"} => b[o][p] = buffer[o][p],
             \A o \in Objects, p \in Parts : state[o] = "live" /\ b[o][p] = "new" => Closed(o),
             Ends(b)
      PROVE  BufferInv'
  <2>1. \A o \in Objects, p \in Parts :
          buffer'[o][p] # "new" /\ (buffer'[o][p] = "missed" => b[o][p] \in {"new", "missed"})
    BY <1>6, EndsBuffer
  <2>2. call' = NULL /\ UNCHANGED <<state, num, registry>>
    BY <1>6 DEF Ends
  <2> QED BY <1>6, <2>1, <2>2 DEF Closed
<1>7. ASSUME NEW h \in Objects, NEW z \in [Parts -> {"zero", "left"}],
             Ends([buffer EXCEPT ![h] = z]),
             \A o \in Objects \ {h}, p \in Parts :
                state[o] = "live" /\ buffer[o][p] = "new" => Closed(o)
      PROVE  BufferInv'
  <2> DEFINE b == [buffer EXCEPT ![h] = z]
  <2>1. b \in [Objects -> [Parts -> Contents]]
    BY DEF Contents
  <2>2. \A p \in Parts : b[h][p] \in {"zero", "left"}
    OBVIOUS
  <2>3. \A o \in Objects \ {h} : b[o] = buffer[o]
    OBVIOUS
  <2>4. Ends(b)
    BY <1>7
  <2> HIDE DEF b
  <2>5. \A o \in Objects, p \in Parts : b[o][p] \in {"new", "missed"} => b[o][p] = buffer[o][p]
    BY <2>2, <2>3
  <2>6. \A o \in Objects, p \in Parts : state[o] = "live" /\ b[o][p] = "new" => Closed(o)
    BY <1>7, <2>2, <2>3
  <2> QED BY <1>6, <2>1, <2>4, <2>5, <2>6
<1>8. Zeroed \in [Parts -> {"zero", "left"}]
  BY DEF Zeroed
<1>9. Looking /\ registry[call.chan] # NULL =>
        \A o \in Objects \ {registry[call.chan]}, p \in Parts :
          state[o] = "live" /\ buffer[o][p] = "new" => Closed(o)
  BY DEF Looking, Closed
<1>10. CASE NoChannel \/ OnEventTxRaises
  <2>1. call # NULL /\ registry[call.chan] = NULL /\ Ends(buffer)
    BY <1>10 DEF NoChannel, Looking, OnEventTxRaises
  <2>2. \A o \in Objects, p \in Parts : state[o] = "live" /\ buffer[o][p] = "new" => Closed(o)
    BY <2>1, ChannelRegistryAssumption DEF Closed
  <2> QED BY <1>6, <2>1, <2>2
<1>11. CASE NoBlock
  <2>1. registry[call.chan] \in Objects /\ registry[call.chan] # NULL
    BY <1>11, ChannelRegistryAssumption DEF NoBlock
  <2> QED BY <1>7, <1>8, <1>9, <1>11, <2>1 DEF NoBlock
<1>12. ASSUME Handling
       PROVE  /\ call.handler \in Objects
              /\ \A o \in Objects \ {call.handler}, p \in Parts :
                    state[o] = "live" /\ buffer[o][p] = "new" => Closed(o)
  BY <1>12 DEF Calling
<1>13. CASE BlockReturns \/ OnEventTx
  BY <1>7, <1>8, <1>12, <1>13 DEF BlockReturns, OnEventTx
<1>14. CASE BlockRaises
  <2>1. [p \in Parts |-> IF buffer[call.handler][p] = "zero" THEN "zero" ELSE "left"]
          \in [Parts -> {"zero", "left"}]
    OBVIOUS
  <2> QED BY <1>7, <1>12, <1>14, <2>1 DEF BlockRaises
<1>15. CASE CallBlock
  <2>1. call \in Calling /\ call.chan \in Nat /\ registry[call.chan] \in Objects
    BY <1>15, ChannelIsByte DEF CallBlock, Calling, Looking
  <2>2. call' = [chan |-> call.chan, into |-> call.into, handler |-> registry[call.chan]]
    BY <1>15, <2>1 DEF CallBlock, Calling
  <2>3. call' # NULL
    BY <2>1, <2>2, ChannelRegistryAssumption DEF Calling
  <2>4. UNCHANGED <<state, num, buffer, registry>>
    BY <1>15 DEF CallBlock
  <2> QED BY <1>15, <2>2, <2>3, <2>4 DEF CallBlock, Closed, Looking
<1>16. CASE \E n \in Channels : DeviceCloses(n)
  BY <1>2, <1>16 DEF DeviceCloses
<1>17. ASSUME NEW t \in Threads, \/ \E k \in Keys : AssignDevice(t, k)
                                 \/ \E o \in Objects : CloseDevice(t, o)
                                 \/ CloseForgets(t)
       PROVE  BufferInv'
  BY <1>2, <1>17 DEF AssignDevice, CloseDevice, CloseForgets
<1>18. CASE Reset \/ CloseLibrary
  BY <1>2, <1>18 DEF Reset, CloseLibrary
<1>19. ASSUME NEW o \in Objects, Method(o) PROVE BufferInv'
  BY <1>2, <1>19 DEF Method, OnEvent, Open, Retain, Release
<1>20. CASE UNCHANGED vars
  BY <1>2, <1>20 DEF vars
<1> QED
  BY <1>3, <1>4, <1>5, <1>10, <1>11, <1>13, <1>14, <1>15, <1>16, <1>17, <1>18, <1>19, <1>20
     DEF Next, WithinSession, InThread, Event

\* Data nobody was called for is never given to a block afterwards.
THEOREM MissedData == Spec => []MissedStaysMissed
<1>1. Init => BufferInv
  BY DEF Init, BufferInv, FreshIsCalledFor, FreshIsHandled, MissedIsClosed, Has, Handling,
                         Zeroed
<1>2. TypeOK /\ HeapInv /\ BufferInv => MissedStaysMissed
  <2> SUFFICES ASSUME TypeOK, HeapInv, BufferInv,
                      NEW n \in Channels, NEW p \in Parts, registry[n] # NULL
               PROVE  buffer[registry[n]][p] # "missed"
    BY DEF MissedStaysMissed
  <2>1. n \in Entries /\ ChannelNum(n) = n /\ registry[n] \in Objects
    BY ChannelIsByte DEF Entries, TypeOK
  <2>2. state[registry[n]] = "live" /\ num[registry[n]] = n
    BY <2>1 DEF HeapInv, RegistryIsSound
  <2> QED BY <2>1, <2>2 DEF BufferInv, MissedIsClosed, Has, Closed
<1> QED BY <1>1, <1>2, TypeCorrect, HeapInvHolds, BufferInvInductive, PTL DEF Spec

-----------------------------------------------------------------------------
\* What an assignment reserves

\* Commands do what the library says, and initialize raises for no key the program
\* gives.
NothingFails == Reliable /\ \A k \in Keys : ~NotShort(k)

\* A thread has assigned a channel on the device and not yet made its object.
Pending(t) == doing[t] \in Keys

\* Each channel of the device that is not free has at most one object or thread
\* that it was assigned for, and one that is free has none.
Reserved ==
    /\ \A o \in Objects : state[o] \in {"none", "live"}
    /\ \A o \in Objects : state[o] = "live" => hw[num[o]] # "unassigned"
    /\ \A t \in Threads : Pending(t) => hw[ChannelNum(doing[t])] # "unassigned"
    /\ \A o, p \in Objects : state[o] = "live" /\ state[p] = "live" /\ num[o] = num[p] => o = p
    /\ \A t, u \in Threads :
         Pending(t) /\ Pending(u) /\ ChannelNum(doing[t]) = ChannelNum(doing[u]) => t = u
    /\ \A o \in Objects, t \in Threads :
         state[o] = "live" /\ Pending(t) => num[o] # ChannelNum(doing[t])

LEMMA ReservedInductive ==
    ASSUME NothingFails
    PROVE  TypeOK /\ Reserved /\ [WithinSession]_vars => Reserved'
<1> SUFFICES ASSUME TypeOK, Reserved, [WithinSession]_vars PROVE Reserved'
  OBVIOUS
<1> USE DEF objectVars, Command, NothingFails
<1>1. ASSUME NEW t \in Threads, NEW k \in Keys, AssignDevice(t, k) PROVE Reserved'
  <2>1. UNCHANGED <<state, num>>
    BY <1>1 DEF AssignDevice
  <2>2. CASE doing' = [doing EXCEPT ![t] = NULL] /\ UNCHANGED hw
    <3>1. \A u \in Threads : Pending(u)' => Pending(u) /\ doing'[u] = doing[u]
      BY <2>2, ChannelRegistryAssumption DEF Pending, TypeOK
    <3> QED BY <2>1, <2>2, <3>1 DEF Reserved
  <2>3. CASE /\ hw[ChannelNum(k)] = "unassigned"
             /\ hw' = [hw EXCEPT ![ChannelNum(k)] = "assigned"]
             /\ doing' = [doing EXCEPT ![t] = k]
    <3>1. /\ \A n \in Channels : hw[n] # "unassigned" => hw'[n] # "unassigned"
          /\ hw'[ChannelNum(k)] # "unassigned"
      BY <2>3, ChannelIsByte DEF TypeOK
    <3>2. /\ doing'[t] = k
          /\ \A u \in Threads \ {t} : doing'[u] = doing[u]
      BY <2>3 DEF TypeOK
    <3>3. /\ \A o \in Objects : num[o] \in Channels
          /\ \A j \in Keys : ChannelNum(j) \in Channels
      BY ChannelIsByte DEF TypeOK
    <3> QED BY <2>1, <2>3, <3>1, <3>2, <3>3 DEF Reserved, Pending
  <2> QED BY <1>1, <2>2, <2>3 DEF AssignDevice
<1>2. ASSUME NEW t \in Threads, NEW o \in Objects, NewInstance(t, o) PROVE Reserved'
  <2>1. /\ Pending(t) /\ state[o] = "none"
        /\ state' = [state EXCEPT ![o] = "live"]
        /\ num' = [num EXCEPT ![o] = ChannelNum(doing[t])]
        /\ doing' = [doing EXCEPT ![t] = NULL]
        /\ UNCHANGED hw
    BY <1>2 DEF NewInstance, Allocate, Pending
  <2>2. /\ state'[o] = "live" /\ num'[o] = ChannelNum(doing[t]) /\ ~Pending(t)'
        /\ \A p \in Objects \ {o} : state'[p] = state[p] /\ num'[p] = num[p]
        /\ \A u \in Threads \ {t} : doing'[u] = doing[u]
    BY <2>1, ChannelRegistryAssumption DEF TypeOK, Pending
  <2> QED BY <2>1, <2>2 DEF Reserved, Pending
<1>3. ASSUME NEW t \in Threads, NEW o \in Objects, NewInstanceRaises(t, o) PROVE FALSE
  BY <1>3 DEF NewInstanceRaises
<1>4. ASSUME NEW t \in Threads, NEW o \in Objects, CloseDevice(t, o) PROVE Reserved'
  <2>1. UNCHANGED <<state, num>> /\ doing' \in {[doing EXCEPT ![t] = o], [doing EXCEPT ![t] = NULL]}
    BY <1>4 DEF CloseDevice
  <2>2. \A u \in Threads : Pending(u)' => Pending(u) /\ doing'[u] = doing[u]
    BY <2>1, ChannelRegistryAssumption DEF Pending, TypeOK
  <2>3. \A n \in Channels : hw[n] # "unassigned" => hw'[n] # "unassigned"
    BY <1>4 DEF CloseDevice, TypeOK
  <2>4. /\ \A p \in Objects : num[p] \in Channels
        /\ \A j \in Keys : ChannelNum(j) \in Channels
    BY ChannelIsByte DEF TypeOK
  <2> QED BY <2>1, <2>2, <2>3, <2>4 DEF Reserved, Pending
<1>5. ASSUME NEW t \in Threads, CloseForgets(t) PROVE Reserved'
  <2>1. UNCHANGED <<state, num, hw>> /\ doing' = [doing EXCEPT ![t] = NULL]
    BY <1>5 DEF CloseForgets
  <2>2. \A u \in Threads : Pending(u)' => Pending(u) /\ doing'[u] = doing[u]
    BY <2>1, ChannelRegistryAssumption DEF Pending, TypeOK
  <2> QED BY <2>1, <2>2 DEF Reserved
<1>6. ASSUME UNCHANGED <<state, num, doing>>,
             \A n \in Channels : hw[n] # "unassigned" => hw'[n] # "unassigned"
      PROVE  Reserved'
  <2>1. /\ \A o \in Objects : num[o] \in Channels
        /\ \A k \in Keys : ChannelNum(k) \in Channels
    BY ChannelIsByte DEF TypeOK
  <2> QED BY <1>6, <2>1 DEF Reserved, Pending
<1>7. ASSUME NEW o \in Objects, Method(o) PROVE Reserved'
  BY <1>6, <1>7 DEF Method, OnEvent, Open, Retain, Release, TypeOK
<1>8. ASSUME NEW o \in Objects, Free(o) PROVE Reserved'
  <2>1. /\ state[o] = "live" /\ UNCHANGED doing
        /\ state' = [state EXCEPT ![o] = "none"]
        /\ num' = [num EXCEPT ![o] = 0]
        /\ \A n \in Channels \ {num[o]} : hw'[n] = hw[n]
    BY <1>8 DEF Free, Collect, Reserved, TypeOK
  <2>2. /\ state'[o] = "none"
        /\ \A p \in Objects \ {o} : state'[p] = state[p] /\ num'[p] = num[p]
    BY <2>1 DEF TypeOK
  <2>3. /\ \A p \in Objects : num[p] \in Channels
        /\ \A k \in Keys : ChannelNum(k) \in Channels
    BY ChannelIsByte DEF TypeOK
  <2> QED BY <2>1, <2>2, <2>3 DEF Reserved, Pending
<1>9. CASE Event
  <2>1. ASSUME NEW n \in Channels, DeviceCloses(n) PROVE Reserved'
    BY <1>6, <2>1 DEF DeviceCloses, TypeOK
  <2>2. CASE UNCHANGED <<state, num, doing, hw>>
    BY <1>6, <2>2
  <2> QED BY <1>9, <2>1, <2>2
             DEF Event, DeviceEvent, NoChannel, NoBlock, CallBlock, BlockReturns, BlockRaises,
                 OnEventTx, OnEventTxRaises, Ends
<1>10. CASE UNCHANGED vars
  BY <1>6, <1>10 DEF vars
<1> QED
  BY <1>1, <1>2, <1>3, <1>4, <1>5, <1>7, <1>8, <1>9, <1>10 DEF WithinSession, InThread

\* Up to the first reset an assignment does reserve the channel's number, if commands
\* do what the library says and no number is out of range: neither the collector nor
\* a second assignment, under the same number or one that is truncated to it, takes
\* the channel away from the object that is registered for it.
THEOREM ReservesUntilReset ==
    ASSUME NothingFails
    PROVE  Init /\ [][WithinSession]_vars => []AssignmentReserves
<1>1. Init => Reserved
  BY ChannelRegistryAssumption DEF Init, Reserved, Pending
<1>2. [WithinSession]_vars => [Next]_vars
  BY DEF Next
<1>3. TypeOK /\ HeapInv /\ Reserved => AssignmentReserves
  <2> SUFFICES ASSUME TypeOK, HeapInv, Reserved, NEW k \in Keys, registry[k] # NULL
               PROVE  hw[ChannelNum(k)] # "unassigned"
    BY DEF AssignmentReserves
  <2>1. registry[k] \in Objects /\ state[registry[k]] = "live" /\ num[registry[k]] = ChannelNum(k)
    BY DEF TypeOK, HeapInv, RegistryIsSound, Entries
  <2> QED BY <2>1 DEF Reserved
<1> QED
  BY <1>1, <1>2, <1>3, ReservedInductive, TypeCorrect, HeapInvHolds, PTL DEF Spec

-----------------------------------------------------------------------------
\* What an assignment does not reserve against

\* A number is in use: a thread is assigning it, or a channel is registered for it.
InUse(n) ==
    \E k \in Keys : ChannelNum(k) = n /\ (registry[k] # NULL \/ \E t \in Threads : doing[t] = k)

\* The collector frees an object whose number is in use; the object itself is neither
\* registered nor on a stack.
FreesAnothers == \E o \in Objects : Free(o) /\ InUse(num[o])

\* The device is reset while a thread is at the log call of assign_channel.
ResetsUnderway == (Reset \/ CloseLibrary) /\ \E t \in Threads : Pending(t)

\* Keys in use are assigned on the device.
AssignedInUse ==
    /\ AssignmentReserves
    /\ \A t \in Threads : Pending(t) => hw[ChannelNum(doing[t])] # "unassigned"

LEMMA AssignedInUseInductive ==
    ASSUME Reliable
    PROVE  TypeOK /\ AssignedInUse /\ [Next]_vars /\ ~FreesAnothers /\ ~ResetsUnderway => AssignedInUse'
<1> SUFFICES ASSUME TypeOK, AssignedInUse, [Next]_vars, ~FreesAnothers, ~ResetsUnderway
             PROVE  AssignedInUse'
  OBVIOUS
<1> USE DEF objectVars, Command
<1>1. \A k \in Keys : ChannelNum(k) \in Channels /\ k \in Entries
  BY ChannelIsByte DEF Entries
\* What leaves the device's assignments and brings no key into use.
<1>2. ASSUME \A n \in Channels : hw[n] # "unassigned" => hw'[n] # "unassigned",
             \A k \in Keys : registry'[k] # NULL => registry[k] # NULL,
             \A t \in Threads : Pending(t)' => Pending(t) /\ doing'[t] = doing[t]
      PROVE  AssignedInUse'
  BY <1>1, <1>2 DEF AssignedInUse, AssignmentReserves, Pending
<1>3. ASSUME NEW t \in Threads, NEW k \in Keys, AssignDevice(t, k) PROVE AssignedInUse'
  <2>1. CASE doing' = [doing EXCEPT ![t] = NULL] /\ UNCHANGED hw
    <3>1. \A u \in Threads : Pending(u)' => Pending(u) /\ doing'[u] = doing[u]
      BY <2>1, ChannelRegistryAssumption DEF Pending, TypeOK
    <3> QED BY <1>2, <1>3, <2>1, <3>1 DEF AssignDevice
  <2>2. CASE /\ hw' = [hw EXCEPT ![ChannelNum(k)] = "assigned"]
             /\ doing' = [doing EXCEPT ![t] = k]
    <3>1. /\ \A n \in Channels : hw[n] # "unassigned" => hw'[n] # "unassigned"
          /\ hw'[ChannelNum(k)] # "unassigned"
      BY <1>1, <2>2 DEF TypeOK
    <3>2. doing'[t] = k /\ \A u \in Threads \ {t} : doing'[u] = doing[u]
      BY <2>2 DEF TypeOK
    <3>3. UNCHANGED registry
      BY <1>3 DEF AssignDevice
    <3> QED BY <1>1, <3>1, <3>2, <3>3 DEF AssignedInUse, AssignmentReserves, Pending
  <2> QED BY <1>3, <2>1, <2>2 DEF AssignDevice
<1>4. ASSUME NEW t \in Threads, NEW o \in Objects, NewInstance(t, o) PROVE AssignedInUse'
  <2>1. /\ Pending(t) /\ UNCHANGED hw
        /\ registry' = [registry EXCEPT ![doing[t]] = o]
        /\ doing' = [doing EXCEPT ![t] = NULL]
    BY <1>4 DEF NewInstance, Allocate, Pending
  <2>2. /\ \A k \in Keys \ {doing[t]} : registry'[k] = registry[k]
        /\ \A u \in Threads : Pending(u)' => Pending(u) /\ doing'[u] = doing[u]
    BY <1>1, <2>1, ChannelRegistryAssumption DEF TypeOK, Pending
  <2> QED BY <2>1, <2>2 DEF AssignedInUse, AssignmentReserves
<1>5. ASSUME NEW t \in Threads, NEW o \in Objects, NewInstanceRaises(t, o) \/ CloseDevice(t, o)
      PROVE  AssignedInUse'
  <2>1. /\ UNCHANGED registry
        /\ doing' \in {[doing EXCEPT ![t] = o], [doing EXCEPT ![t] = NULL]}
    BY <1>5 DEF NewInstanceRaises, Allocate, CloseDevice
  <2>2. \A u \in Threads : Pending(u)' => Pending(u) /\ doing'[u] = doing[u]
    BY <2>1, ChannelRegistryAssumption DEF Pending, TypeOK
  <2>3. \A n \in Channels : hw[n] # "unassigned" => hw'[n] # "unassigned"
    BY <1>5 DEF NewInstanceRaises, Allocate, CloseDevice, TypeOK
  <2> QED BY <1>2, <2>1, <2>2, <2>3
<1>6. ASSUME NEW t \in Threads, CloseForgets(t) PROVE AssignedInUse'
  <2>1. /\ UNCHANGED hw /\ doing' = [doing EXCEPT ![t] = NULL]
        /\ registry' = [registry EXCEPT ![num[doing[t]]] = NULL]
    BY <1>6 DEF CloseForgets
  <2>2. \A u \in Threads : Pending(u)' => Pending(u) /\ doing'[u] = doing[u]
    BY <2>1, ChannelRegistryAssumption DEF Pending, TypeOK
  <2>3. \A k \in Keys : registry'[k] # NULL => registry[k] # NULL
    BY <1>1, <2>1 DEF TypeOK
  <2> QED BY <1>2, <2>1, <2>2, <2>3
<1>7. ASSUME NEW o \in Objects, Method(o) PROVE AssignedInUse'
  BY <1>2, <1>7 DEF Method, OnEvent, Open, Retain, Release, TypeOK, Pending
<1>8. ASSUME NEW o \in Objects, Free(o) PROVE AssignedInUse'
  <2>1. /\ UNCHANGED <<registry, doing>>
        /\ \A n \in Channels \ {num[o]} : hw'[n] = hw[n]
    BY <1>8 DEF Free, Collect, TypeOK
  <2>2. ~InUse(num[o])
    BY <1>8 DEF FreesAnothers
  <2> QED BY <1>1, <2>1, <2>2 DEF AssignedInUse, AssignmentReserves, InUse, Pending
<1>9. CASE Event
  <2>1. ASSUME NEW n \in Channels, DeviceCloses(n) PROVE AssignedInUse'
    BY <1>2, <2>1 DEF DeviceCloses, TypeOK, Pending
  <2>2. CASE UNCHANGED <<registry, doing, hw>>
    BY <1>2, <2>2 DEF Pending
  <2> QED BY <1>9, <2>1, <2>2
             DEF Event, DeviceEvent, NoChannel, NoBlock, CallBlock, BlockReturns, BlockRaises,
                 OnEventTx, OnEventTxRaises, Ends
<1>10. CASE Reset \/ CloseLibrary
  <2>1. \A t \in Threads : ~Pending(t)
    BY <1>10 DEF ResetsUnderway
  <2>2. UNCHANGED doing /\ \A k \in Keys : registry'[k] = NULL
    BY <1>1, <1>10 DEF Reset, CloseLibrary, NoEntry
  <2> QED BY <2>1, <2>2 DEF AssignedInUse, AssignmentReserves, Pending
<1>11. CASE UNCHANGED vars
  BY <1>2, <1>11 DEF vars, Pending
<1> QED
  BY <1>3, <1>4, <1>5, <1>6, <1>7, <1>8, <1>9, <1>10, <1>11 DEF Next, WithinSession, InThread

\* With commands that do what the library says there are two ways only, over any
\* number of resets and for any numbers, in which an assignment does not reserve its
\* number: the collector frees another object of that number (channel.c:44), or a
\* reset comes in at the log call of assign_channel (ant_ext.c:396).
THEOREM ReservesOtherwise ==
    ASSUME Reliable
    PROVE  Spec /\ [][~FreesAnothers /\ ~ResetsUnderway]_vars => []AssignmentReserves
<1>1. Init => AssignedInUse
  BY ChannelRegistryAssumption DEF Init, AssignedInUse, AssignmentReserves, Pending, Entries
<1>2. ASSUME TypeOK, AssignedInUse, [Next]_vars, [~FreesAnothers /\ ~ResetsUnderway]_vars
      PROVE  AssignedInUse'
  <2>1. CASE ~FreesAnothers /\ ~ResetsUnderway
    BY <1>2, <2>1, AssignedInUseInductive
  <2>2. CASE UNCHANGED vars
    BY <1>2, <2>2 DEF AssignedInUse, AssignmentReserves, Pending, vars, objectVars
  <2> QED BY <1>2, <2>1, <2>2
<1>3. AssignedInUse => AssignmentReserves
  BY DEF AssignedInUse
<1> QED BY <1>1, <1>2, <1>3, TypeCorrect, PTL DEF Spec

-----------------------------------------------------------------------------
\* What close removes

\* A thread is at the log call of close, for a channel of number n.
ClosingOf(n) == \E t \in Threads : doing[t] \in Objects /\ num[doing[t]] = n

\* Steps after which a close may remove a channel that is not the one it was called
\* for: the collector frees another object of a number in use or being closed, a
\* reset comes in at the log call of assign_channel or close, or close is called for
\* an object that is no longer registered.
FreesAnothersOrClosed == \E o \in Objects : Free(o) /\ (InUse(num[o]) \/ ClosingOf(num[o]))
ResetsBetween == (Reset \/ CloseLibrary) /\ \E t \in Threads : doing[t] # NULL
ClosesUnregistered == \E t \in Threads, o \in Objects : CloseDevice(t, o) /\ ~Registered(o)

Orderly == ~FreesAnothersOrClosed /\ ~ResetsBetween /\ ~ClosesUnregistered

\* A number in use is so in one way only.
UsedOnce ==
    /\ \A k \in Entries \ Keys : registry[k] = NULL
    /\ \A t \in Threads : doing[t] \in Objects => hw[num[doing[t]]] # "unassigned"
    /\ \A j, k \in Keys :
         registry[j] # NULL /\ registry[k] # NULL /\ ChannelNum(j) = ChannelNum(k) => j = k
    /\ \A k \in Keys, t \in Threads :
         registry[k] # NULL /\ Pending(t) => ChannelNum(k) # ChannelNum(doing[t])
    /\ \A t, u \in Threads :
         Pending(t) /\ Pending(u) /\ ChannelNum(doing[t]) = ChannelNum(doing[u]) => t = u
    /\ \A k \in Keys, t \in Threads :
         registry[k] # NULL /\ doing[t] \in Objects /\ ChannelNum(k) = num[doing[t]] =>
             registry[k] = doing[t]
    /\ \A t, u \in Threads :
         doing[t] \in Objects /\ Pending(u) => num[doing[t]] # ChannelNum(doing[u])

LEMMA UsedOnceInductive ==
    ASSUME Reliable
    PROVE  TypeOK /\ HeapInv /\ AssignedInUse /\ UsedOnce /\ [Next]_vars /\ Orderly => UsedOnce'
<1> SUFFICES ASSUME TypeOK, HeapInv, AssignedInUse, UsedOnce, [Next]_vars, Orderly
             PROVE  UsedOnce'
  OBVIOUS
<1> USE DEF objectVars
<1>1. /\ \A k \in Keys : ChannelNum(k) \in Channels /\ k \in Entries /\ k \notin Objects /\ k # NULL
      /\ NULL \notin Objects /\ NULL \notin Keys
      /\ \A o \in Objects : num[o] \in Channels /\ o \notin Keys /\ o # NULL
  BY ChannelIsByte, ChannelRegistryAssumption DEF Entries, TypeOK
\* What leaves the device's assignments, and brings no entry and no call into being.
<1>2. ASSUME \A n \in Channels : hw[n] # "unassigned" => hw'[n] # "unassigned",
             \A k \in Entries : registry'[k] # NULL => registry'[k] = registry[k],
             \A t \in Threads : doing'[t] = doing[t] \/ doing'[t] = NULL,
             \A t \in Threads : doing[t] \in Objects => num'[doing[t]] = num[doing[t]]
      PROVE  UsedOnce'
  BY <1>1, <1>2 DEF UsedOnce, Pending
<1>3. ASSUME NEW t \in Threads, doing[t] \in Objects PROVE state[doing[t]] = "live"
  BY <1>3 DEF HeapInv, OnStack
<1>4. ASSUME NEW t \in Threads, NEW k \in Keys, AssignDevice(t, k) PROVE UsedOnce'
  <2>1. UNCHANGED <<num, registry>>
    BY <1>4 DEF AssignDevice
  <2>2. CASE doing' = [doing EXCEPT ![t] = NULL] /\ UNCHANGED hw
    BY <1>2, <2>1, <2>2 DEF TypeOK
  <2>3. CASE /\ hw[ChannelNum(k)] = "unassigned"
             /\ hw' = [hw EXCEPT ![ChannelNum(k)] = "assigned"]
             /\ doing' = [doing EXCEPT ![t] = k]
    <3>1. \A n \in Channels : hw[n] # "unassigned" => hw'[n] # "unassigned"
      BY <2>3 DEF TypeOK
    <3>2. doing'[t] = k /\ \A u \in Threads \ {t} : doing'[u] = doing[u]
      BY <2>3 DEF TypeOK
    <3>3. /\ \A j \in Keys : registry[j] # NULL => ChannelNum(j) # ChannelNum(k)
          /\ \A u \in Threads : Pending(u) => ChannelNum(doing[u]) # ChannelNum(k)
          /\ \A u \in Threads : doing[u] \in Objects => num[doing[u]] # ChannelNum(k)
      BY <2>3 DEF AssignedInUse, AssignmentReserves, UsedOnce
    <3> QED BY <1>1, <2>1, <3>1, <3>2, <3>3 DEF UsedOnce, Pending
  <2> QED BY <1>4, <2>2, <2>3 DEF AssignDevice, Command
<1>5. ASSUME NEW t \in Threads, NEW o \in Objects, NewInstance(t, o) PROVE UsedOnce'
  <2>1. /\ Pending(t) /\ UNCHANGED hw /\ state[o] = "none"
        /\ num' = [num EXCEPT ![o] = ChannelNum(doing[t])]
        /\ registry' = [registry EXCEPT ![doing[t]] = o]
        /\ doing' = [doing EXCEPT ![t] = NULL]
    BY <1>5 DEF NewInstance, Allocate, Pending
  <2>2. /\ \A k \in Entries \ {doing[t]} : registry'[k] = registry[k]
        /\ doing[t] \in Keys
        /\ doing'[t] = NULL /\ \A u \in Threads \ {t} : doing'[u] = doing[u]
    BY <1>1, <2>1 DEF TypeOK, Pending
  <2>3. \A u \in Threads : doing[u] \in Objects => num'[doing[u]] = num[doing[u]]
    BY <1>3, <2>1 DEF TypeOK
  <2>4. /\ \A k \in Keys : registry[k] # NULL => ChannelNum(k) # ChannelNum(doing[t])
        /\ \A u \in Threads \ {t} : Pending(u) => ChannelNum(doing[u]) # ChannelNum(doing[t])
        /\ \A u \in Threads : doing[u] \in Objects => num[doing[u]] # ChannelNum(doing[t])
    BY <2>1 DEF UsedOnce
  <2> QED BY <1>1, <2>1, <2>2, <2>3, <2>4 DEF UsedOnce, Pending
<1>6. ASSUME NEW t \in Threads, NEW o \in Objects, NewInstanceRaises(t, o) PROVE UsedOnce'
  <2>1. /\ UNCHANGED <<hw, registry>> /\ state[o] = "none"
        /\ num' = [num EXCEPT ![o] = 0]
        /\ doing' = [doing EXCEPT ![t] = NULL]
    BY <1>6 DEF NewInstanceRaises, Allocate
  <2>2. \A u \in Threads : doing[u] \in Objects => num'[doing[u]] = num[doing[u]]
    BY <1>3, <2>1 DEF TypeOK
  <2>3. \A u \in Threads : doing'[u] = doing[u] \/ doing'[u] = NULL
    BY <2>1 DEF TypeOK
  <2> QED BY <1>2, <2>1, <2>2, <2>3
<1>7. ASSUME NEW t \in Threads, NEW o \in Objects, CloseDevice(t, o) PROVE UsedOnce'
  <2>1. UNCHANGED <<num, registry>>
    BY <1>7 DEF CloseDevice
  <2>2. CASE doing' = [doing EXCEPT ![t] = NULL] /\ UNCHANGED hw
    BY <1>2, <2>1, <2>2 DEF TypeOK
  <2>3. CASE /\ hw[num[o]] = "open"
             /\ hw' = [hw EXCEPT ![num[o]] = "assigned"]
             /\ doing' = [doing EXCEPT ![t] = o]
    <3>1. \A n \in Channels : hw[n] # "unassigned" => hw'[n] # "unassigned"
      BY <2>3 DEF TypeOK
    <3>2. hw[num[o]] # "unassigned"
      BY <2>3
    <3>3. doing'[t] = o /\ \A u \in Threads \ {t} : doing'[u] = doing[u]
      BY <2>3 DEF TypeOK
    <3>4. Registered(o)
      BY <1>7 DEF Orderly, ClosesUnregistered
    <3>5. PICK k \in Keys : registry[k] = o
      BY <1>1, <3>4 DEF Registered, UsedOnce
    <3>6. num[o] = ChannelNum(k)
      BY <1>1, <3>5 DEF HeapInv, RegistryIsSound
    <3>7. \A j \in Keys : registry[j] # NULL /\ ChannelNum(j) = num[o] => registry[j] = o
      BY <1>1, <3>5, <3>6 DEF UsedOnce
    <3>8. \A u \in Threads : Pending(u) => ChannelNum(doing[u]) # num[o]
      BY <1>1, <3>5, <3>6 DEF UsedOnce
    <3> QED BY <1>1, <2>1, <3>1, <3>2, <3>3, <3>7, <3>8 DEF UsedOnce, Pending
  <2> QED BY <1>7, <2>2, <2>3 DEF CloseDevice, Command
<1>8. ASSUME NEW t \in Threads, CloseForgets(t) PROVE UsedOnce'
  <2>1. /\ UNCHANGED <<hw, num>> /\ doing' = [doing EXCEPT ![t] = NULL]
        /\ registry' = [registry EXCEPT ![num[doing[t]]] = NULL]
    BY <1>8 DEF CloseForgets
  <2> QED BY <1>2, <2>1 DEF TypeOK
<1>9. CASE Reset \/ CloseLibrary
  <2>1. \A t \in Threads : doing[t] = NULL
    BY <1>9 DEF Orderly, ResetsBetween
  <2>2. UNCHANGED doing /\ \A k \in Entries : registry'[k] = NULL
    BY <1>9 DEF Reset, CloseLibrary, NoEntry
  <2> QED BY <1>1, <2>1, <2>2 DEF UsedOnce, Pending
<1>10. ASSUME NEW o \in Objects, Method(o) PROVE UsedOnce'
  BY <1>2, <1>10 DEF Method, OnEvent, Open, Retain, Release, Command, TypeOK
<1>11. ASSUME NEW o \in Objects, Free(o) PROVE UsedOnce'
  <2>1. /\ UNCHANGED <<registry, doing>>
        /\ num' = [num EXCEPT ![o] = 0]
        /\ \A n \in Channels \ {num[o]} : hw'[n] = hw[n]
        /\ ~OnStack(o)
    BY <1>11 DEF Free, Collect, Command, Reachable, TypeOK
  <2>2. ~ClosingOf(num[o])
    BY <1>11 DEF Orderly, FreesAnothersOrClosed
  <2>3. \A u \in Threads : doing[u] \in Objects =>
          num'[doing[u]] = num[doing[u]] /\ hw'[num[doing[u]]] = hw[num[doing[u]]]
    BY <1>1, <2>1, <2>2 DEF OnStack, ClosingOf, TypeOK
  <2> QED BY <1>1, <2>1, <2>3 DEF UsedOnce, Pending
<1>12. CASE Event
  <2>1. ASSUME NEW n \in Channels, DeviceCloses(n) PROVE UsedOnce'
    BY <1>2, <2>1 DEF DeviceCloses, TypeOK
  <2>2. CASE UNCHANGED <<registry, doing, hw, num>>
    BY <1>2, <2>2
  <2> QED BY <1>12, <2>1, <2>2
             DEF Event, DeviceEvent, NoChannel, NoBlock, CallBlock, BlockReturns, BlockRaises,
                 OnEventTx, OnEventTxRaises, Ends
<1>13. CASE UNCHANGED vars
  BY <1>2, <1>13 DEF vars
<1> QED
  BY <1>4, <1>5, <1>6, <1>7, <1>8, <1>9, <1>10, <1>11, <1>12, <1>13 DEF Next, WithinSession, InThread

\* What close takes out of the registry is the channel it was called for.
CloseSparesOthers ==
    [][\A t \in Threads : CloseForgets(t) =>
         \A k \in Entries : registry'[k] # registry[k] => registry[k] = doing[t]]_vars

\* Though close deletes by number, after a log call in which any other thread may
\* have run, and though registry keys are wider than numbers, with commands that do
\* what the library says only the three kinds of step named above can make it
\* remove another channel (channel.c:393).
THEOREM CloseRemovesOwn ==
    ASSUME Reliable
    PROVE  Spec /\ [][Orderly]_vars => CloseSparesOthers
<1>1. Init => AssignedInUse /\ UsedOnce
  BY ChannelRegistryAssumption
     DEF Init, AssignedInUse, AssignmentReserves, UsedOnce, Pending, Entries
<1>2. ASSUME TypeOK, HeapInv, AssignedInUse, UsedOnce, [Next]_vars, [Orderly]_vars
      PROVE  AssignedInUse' /\ UsedOnce'
  <2>1. CASE Orderly
    <3>1. ~FreesAnothers /\ ~ResetsUnderway
      BY <2>1, ChannelRegistryAssumption
         DEF Orderly, FreesAnothersOrClosed, FreesAnothers, ResetsBetween, ResetsUnderway, Pending
    <3> QED BY <1>2, <2>1, <3>1, AssignedInUseInductive, UsedOnceInductive
  <2>2. CASE UNCHANGED vars
    BY <1>2, <2>2
       DEF AssignedInUse, AssignmentReserves, UsedOnce, Pending, vars, objectVars
  <2> QED BY <1>2, <2>1, <2>2
<1>3. ASSUME TypeOK, UsedOnce, NEW t \in Threads, CloseForgets(t),
             NEW k \in Entries, registry'[k] # registry[k]
      PROVE  registry[k] = doing[t]
  <2>1. k = num[doing[t]] /\ registry[k] # NULL /\ doing[t] \in Objects
    BY <1>3 DEF CloseForgets, TypeOK
  <2>2. k \in Keys
    BY <2>1, <1>3 DEF UsedOnce
  <2>3. ChannelNum(k) = num[doing[t]]
    BY <1>3, <2>1, ChannelIsByte DEF TypeOK
  <2> QED BY <1>3, <2>1, <2>2, <2>3 DEF UsedOnce
<1>4. TypeOK /\ UsedOnce /\ [Next]_vars =>
        [\A t \in Threads : CloseForgets(t) =>
           \A k \in Entries : registry'[k] # registry[k] => registry[k] = doing[t]]_vars
  BY <1>3
<1> QED
  BY <1>1, <1>2, <1>4, TypeCorrect, HeapInvHolds, PTL DEF Spec, CloseSparesOthers

=============================================================================
