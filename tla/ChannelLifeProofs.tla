-------------------------- MODULE ChannelLifeProofs --------------------------
(***************************************************************************)
(* ChannelRegistry implements ChannelLife, for any objects and any channel  *)
(* numbers.                                                                 *)
(***************************************************************************)
EXTENDS ChannelRegistryProofs, ChannelRegistry_Refinement

-----------------------------------------------------------------------------
\* What a step may do to the mapped state

\* The phases of all channels but those in E, which were registered, stay.
Closes(E) ==
    \A p \in Objects :
        PhaseOf(p)' = IF p \in E /\ PhaseOf(p) = "registered" THEN "closed" ELSE PhaseOf(p)

\* Nothing happens, as far as ChannelLife goes.
LEMMA NothingHappens ==
    ASSUME \A p \in Objects : PhaseOf(p)' = PhaseOf(p), Pointed' = Pointed, Active' = Active
    PROVE  UNCHANGED Life!lvars
BY DEF Life!lvars, Phase

\* Channels leave the registry, libant loses buffers.
LEMMA SomeForgotten ==
    ASSUME NEW E \in SUBSET Objects, Closes(E), Pointed' \subseteq Pointed, Active' = Active
    PROVE  Life!Next
<1>1. Phase' = Life!Without(E)
  BY DEF Closes, Phase, Life!Without
<1>2. Life!Forget(E, Pointed')
  BY <1>1 DEF Life!Forget
<1> QED BY <1>2 DEF Life!Next

Listed == {p \in Objects : Registered(p)}

\* A step that registers nobody and keeps the objects closes those it takes out of
\* the registry.
LEMMA UnregisteredIsClosed ==
    ASSUME \A p \in Objects : state'[p] = "live" <=> state[p] = "live",
           Listed' \subseteq Listed
    PROVE  Closes(Objects \ Listed')
BY DEF Closes, PhaseOf, Listed, Registered

-----------------------------------------------------------------------------
\* The steps

LEMMA StepImplementsLife ==
    TypeOK /\ HeapInv /\ [Next]_vars => [Life!Next]_Life!lvars
<1> SUFFICES ASSUME TypeOK, HeapInv, [Next]_vars PROVE Life!Next \/ UNCHANGED Life!lvars
  OBVIOUS
<1> USE DEF objectVars
<1>1. ASSUME UNCHANGED <<state, registry, evfn>>, Active' = Active
      PROVE  UNCHANGED Life!lvars
  BY <1>1, NothingHappens DEF PhaseOf, Registered, Pointed
<1>2. ASSUME NEW t \in Threads,
             (\E k \in Keys : AssignDevice(t, k)) \/ \E o \in Objects : CloseDevice(t, o)
      PROVE  UNCHANGED Life!lvars
  BY <1>1, <1>2 DEF AssignDevice, CloseDevice, Active
<1>3. ASSUME NEW o \in Objects, Open(o) \/ Retain(o) \/ Release(o)
      PROVE  UNCHANGED Life!lvars
  BY <1>1, <1>3 DEF Open, Retain, Release, Active
<1>4. ASSUME NEW t \in Threads, NEW o \in Objects, NewInstance(t, o) PROVE Life!Next
  <2> DEFINE k == doing[t]
             E == Objects \ Listed'
  <2>1. k \in Entries /\ registry' = [registry EXCEPT ![k] = o]
    BY <1>4 DEF NewInstance, Entries
  <2>2. state[o] = "none" /\ state' = [state EXCEPT ![o] = "live"]
    BY <1>4 DEF NewInstance, Allocate
  <2> HIDE DEF k
  <2>3. PhaseOf(o) = "none" /\ PhaseOf(o)' = "registered"
    BY <2>1, <2>2 DEF PhaseOf, Registered, TypeOK
  <2>4. ASSUME NEW p \in Objects, p # o
        PROVE  PhaseOf(p)' = IF p \in E /\ PhaseOf(p) = "registered" THEN "closed" ELSE PhaseOf(p)
    <3>1. Registered(p)' => Registered(p)
      BY <2>1, <2>4 DEF Registered, TypeOK
    <3>2. state'[p] = state[p]
      BY <2>2, <2>4 DEF TypeOK
    <3> QED BY <2>1, <2>4, <3>1, <3>2 DEF PhaseOf, Listed, Registered
  <2>5. Phase' = [Life!Without(E) EXCEPT ![o] = "registered"]
    BY <2>3, <2>4 DEF Phase, Life!Without
  <2>6. Pointed' = Pointed /\ Active' = Active
    BY <1>4 DEF NewInstance, Allocate, Pointed, Active
  <2>7. Life!Create(o, E)
    BY <2>3, <2>5, <2>6 DEF Life!Create, Phase
  <2> QED BY <2>7 DEF Life!Next
<1>5. ASSUME NEW t \in Threads, NEW o \in Objects, NewInstanceRaises(t, o)
      PROVE  UNCHANGED Life!lvars
  <2>1. \A p \in Objects : PhaseOf(p)' = PhaseOf(p)
    BY <1>5 DEF NewInstanceRaises, Allocate, PhaseOf, Registered, TypeOK
  <2> QED BY <1>5, <2>1, NothingHappens DEF NewInstanceRaises, Allocate, Pointed, Active
<1>6. CASE Reset \/ CloseLibrary \/ \E t \in Threads : CloseForgets(t)
  <2>1. \A k \in Entries : registry'[k] \in {registry[k], NULL}
    BY <1>6 DEF Reset, CloseLibrary, CloseForgets, NoEntry, TypeOK
  <2>2. Listed' \subseteq Listed
    BY <2>1, ChannelRegistryAssumption DEF Registered, Listed
  <2>3. Closes(Objects \ Listed')
    BY <1>6, <2>2, UnregisteredIsClosed DEF Reset, CloseLibrary, CloseForgets
  <2>4. Pointed' \subseteq Pointed /\ Active' = Active
    BY <1>6, ChannelRegistryAssumption
       DEF Reset, CloseLibrary, CloseForgets, Pointed, Active
  <2> QED BY <2>3, <2>4, SomeForgotten
<1>7. ASSUME NEW o \in Objects, OnEvent(o) PROVE Life!Next
  <2>1. state[o] = "live" /\ num[o] \in Channels
    BY <1>7 DEF OnEvent, Calls, HeapInv, TypeOK
  <2>2. evfn' = [evfn EXCEPT ![num[o]] = o]
    BY <1>7 DEF OnEvent
  <2>3. Pointed' = (Pointed \cap Pointed') \cup {o}
    BY <2>1, <2>2 DEF Pointed, TypeOK
  <2>4. Phase' = Phase /\ Active' = Active /\ Phase[o] # "none"
    BY <1>7, <2>1 DEF OnEvent, Phase, PhaseOf, Registered, Active
  <2>5. Life!Give(o, Pointed \cap Pointed')
    BY <2>3, <2>4 DEF Life!Give
  <2> QED BY <2>5 DEF Life!Next
<1>8. ASSUME NEW o \in Objects, Free(o) PROVE Life!Next
  <2>1. /\ state[o] # "none" /\ ~Registered(o) /\ ~OnStack(o)
        /\ state' = [state EXCEPT ![o] = "none"]
        /\ evfn' = [evfn EXCEPT ![num[o]] = NULL]
        /\ UNCHANGED <<registry, call>>
    BY <1>8 DEF Free, Collect, Reachable
  <2>2. Pointed' \subseteq Pointed /\ Active' = Active
    BY <2>1, ChannelRegistryAssumption DEF Pointed, Active, TypeOK
  <2>3. PhaseOf(o)' = "none" /\ \A p \in Objects \ {o} : PhaseOf(p)' = PhaseOf(p)
    BY <2>1 DEF PhaseOf, Registered, TypeOK
  <2>4. CASE state[o] = "live"
    <3>1. PhaseOf(o) = "closed"
      BY <2>1, <2>4 DEF PhaseOf
    <3>2. Active # o
      BY <2>1, ChannelRegistryAssumption DEF Active, OnStack
    <3>3. o \notin Pointed'
      BY <2>1, ChannelRegistryAssumption DEF Pointed, HeapInv, NoDanglingBuffer, TypeOK
    <3>4. Phase' = [Phase EXCEPT ![o] = "none"]
      BY <2>3 DEF Phase
    <3>5. Life!Collect(o, Pointed')
      BY <2>2, <3>1, <3>2, <3>3, <3>4 DEF Life!Collect, Phase
    <3> QED BY <2>2, <3>5 DEF Life!Next
  <2>5. CASE state[o] # "live"
    <3>1. Closes({})
      BY <2>3, <2>5 DEF Closes, PhaseOf
    <3> QED BY <2>2, <3>1, SomeForgotten
  <2> QED BY <2>4, <2>5
<1>9. ASSUME NEW n \in Channels, DeviceCloses(n) \/ DeviceEvent(n) PROVE UNCHANGED Life!lvars
  BY <1>1, <1>9, ChannelRegistryAssumption DEF DeviceCloses, DeviceEvent, Active, TypeOK, Calling
<1>10. ASSUME NEW b, Ends(b) PROVE Life!Next
  <2>1. Phase' = Phase /\ Pointed' = Pointed /\ Active' = NULL
    BY <1>10 DEF Ends, Phase, PhaseOf, Registered, Pointed, Active
  <2> QED BY <2>1 DEF Life!Next, Life!Stop
<1>11. CASE NoChannel \/ NoBlock \/ BlockReturns \/ BlockRaises \/ OnEventTx \/ OnEventTxRaises
  BY <1>10, <1>11 DEF NoChannel, NoBlock, BlockReturns, BlockRaises, OnEventTx, OnEventTxRaises
<1>12. CASE CallBlock
  <2> DEFINE o == registry[call.chan]
  <2>1. /\ call \in Calling /\ call.handler = NULL
        /\ o \in Objects /\ o # NULL /\ call.chan \in Entries
        /\ call' = [call EXCEPT !.handler = o]
        /\ UNCHANGED <<state, registry, evfn>>
    BY <1>12, ChannelRegistryAssumption DEF CallBlock, Looking, TypeOK, Calling, Entries
  <2>2. call # NULL /\ call' # NULL
    BY <1>12, <2>1, ChannelRegistryAssumption DEF CallBlock, Looking, Calling, Channels, Entries, ChannelNum
  <2>3. PhaseOf(o) = "registered"
    BY <2>1 DEF PhaseOf, Registered, HeapInv, RegistryIsSound
  <2>4. Phase' = Phase /\ Pointed' = Pointed
    BY <2>1 DEF Phase, PhaseOf, Registered, Pointed
  <2>5. Active = NULL /\ Active' = o
    BY <2>1, <2>2 DEF Active, Calling
  <2> HIDE DEF o
  <2>6. Life!Start(o)
    BY <2>1, <2>3, <2>4, <2>5 DEF Life!Start, Phase
  <2> QED BY <2>1, <2>6 DEF Life!Next
<1>13. CASE UNCHANGED vars
  BY <1>1, <1>13 DEF vars, Active
<1> QED
  BY <1>2, <1>3, <1>4, <1>5, <1>6, <1>7, <1>8, <1>9, <1>11, <1>12, <1>13
     DEF Next, WithinSession, InThread, Method, Event

\* An Ant::Channel is registered once, closed for good, its block is started only
\* while it is registered, and it is freed only when nothing in C can reach it.
THEOREM Implements == Spec => ImplementsLife
<1>1. Init => Life!Init
  BY ChannelRegistryAssumption
     DEF Init, Life!Init, Phase, PhaseOf, Pointed, Active
<1> QED
  BY <1>1, StepImplementsLife, TypeCorrect, HeapInvHolds, PTL
     DEF Spec, ImplementsLife, Life!Spec

=============================================================================
