------------------------ MODULE InterfaceMonitor_proofs ------------------------
(* Theorems about InterfaceMonitor, for any number of handlers, ports, names and *)
(* declarations, whether or not Manager.Remove waits, and their proofs.          *)
EXTENDS InterfaceMonitor, InterfaceRegistry_proofs

--------------------------------------------------------------------------------
(* Calls carry what the client may ask for.                                *)

LEMMA CallFields ==
    ASSUME RpcTypeOK, NEW h \in Handlers
    PROVE  /\ rpc[h].op = "add" => rpc[h].decl \in Declared
           /\ rpc[h].op = "delete" => rpc[h].upper \in Uppers
           /\ rpc[h].op = "wait" => rpc[h].lower \in Lowers
BY DEF RpcTypeOK, Calls, NoCall

LEMMA AnswerTypes ==
    ASSUME RpcTypeOK, NEW h \in Handlers, NEW r \in {"nil", "error"}, Answer(h, r)
    PROVE  RpcTypeOK'
BY DEF RpcTypeOK, Answer, Calls

LEMMA UnchangedRpc ==
    ASSUME RpcTypeOK, UNCHANGED rpcVars
    PROVE  RpcTypeOK'
BY DEF RpcTypeOK, rpcVars

LEMMA RpcStep ==
    ASSUME RegistryTypeOK, RpcTypeOK, [Next]_vars
    PROVE  RpcTypeOK'
<1>1. CASE UNCHANGED vars
  BY <1>1, UnchangedRpc DEF vars, rpcVars
<1>2. CASE LoopStep
  BY <1>2, UnchangedRpc DEF LoopStep, InitInterface, InitDone, Dial, CopyLan, CopyWan,
     AddPort, AddsDone, SetUpTests, Find, Store
<1>3. CASE \E k \in Kinds : Take(k)
  BY <1>3, UnchangedRpc DEF Take
<1>4. CASE Tick \/ \E u \in Uppers : StoreDelay(u)
  BY <1>4, UnchangedRpc DEF Tick, StoreDelay
<1>5. CASE \E l \in Lowers : Notify(l) \/ Send(l)
  BY <1>5, UnchangedRpc DEF Notify, Send
<1>6. ASSUME NEW h \in Handlers, Add(h) \/ Delete(h) PROVE RpcTypeOK'
  BY <1>6 DEF Add, Delete, Call, RpcTypeOK, Calls
<1>7. ASSUME NEW h \in Handlers, AddFails(h) \/ AddExists(h) \/ AddInterface(h)
                                 \/ DeleteUnknown(h) \/ DeleteDone(h)
      PROVE  RpcTypeOK'
  BY <1>7, AnswerTypes DEF AddFails, AddExists, AddInterface, DeleteUnknown, DeleteDone
<1>8. ASSUME NEW h \in Handlers, DeleteInterface(h) PROVE RpcTypeOK'
  <2> DEFINE l == upper2[rpc[h].upper].lower
  <2>1. l \in Lowers
    BY <1>8 DEF DeleteInterface, Unregister, RegistryTypeOK, IsMap, Interface
  <2>2. CASE Answer(h, "error") \/ Answer(h, "nil")
    BY <2>2, AnswerTypes
  <2>3. CASE rpc' = [rpc EXCEPT ![h] = [op |-> "wait", lower |-> l]] /\ UNCHANGED reply
    BY <2>1, <2>3 DEF RpcTypeOK, Calls
  <2> QED
    BY <1>8, <2>2, <2>3 DEF DeleteInterface
<1> QED
  BY <1>1, <1>2, <1>3, <1>4, <1>5, <1>6, <1>7, <1>8 DEF Next, Serve

--------------------------------------------------------------------------------
(* Every step is an atomic step of the registry, or leaves it alone.       *)

LEMMA RegistryStep ==
    ASSUME RpcTypeOK, [Next]_vars
    PROVE  [RegistryNext]_registry
<1>1. CASE UNCHANGED vars
  BY <1>1 DEF vars
<1>2. ASSUME NEW d \in Configured, InitInterface(d) PROVE RegistryNext
  BY <1>2, MonitorAssumption DEF InitInterface, RegistryNext
<1>3. CASE InitDone \/ Dial \/ CopyLan \/ CopyWan \/ AddsDone \/ SetUpTests \/ Find
           \/ Store \/ \E l \in Lowers : AddPort(l)
  BY <1>3 DEF InitDone, Dial, CopyLan, CopyWan, AddsDone, SetUpTests, Find, Store, AddPort
<1>4. CASE (\E k \in Kinds : Take(k)) \/ Tick \/ (\E u \in Uppers : StoreDelay(u))
           \/ (\E l \in Lowers : Notify(l) \/ Send(l))
  BY <1>4 DEF Take, Tick, StoreDelay, Notify, Send
<1>5. ASSUME NEW h \in Handlers, AddInterface(h) PROVE RegistryNext
  BY <1>5, CallFields DEF AddInterface, RegistryNext
<1>6. ASSUME NEW h \in Handlers, DeleteInterface(h) PROVE RegistryNext
  BY <1>6, CallFields DEF DeleteInterface, RegistryNext
<1>7. ASSUME NEW h \in Handlers, Add(h) \/ Delete(h) \/ AddFails(h) \/ AddExists(h)
                                 \/ DeleteUnknown(h) \/ DeleteDone(h)
      PROVE  UNCHANGED registry
  BY <1>7 DEF Add, Delete, Call, AddFails, AddExists, DeleteUnknown, DeleteDone
<1> QED
  BY <1>1, <1>2, <1>3, <1>4, <1>5, <1>6, <1>7 DEF Next, LoopStep, Serve

\* However RPC handlers, the monitoring loop and the manager's goroutines interleave,
\* the maps and lists behave as the atomic registry does.
THEOREM MonitorImplementsRegistry == Spec => ImplementsRegistry
<1>1. Init => RegistryInit /\ RegistryTypeOK /\ RpcTypeOK
  BY RegistryTypeInitially DEF Init, RpcTypeOK, Calls
<1>2. RegistryTypeOK /\ RpcTypeOK /\ [Next]_vars
      => [RegistryNext]_registry /\ RegistryTypeOK' /\ RpcTypeOK'
  BY RegistryStep, RpcStep, RegistryTypeInductive
<1> QED
  BY <1>1, <1>2, PTL DEF Spec, ImplementsRegistry, RegistrySpec

\* The registry's invariants hold of it in the running system.
THEOREM MonitoredRegistry ==
    Spec => [](RegistryTypeOK /\ IndexesAgree /\ ListedOnce /\ IndexesComplete)
BY MonitorImplementsRegistry, RegistryTypeCorrect, LookupsAgree, ListsMatch,
   LookupsComplete, PTL DEF ImplementsRegistry

--------------------------------------------------------------------------------
(* The monitor keeps its types.                                            *)

\* While the loop stores delays, what it has left are names it tests.
LeftTested == loop = "delays" => left \subseteq DOMAIN tests

LEMMA LoopTypeStep ==
    ASSUME RegistryTypeOK, ListedOnce, LoopTypeOK, FeedTypeOK, LeftTested, [Next]_vars
    PROVE  LoopTypeOK' /\ LeftTested'
<1> USE DEF LoopTypeOK, LeftTested
<1>1. CASE UNCHANGED vars
  BY <1>1 DEF vars
<1>2. CASE \E d \in Configured : InitInterface(d)
  BY <1>2 DEF InitInterface
<1>3. CASE InitDone \/ Dial \/ AddsDone \/ \E l \in Lowers : AddPort(l)
  BY <1>3 DEF InitDone, Dial, AddsDone, AddPort, GoTo
<1>4. \A list \in {lan, wan} : PortsOf(list) \subseteq Lowers
  <2>1. \A u \in Uppers : lan[u] > 0 \/ wan[u] > 0 => u \in DOMAIN upper2
    BY DEF ListedOnce
  <2>2. \A u \in DOMAIN upper2 : upper2[u].lower \in Lowers
    BY DEF RegistryTypeOK, IsMap, Interface
  <2> QED
    BY <2>1, <2>2 DEF PortsOf
<1>5. CASE CopyLan \/ CopyWan
  BY <1>4, <1>5 DEF CopyLan, CopyWan, GoTo
<1>6. CASE SetUpTests
  <2>1. \A u \in Uppers : wan[u] > 0 => u \in DOMAIN upper2
    BY DEF ListedOnce
  <2>2. \A u \in DOMAIN upper2 : upper2[u].peer \in Peers \cup {NoPeer}
    BY DEF RegistryTypeOK, IsMap, Interface
  <2> QED
    BY <1>6, <2>1, <2>2 DEF SetUpTests, GoTo
<1>7. CASE Find \/ Store
  <2>1. \A l \in DOMAIN lower2 : lower2[l] \in Interface
    BY DEF RegistryTypeOK, IsMap
  <2> QED
    BY <1>7, <2>1 DEF Find, Store, GoTo
<1>8. ASSUME NEW k \in Kinds, Take(k) PROVE LoopTypeOK' /\ LeftTested'
  <2>1. chan[k] \in Seq(Lowers) /\ chan[k] # <<>>
    BY <1>8 DEF Take, FeedTypeOK
  <2>2. Head(chan[k]) \in Lowers
    BY <2>1
  <2> QED
    BY <1>8, <2>2 DEF Take, GoTo
<1>9. CASE Tick \/ \E u \in Uppers : StoreDelay(u)
  BY <1>9 DEF Tick, StoreDelay, GoTo
<1>10. CASE (\E l \in Lowers : Notify(l) \/ Send(l))
            \/ (\E h \in Handlers : Add(h) \/ Delete(h) \/ Serve(h) \/ AddFails(h)
                                    \/ DeleteDone(h))
  <2>1. UNCHANGED loopVars
    BY <1>10 DEF Notify, Send, Add, Delete, Call, Serve, AddFails, AddExists, AddInterface,
       DeleteUnknown, DeleteInterface, DeleteDone
  <2> QED
    BY <2>1 DEF loopVars
<1> QED
  BY <1>1, <1>2, <1>3, <1>5, <1>6, <1>7, <1>8, <1>9, <1>10 DEF Next, LoopStep

LEMMA FeedTypeStep ==
    ASSUME RegistryTypeOK, FeedTypeOK, RpcTypeOK, [Next]_vars
    PROVE  FeedTypeOK'
<1> USE DEF FeedTypeOK
<1>1. CASE UNCHANGED gnmiVars
  BY <1>1 DEF gnmiVars
<1>2. CASE Dial \/ \E l \in Lowers : AddPort(l)
  BY <1>2 DEF Dial, AddPort
<1>3. ASSUME NEW k \in Kinds, Take(k) PROVE FeedTypeOK'
  <2>1. chan[k] \in Seq(Lowers) /\ chan[k] # <<>>
    BY <1>3 DEF Take
  <2>2. Tail(chan[k]) \in Seq(Lowers) /\ Len(Tail(chan[k])) <= ChanCap
    BY <2>1, MonitorAssumption
  <2> QED
    BY <1>3, <2>2 DEF Take
<1>4. ASSUME NEW l \in Lowers, Notify(l) PROVE FeedTypeOK'
  BY <1>4, MonitorAssumption DEF Notify, Kinds
<1>5. ASSUME NEW l \in Lowers, Send(l) PROVE FeedTypeOK'
  <2> DEFINE k == Head(feed[l])
  <2>1. feed[l] \in Seq(Kinds) /\ feed[l] # <<>>
    BY <1>5 DEF Send
  <2>2. k \in Kinds /\ Tail(feed[l]) \in Seq(Kinds)
    BY <2>1
  <2>3. Append(chan[k], l) \in Seq(Lowers) /\ Len(Append(chan[k], l)) <= ChanCap
    BY <1>5, <2>2, MonitorAssumption DEF Send, HasRoom
  <2> QED
    BY <1>5, <2>2, <2>3 DEF Send
<1>6. ASSUME NEW h \in Handlers, AddInterface(h) PROVE FeedTypeOK'
  BY <1>6, CallFields, RegistryAssumption DEF AddInterface, Declaration
<1>7. ASSUME NEW h \in Handlers, DeleteInterface(h) \/ DeleteDone(h) PROVE FeedTypeOK'
  BY <1>7 DEF DeleteInterface, DeleteDone, Unsubscribed
<1>8. CASE (\E d \in Configured : InitInterface(d)) \/ InitDone \/ CopyLan \/ CopyWan
           \/ AddsDone \/ SetUpTests \/ Find \/ Store \/ Tick
           \/ \E u \in Uppers : StoreDelay(u)
  BY <1>1, <1>8 DEF InitInterface, InitDone, CopyLan, CopyWan, AddsDone, SetUpTests, Find,
     Store, Tick, StoreDelay
<1>9. ASSUME NEW h \in Handlers, Add(h) \/ Delete(h) \/ AddFails(h) \/ AddExists(h)
                                 \/ DeleteUnknown(h)
      PROVE  FeedTypeOK'
  BY <1>1, <1>9 DEF Add, Delete, Call, AddFails, AddExists, DeleteUnknown
<1>10. CASE UNCHANGED vars
  BY <1>1, <1>10 DEF vars
<1> QED
  BY <1>2, <1>3, <1>4, <1>5, <1>6, <1>7, <1>8, <1>9, <1>10 DEF Next, LoopStep, Serve

\* Every object has telemetry, and nothing else has.
TeleTypeOK == DOMAIN tele = 0..objects - 1 /\ tele \in [DOMAIN tele -> Telemetry]

LEMMA NewTelemetryTypes ==
    ASSUME RegistryTypeOK, TeleTypeOK, NEW d \in Declared, Register(d), NewTelemetry
    PROVE  TeleTypeOK'
<1>1. objects \in Nat /\ objects' = objects + 1
  BY DEF RegistryTypeOK, Register
<1>2. 0..objects' - 1 = 0..objects - 1 \cup {objects}
  BY <1>1
<1>3. [counters |-> None, delay |-> None] \in Telemetry
  BY DEF Telemetry
<1> QED
  BY <1>2, <1>3 DEF TeleTypeOK, NewTelemetry, Put

\* A new delay leaves every counter, and every other telemetry, as it was.
LEMMA DelayWritten ==
    ASSUME TeleTypeOK, NEW o, NEW v, tele' = [tele EXCEPT ![o].delay = v]
    PROVE  /\ DOMAIN tele' = DOMAIN tele
           /\ \A x \in DOMAIN tele :
                 \/ tele'[x] = tele[x]
                 \/ tele'[x] = [counters |-> tele[x].counters, delay |-> v]
<1>1. DOMAIN tele' = DOMAIN tele
  OBVIOUS
<1>2. ASSUME NEW x \in DOMAIN tele
      PROVE  \/ tele'[x] = tele[x]
             \/ tele'[x] = [counters |-> tele[x].counters, delay |-> v]
  <2>1. CASE x # o
    BY <2>1
  <2>2. CASE x = o
    <3>1. tele'[x] = [tele[x] EXCEPT !.delay = v]
      BY <2>2
    <3>2. tele[x] \in Telemetry
      BY DEF TeleTypeOK
    <3> QED
      BY <3>1, <3>2 DEF Telemetry
  <2> QED
    BY <2>1, <2>2
<1> QED
  BY <1>1, <1>2

LEMMA TeleTypeStep ==
    ASSUME RegistryTypeOK, LoopTypeOK, RpcTypeOK, LeftTested, TeleTypeOK, [Next]_vars
    PROVE  TeleTypeOK'
<1>1. CASE UNCHANGED <<tele, objects>>
  BY <1>1 DEF TeleTypeOK
<1>2. ASSUME NEW d \in Configured, InitInterface(d) PROVE TeleTypeOK'
  BY <1>2, NewTelemetryTypes, MonitorAssumption DEF InitInterface
<1>3. ASSUME NEW h \in Handlers, AddInterface(h) PROVE TeleTypeOK'
  BY <1>3, NewTelemetryTypes, CallFields DEF AddInterface
<1>4. CASE Store
  <2>1. tele' = [tele EXCEPT ![sink.obj].counters = taken] /\ objects' = objects
    BY <1>4 DEF Store, registry
  <2> QED
    BY <2>1 DEF TeleTypeOK, Telemetry, LoopTypeOK
<1>5. ASSUME NEW u \in Uppers, StoreDelay(u) PROVE TeleTypeOK'
  <2>1. tests[u] \in Peers \cup {NoPeer}
    BY <1>5 DEF StoreDelay, LeftTested, LoopTypeOK
  <2>2. objects' = objects
    BY <1>5 DEF StoreDelay, registry
  <2>3. \/ tele' = tele
        \/ tele' = [tele EXCEPT ![upper2[u].obj].delay = tests[u]]
    BY <1>5 DEF StoreDelay
  <2>4. CASE tele' = tele
    BY <2>2, <2>4 DEF TeleTypeOK
  <2>5. CASE tele' = [tele EXCEPT ![upper2[u].obj].delay = tests[u]]
    <3>1. /\ DOMAIN tele' = DOMAIN tele
          /\ \A x \in DOMAIN tele :
                \/ tele'[x] = tele[x]
                \/ tele'[x] = [counters |-> tele[x].counters, delay |-> tests[u]]
      BY <2>5, DelayWritten
    <3>2. ASSUME NEW x \in DOMAIN tele PROVE tele'[x] \in Telemetry
      <4>1. tele[x] \in Telemetry
        BY DEF TeleTypeOK
      <4>2. tele[x].counters \in Lowers \cup {None}
        BY <4>1 DEF Telemetry
      <4> QED
        BY <2>1, <3>1, <4>1, <4>2 DEF Telemetry
    <3>3. tele' = [x \in DOMAIN tele |-> tele'[x]]
      BY <2>5, <3>1
    <3> QED
      BY <2>2, <3>1, <3>2, <3>3 DEF TeleTypeOK
  <2> QED
    BY <2>3, <2>4, <2>5
<1>6. ASSUME NEW h \in Handlers, DeleteInterface(h) PROVE UNCHANGED <<tele, objects>>
  BY <1>6 DEF DeleteInterface, Unregister
<1>7. CASE InitDone \/ Dial \/ CopyLan \/ CopyWan \/ AddsDone \/ SetUpTests \/ Find \/ Tick
           \/ (\E l \in Lowers : AddPort(l) \/ Notify(l) \/ Send(l))
           \/ (\E k \in Kinds : Take(k))
  BY <1>1, <1>7 DEF InitDone, Dial, CopyLan, CopyWan, AddsDone, SetUpTests, Find, Tick,
     AddPort, Notify, Send, Take, registry
<1>8. ASSUME NEW h \in Handlers, Add(h) \/ Delete(h) \/ AddFails(h) \/ AddExists(h)
                                 \/ DeleteUnknown(h) \/ DeleteDone(h)
      PROVE  UNCHANGED <<tele, objects>>
  BY <1>8 DEF Add, Delete, Call, AddFails, AddExists, DeleteUnknown, DeleteDone, registry
<1>9. CASE UNCHANGED vars
  BY <1>1, <1>9 DEF vars, registry
<1> QED
  BY <1>1, <1>2, <1>3, <1>4, <1>5, <1>6, <1>7, <1>8, <1>9 DEF Next, LoopStep, Serve

\* The variables of the monitor keep their types.
THEOREM MonitorTypeCorrect == Spec => []TypeOK
<1> DEFINE T == LoopTypeOK /\ FeedTypeOK /\ RpcTypeOK /\ LeftTested /\ TeleTypeOK
<1>1. Init => T
  <2> SUFFICES ASSUME Init PROVE T
    OBVIOUS
  <2>1. LoopTypeOK /\ LeftTested
    BY DEF Init, LoopTypeOK, LeftTested, NoInterfaces
  <2>2. FeedTypeOK
    <3>1. <<>> \in Seq(Lowers) /\ <<>> \in Seq(Kinds) /\ Len(<<>>) = 0 /\ 0 <= ChanCap
      BY MonitorAssumption
    <3>2. \A k \in Kinds : chan[k] = <<>>
      BY DEF Init
    <3>3. \A k \in Kinds : Len(chan[k]) <= ChanCap
      BY <3>1, <3>2
    <3> QED
      BY <3>1, <3>3 DEF Init, FeedTypeOK
  <2>3. RpcTypeOK
    BY DEF Init, RpcTypeOK, Calls
  <2>4. TeleTypeOK
    BY DEF Init, RegistryInit, TeleTypeOK, NoInterfaces
  <2> QED
    BY <2>1, <2>2, <2>3, <2>4
<1>2. RegistryTypeOK /\ ListedOnce /\ T /\ [Next]_vars => T'
  BY LoopTypeStep, FeedTypeStep, RpcStep, TeleTypeStep
<1>3. RegistryTypeOK /\ T => TypeOK
  BY DEF TypeOK, TeleTypeOK
<1> QED
  BY <1>1, <1>2, <1>3, MonitoredRegistry, PTL DEF Spec

--------------------------------------------------------------------------------
(* Counters go to the interface of the port they came from.                *)

\* The interface a step is about to write to belongs to the port of the update, and no
\* other registered interface is the same object.
SinkOK ==
    loop = "store" =>
        /\ sink \in Interface /\ taken = sink.lower
        /\ sink.obj \in 0..objects - 1
        /\ \A i \in Live : i.obj = sink.obj => i = sink

CountersInv == SinkOK /\ CountersFromOwnPort

LEMMA CountersFrame ==
    ASSUME CountersInv, UNCHANGED <<registry, tele>>,
           UNCHANGED <<loop, taken, sink>> \/ loop' # "store"
    PROVE  CountersInv'
BY DEF CountersInv, SinkOK, CountersFromOwnPort, Live, registry

LEMMA CountersRegister ==
    ASSUME RegistryTypeOK, TeleTypeOK, DistinctObjects, CountersInv,
           NEW d \in Declared, Register(d), NewTelemetry, UNCHANGED <<loop, taken, sink>>
    PROVE  CountersInv'
<1>1. objects \in Nat /\ objects' = objects + 1 /\ Built(d).obj = objects
  BY DEF RegistryTypeOK, Register, Built
<1>2. Live' = Live \cup {Built(d)}
  BY LiveAfterRegister
<1>3. \A i \in Live : i.obj \in DOMAIN tele /\ i.obj # objects
  BY <1>1 DEF DistinctObjects, TeleTypeOK
<1>4. /\ \A i \in Live : tele'[i.obj] = tele[i.obj]
      /\ tele'[objects].counters = None
  BY <1>3 DEF NewTelemetry, Put
<1>5. CountersFromOwnPort'
  BY <1>1, <1>2, <1>4 DEF CountersInv, CountersFromOwnPort
<1>6. SinkOK'
  BY <1>1, <1>2 DEF CountersInv, SinkOK
<1> QED
  BY <1>5, <1>6 DEF CountersInv

LEMMA CountersStep ==
    ASSUME RegistryTypeOK, IndexesAgree, DistinctObjects, LoopTypeOK, RpcTypeOK,
           TeleTypeOK, CountersInv, [Next]_vars
    PROVE  CountersInv'
<1>1. ASSUME NEW d \in Configured, InitInterface(d) PROVE CountersInv'
  BY <1>1, CountersRegister, MonitorAssumption DEF InitInterface
<1>2. ASSUME NEW h \in Handlers, AddInterface(h) PROVE CountersInv'
  BY <1>2, CountersRegister, CallFields DEF AddInterface, loopVars
<1>3. ASSUME NEW h \in Handlers, DeleteInterface(h) PROVE CountersInv'
  <2>1. Live' \subseteq Live /\ objects' = objects
    BY <1>3, CallFields, LiveAfterUnregister DEF DeleteInterface, Unregister
  <2>2. UNCHANGED <<loop, taken, sink, tele>>
    BY <1>3 DEF DeleteInterface, loopVars
  <2> QED
    BY <2>1, <2>2 DEF CountersInv, SinkOK, CountersFromOwnPort
<1>4. CASE Find
  <2>1. UNCHANGED registry /\ UNCHANGED tele
    BY <1>4 DEF Find
  <2>2. Live' = Live /\ objects' = objects
    BY <2>1 DEF registry, Live
  <2>3. taken \in DOMAIN lower2 => /\ lower2[taken] \in Live
                                   /\ lower2[taken].lower = taken
                                   /\ lower2[taken] \in Interface
    BY DEF IndexesAgree, RegistryTypeOK, IsMap
  <2>4. SinkOK'
    BY <1>4, <2>2, <2>3 DEF Find, GoTo, SinkOK, DistinctObjects
  <2>5. CountersFromOwnPort'
    BY <2>1, <2>2 DEF CountersInv, CountersFromOwnPort
  <2> QED
    BY <2>4, <2>5 DEF CountersInv
<1>5. CASE Store
  <2>1. UNCHANGED registry /\ loop' = "select"
    BY <1>5 DEF Store, GoTo
  <2>2. Live' = Live
    BY <2>1 DEF registry, Live
  <2>3. sink.obj \in DOMAIN tele /\ taken = sink.lower
    BY <1>5 DEF Store, CountersInv, SinkOK, TeleTypeOK
  <2>4. \A i \in Live : i.obj \in DOMAIN tele
    BY DEF DistinctObjects, TeleTypeOK
  <2>5. tele' = [tele EXCEPT ![sink.obj].counters = taken]
    BY <1>5 DEF Store
  <2>6. \A i \in Live : i.obj # sink.obj => tele'[i.obj] = tele[i.obj]
    BY <2>4, <2>5
  <2>7. tele'[sink.obj].counters = taken
    BY <2>3, <2>5 DEF TeleTypeOK, Telemetry
  <2>8. \A i \in Live : i.obj = sink.obj => i.lower = taken
    BY <1>5, <2>3 DEF Store, CountersInv, SinkOK
  <2> QED
    BY <2>1, <2>2, <2>6, <2>7, <2>8 DEF CountersInv, CountersFromOwnPort, SinkOK
<1>6. ASSUME NEW u \in Uppers, StoreDelay(u) PROVE CountersInv'
  <2>1. UNCHANGED registry /\ loop' # "store"
    BY <1>6 DEF StoreDelay, GoTo
  <2>2. Live' = Live
    BY <2>1 DEF registry, Live
  <2>3. \/ tele' = tele
        \/ tele' = [tele EXCEPT ![upper2[u].obj].delay = tests[u]]
    BY <1>6 DEF StoreDelay
  <2>4. \A x \in DOMAIN tele : tele'[x].counters = tele[x].counters
    <3> SUFFICES ASSUME NEW x \in DOMAIN tele
                 PROVE  tele'[x].counters = tele[x].counters
      OBVIOUS
    <3>1. \/ tele'[x] = tele[x]
          \/ tele'[x] = [counters |-> tele[x].counters, delay |-> tests[u]]
      BY <2>3, DelayWritten
    <3> QED
      BY <3>1
  <2>5. \A i \in Live : i.obj \in DOMAIN tele
    BY DEF DistinctObjects, TeleTypeOK
  <2> QED
    BY <2>1, <2>2, <2>4, <2>5 DEF CountersInv, CountersFromOwnPort, SinkOK
<1>7. CASE InitDone \/ Dial \/ CopyLan \/ CopyWan \/ AddsDone \/ SetUpTests \/ Tick
           \/ (\E l \in Lowers : AddPort(l) \/ Notify(l) \/ Send(l))
           \/ (\E k \in Kinds : Take(k))
  BY <1>7, CountersFrame DEF InitDone, Dial, CopyLan, CopyWan, AddsDone, SetUpTests, Tick,
     AddPort, Notify, Send, Take, GoTo, loopVars
<1>8. ASSUME NEW h \in Handlers, Add(h) \/ Delete(h) \/ AddFails(h) \/ AddExists(h)
                                 \/ DeleteUnknown(h) \/ DeleteDone(h)
      PROVE  CountersInv'
  BY <1>8, CountersFrame DEF Add, Delete, Call, AddFails, AddExists, DeleteUnknown,
     DeleteDone, loopVars
<1>9. CASE UNCHANGED vars
  BY <1>9, CountersFrame DEF vars
<1> QED
  BY <1>1, <1>2, <1>3, <1>4, <1>5, <1>6, <1>7, <1>8, <1>9 DEF Next, LoopStep, Serve

\* The invariants the two theorems below rest on.
SupportInv ==
    /\ RegistryTypeOK /\ IndexesAgree /\ ListedOnce /\ LiveDeclared /\ DistinctObjects
    /\ LoopTypeOK /\ FeedTypeOK /\ RpcTypeOK /\ TeleTypeOK

LEMMA Support == Spec => []SupportInv
<1>1. TypeOK => LoopTypeOK /\ FeedTypeOK /\ RpcTypeOK /\ TeleTypeOK
  BY DEF TypeOK, TeleTypeOK
<1>2. Spec => [](LiveDeclared /\ DistinctObjects)
  BY MonitorImplementsRegistry, LiveFacts, PTL DEF ImplementsRegistry
<1> QED
  BY <1>1, <1>2, MonitoredRegistry, MonitorTypeCorrect, PTL DEF SupportInv

\* The counters of a registered interface were reported by its own port, although the
\* loop writes them after it released the lock.
THEOREM CountersCorrect == Spec => []CountersFromOwnPort
<1>1. Init => CountersInv
  BY DEF Init, RegistryInit, NoInterfaces, CountersInv, SinkOK, CountersFromOwnPort, Live
<1>2. SupportInv /\ CountersInv /\ [Next]_vars => CountersInv'
  BY CountersStep DEF SupportInv
<1>3. CountersInv => CountersFromOwnPort
  BY DEF CountersInv
<1> QED
  BY <1>1, <1>2, <1>3, Support, PTL DEF Spec

--------------------------------------------------------------------------------
(* No registered interface is left without a subscription.                 *)

\* What the start of the loop will still subscribe to.
ToCome(i) ==
    \/ loop = "copyLan"
    \/ loop = "addLan" /\ (IsWan(i) \/ i.lower \in left)
    \/ loop = "copyWan" /\ IsWan(i)
    \/ loop = "addWan" /\ i.lower \in left

\* While the monitor is unset nothing is subscribed and the copies are still to come; a
\* removal that waits is the last to know its port.
SubscriptionInv ==
    /\ ~ monitor <=> loop \in {"init", "dial"}
    /\ \A h \in Handlers : rpc[h].op # "none" => loop # "init"
    /\ \A h \in Handlers : Waiting(h) => \A i \in Live : i.lower # rpc[h].lower
    /\ monitor => \A i \in Live : i.lower \in targets \/ ToCome(i)

LEMMA SubscriptionFrame ==
    ASSUME SubscriptionInv, UNCHANGED <<registry, monitor, loop, left, targets, rpc>>
    PROVE  SubscriptionInv'
BY DEF SubscriptionInv, Waiting, ToCome, Live, registry

LEMMA SubscriptionLoop ==
    ASSUME SupportInv, SubscriptionInv, LoopStep \/ Tick \/ (\E k \in Kinds : Take(k))
                                        \/ (\E u \in Uppers : StoreDelay(u))
    PROVE  SubscriptionInv'
<1> USE DEF SubscriptionInv, Waiting, ToCome, GoTo
<1>1. ASSUME NEW d \in Configured, InitInterface(d) PROVE SubscriptionInv'
  BY <1>1 DEF InitInterface, gnmiVars, rpcVars
<1>2. CASE InitDone \/ Dial
  BY <1>2 DEF InitDone, Dial, registry, Live, gnmiVars, rpcVars
<1>3. \A i \in Live : IsWan(i) => i.lower \in PortsOf(wan)
  <2>1. \A u \in DOMAIN upper2 : IsWan(upper2[u]) => u \in Uppers /\ wan[u] > 0
    BY DEF SupportInv, ListedOnce, RegistryTypeOK, IsMap
  <2> QED
    BY <2>1 DEF PortsOf, Live
<1>4. \A i \in Live : ~ IsWan(i) => i.lower \in PortsOf(lan)
  <2>1. \A u \in DOMAIN upper2 : ~ IsWan(upper2[u]) => u \in Uppers /\ lan[u] > 0
    BY DEF SupportInv, ListedOnce, RegistryTypeOK, IsMap
  <2> QED
    BY <2>1 DEF PortsOf, Live
<1>5. CASE CopyLan
  BY <1>4, <1>5 DEF CopyLan, registry, Live, gnmiVars, rpcVars, IsWan
<1>6. CASE CopyWan
  BY <1>3, <1>6 DEF CopyWan, registry, Live, gnmiVars, rpcVars, IsWan
<1>7. ASSUME NEW l \in Lowers, AddPort(l) PROVE SubscriptionInv'
  BY <1>7 DEF AddPort, registry, Live, rpcVars, IsWan
<1>8. CASE AddsDone
  BY <1>8 DEF AddsDone, registry, Live, gnmiVars, rpcVars, IsWan
<1>9. CASE SetUpTests \/ Find \/ Store \/ Tick \/ (\E k \in Kinds : Take(k))
           \/ (\E u \in Uppers : StoreDelay(u))
  <2>1. UNCHANGED <<registry, monitor, targets, rpc>>
        /\ {loop, loop'} \subseteq {"tests", "select", "find", "store", "delays"}
    BY <1>9 DEF SetUpTests, Find, Store, Tick, Take, StoreDelay, gnmiVars, rpcVars
  <2> QED
    BY <2>1 DEF registry, Live
<1> QED
  BY <1>1, <1>2, <1>5, <1>6, <1>7, <1>8, <1>9 DEF LoopStep

LEMMA SubscriptionRpc ==
    ASSUME OnePortPerName, SupportInv, SubscriptionInv, NEW h \in Handlers,
           Add(h) \/ Delete(h) \/ Serve(h) \/ AddFails(h) \/ DeleteDone(h)
    PROVE  SubscriptionInv'
<1> USE DEF SubscriptionInv, Waiting, ToCome
<1>1. RpcTypeOK /\ rpc \in [Handlers -> Calls]
  BY DEF SupportInv, RpcTypeOK
<1>2. CASE Add(h) \/ Delete(h)
  BY <1>1, <1>2 DEF Add, Delete, Call, registry, loopVars, gnmiVars, Live, NoCall
<1>3. CASE AddFails(h) \/ AddExists(h) \/ DeleteUnknown(h)
  BY <1>1, <1>3 DEF AddFails, AddExists, DeleteUnknown, Answer, registry, loopVars,
     gnmiVars, Live, NoCall
<1>4. CASE AddInterface(h)
  <2> DEFINE d == rpc[h].decl
  <2>1. d \in Declared
    BY <1>1, <1>4, CallFields DEF AddInterface
  <2>2. Live' = Live \cup {Built(d)} /\ Built(d).lower = d.lower
    BY <1>4, <2>1, LiveAfterRegister DEF AddInterface, Built
  <2>3. /\ UNCHANGED <<monitor, loop, left>>
        /\ rpc' = [rpc EXCEPT ![h] = NoCall]
        /\ \A g \in Handlers : rpc[g].op # "wait"
        /\ targets' = IF monitor THEN targets \cup {d.lower} ELSE targets
    BY <1>4 DEF AddInterface, Answer, LockFree, HasMonitor, loopVars
  <2> QED
    BY <1>1, <2>2, <2>3 DEF NoCall
<1>5. CASE DeleteInterface(h)
  <2> DEFINE ifc == upper2[rpc[h].upper]
  <2>1. rpc[h].upper \in Uppers /\ Unregister(rpc[h].upper) /\ rpc[h].op = "delete"
    BY <1>1, <1>5, CallFields DEF DeleteInterface
  <2>2. ifc \in Live /\ Live' = Live \ {ifc}
    BY <2>1, LiveAfterUnregister DEF SupportInv
  <2>3. \A i \in Live' : i \in Live /\ i.lower # ifc.lower
    BY <2>2, SharedKey DEF SupportInv
  <2>4. /\ UNCHANGED <<monitor, loop, left>>
        /\ \A g \in Handlers : rpc[g].op # "wait"
        /\ targets' \in {targets, targets \ {ifc.lower}}
        /\ \/ rpc' = [rpc EXCEPT ![h] = NoCall]
           \/ rpc' = [rpc EXCEPT ![h] = [op |-> "wait", lower |-> ifc.lower]]
    BY <1>5 DEF DeleteInterface, Answer, LockFree, Unsubscribed, loopVars
  <2> QED
    BY <1>1, <2>1, <2>3, <2>4 DEF NoCall
<1>6. CASE DeleteDone(h)
  <2>1. Live' = Live
    BY <1>6 DEF DeleteDone, registry, Live
  <2>2. /\ UNCHANGED <<monitor, loop, left>>
        /\ rpc[h].op = "wait"
        /\ rpc' = [rpc EXCEPT ![h] = NoCall]
        /\ targets' = targets \ {rpc[h].lower}
    BY <1>6 DEF DeleteDone, Answer, Unsubscribed, loopVars
  <2> QED
    BY <1>1, <2>1, <2>2 DEF NoCall
<1> QED
  BY <1>2, <1>3, <1>4, <1>5, <1>6 DEF Serve

\* However additions and removals interleave with the start of the monitoring loop, no
\* registered interface is missed: once the start is over each has its subscription.
THEOREM EveryInterfaceMonitored == Spec => []Monitored
<1>1. CASE OnePortPerName
  <2>1. Init => SubscriptionInv
    BY DEF Init, RegistryInit, NoInterfaces, SubscriptionInv, Waiting, Live, NoCall
  <2>2. SupportInv /\ SubscriptionInv /\ [Next]_vars => SubscriptionInv'
    <3> SUFFICES ASSUME SupportInv, SubscriptionInv, [Next]_vars
                 PROVE  SubscriptionInv'
      OBVIOUS
    <3>1. CASE UNCHANGED vars \/ \E l \in Lowers : Notify(l) \/ Send(l)
      BY <3>1, SubscriptionFrame DEF vars, Notify, Send, loopVars, rpcVars
    <3> QED
      BY <1>1, <3>1, SubscriptionLoop, SubscriptionRpc DEF Next
  <2>3. SubscriptionInv => Monitored
    BY DEF SubscriptionInv, Monitored, Started, ToCome
  <2> QED
    BY <2>1, <2>2, <2>3, Support, PTL DEF Spec
<1>2. CASE ~ OnePortPerName
  <2>1. Monitored
    BY <1>2 DEF Monitored
  <2> QED
    BY <2>1, PTL
<1> QED
  BY <1>1, <1>2
--------------------------------------------------------------------------------
(* Removals after the start.                                               *)

\* The monitor is set by the time the loop copies the lists.
MonitorSet == ~ monitor => loop \in {"init", "dial"}

LEMMA MonitorSetStep == ASSUME MonitorSet, [Next]_vars PROVE MonitorSet'
<1> USE DEF MonitorSet
<1>1. CASE LoopStep
  BY <1>1 DEF LoopStep, InitInterface, InitDone, Dial, CopyLan, CopyWan, AddPort, AddsDone,
     SetUpTests, Find, Store, GoTo, gnmiVars
<1>2. CASE (\E k \in Kinds : Take(k)) \/ Tick \/ (\E u \in Uppers : StoreDelay(u))
  BY <1>2 DEF Take, Tick, StoreDelay, GoTo, gnmiVars
<1>3. CASE (\E l \in Lowers : Notify(l) \/ Send(l))
  BY <1>3 DEF Notify, Send, loopVars
<1>4. ASSUME NEW h \in Handlers, Add(h) \/ Delete(h) \/ Serve(h) \/ AddFails(h) \/ DeleteDone(h)
      PROVE  MonitorSet'
  BY <1>4 DEF Add, Delete, Call, Serve, AddFails, AddExists, AddInterface, DeleteUnknown,
     DeleteInterface, DeleteDone, loopVars, gnmiVars
<1>5. CASE UNCHANGED vars
  BY <1>5 DEF vars
<1> QED
  BY <1>1, <1>2, <1>3, <1>4, <1>5 DEF Next

LEMMA MonitorSetAlways == Spec => [](MonitorSet /\ (Started => HasMonitor))
<1>1. Init => MonitorSet
  BY DEF Init, MonitorSet
<1>2. MonitorSet /\ [Next]_vars => MonitorSet'
  BY MonitorSetStep
<1>3. MonitorSet => (Started => HasMonitor)
  BY DEF MonitorSet, Started, HasMonitor
<1> QED
  BY <1>1, <1>2, <1>3, PTL DEF Spec

\* Port l is monitored for nobody.
StalePort(l) ==
    /\ l \in targets
    /\ \A i \in Live : i.lower # l
    /\ \A h \in Handlers : Waiting(h) => rpc[h].lower # l

LEMMA StaleFrame ==
    ASSUME NEW l, StalePort(l)', targets' \subseteq targets, UNCHANGED <<upper2, rpc>>
    PROVE  StalePort(l)
BY DEF StalePort, Live, Waiting

LEMMA StaleStep ==
    ASSUME SupportInv, Started, HasMonitor, [Next]_vars, NEW l, StalePort(l)'
    PROVE  StalePort(l)
<1>1. rpc \in [Handlers -> Calls]
  BY DEF SupportInv, RpcTypeOK
<1>2. CASE LoopStep \/ Tick \/ (\E k \in Kinds : Take(k)) \/ (\E u \in Uppers : StoreDelay(u))
  <2>1. UNCHANGED <<registry, gnmiVars, rpcVars>> \/ UNCHANGED <<registry, targets, rpcVars>>
    BY <1>2 DEF LoopStep, InitInterface, InitDone, Dial, CopyLan, CopyWan, AddPort,
       AddsDone, SetUpTests, Find, Store, Tick, Take, StoreDelay, Started
  <2> QED
    BY <2>1, StaleFrame DEF registry, gnmiVars, rpcVars
<1>3. CASE UNCHANGED vars \/ \E k \in Lowers : Notify(k) \/ Send(k)
  <2>1. UNCHANGED <<registry, targets, rpcVars>>
    BY <1>3 DEF vars, Notify, Send, rpcVars
  <2> QED
    BY <2>1, StaleFrame DEF registry, rpcVars
<1>4. ASSUME NEW h \in Handlers, Add(h) \/ Delete(h) \/ AddFails(h) \/ AddExists(h)
                                 \/ DeleteUnknown(h)
      PROVE  StalePort(l)
  <2>1. /\ UNCHANGED <<registry, targets>>
        /\ rpc[h].op # "wait"
        /\ \A g \in Handlers \ {h} : rpc'[g] = rpc[g]
    BY <1>1, <1>4 DEF Add, Delete, Call, AddFails, AddExists, DeleteUnknown, Answer,
       gnmiVars, NoCall
  <2> QED
    BY <2>1 DEF StalePort, Live, Waiting, registry
<1>5. ASSUME NEW h \in Handlers, AddInterface(h) PROVE StalePort(l)
  <2> DEFINE d == rpc[h].decl
  <2>1. d \in Declared
    BY <1>5, CallFields DEF AddInterface, SupportInv
  <2>2. Live' = Live \cup {Built(d)} /\ Built(d).lower = d.lower
    BY <1>5, <2>1, LiveAfterRegister DEF AddInterface, Built
  <2>3. targets' \subseteq targets \cup {d.lower} /\ LockFree
    BY <1>5 DEF AddInterface
  <2> QED
    BY <2>2, <2>3 DEF StalePort, LockFree
<1>6. ASSUME NEW h \in Handlers, DeleteInterface(h) PROVE StalePort(l)
  <2> DEFINE ifc == upper2[rpc[h].upper]
  <2>1. Live' = Live \ {ifc}
    <3>1. rpc[h].upper \in Uppers /\ Unregister(rpc[h].upper)
      BY <1>6, CallFields DEF DeleteInterface, SupportInv
    <3> QED
      BY <3>1, LiveAfterUnregister DEF SupportInv
  <2>2. targets' \subseteq targets /\ LockFree
    BY <1>6 DEF DeleteInterface, Unsubscribed
  <2>3. ifc.lower # l
    <3>1. CASE ifc.lower \notin targets'
      BY <3>1 DEF StalePort
    <3>2. CASE rpc' = [rpc EXCEPT ![h] = [op |-> "wait", lower |-> ifc.lower]]
      <4>1. rpc'[h].op = "wait" /\ rpc'[h].lower = ifc.lower
        BY <1>1, <3>2
      <4> QED
        BY <4>1 DEF StalePort, Waiting
    <3> QED
      BY <1>6, <3>1, <3>2 DEF DeleteInterface, Unsubscribed
  <2> QED
    BY <2>1, <2>2, <2>3 DEF StalePort, LockFree
<1>7. ASSUME NEW h \in Handlers, DeleteDone(h) PROVE StalePort(l)
  <2>1. /\ UNCHANGED registry
        /\ targets' = targets \ {rpc[h].lower}
        /\ \A g \in Handlers \ {h} : rpc'[g] = rpc[g]
    BY <1>1, <1>7 DEF DeleteDone, Answer, Unsubscribed
  <2> QED
    BY <2>1 DEF StalePort, Live, Waiting, registry
<1> QED
  BY <1>2, <1>3, <1>4, <1>5, <1>6, <1>7 DEF Next, Serve

\* For any handlers, names and ports: once the loop has started, no step leaves a port
\* monitored for nobody.
THEOREM SubscriptionsEnd == Spec => NoNewStale
<1>1. \A l : StalePort(l) <=> l \in Stale
  BY DEF StalePort, Stale
<1>2. (\A l : StalePort(l) <=> l \in Stale)'
  BY DEF StalePort, Stale, Live, Waiting
<1>3. SupportInv /\ (Started => HasMonitor) /\ [Next]_vars
        => [Started => Stale' \subseteq Stale]_vars
  BY <1>1, <1>2, StaleStep
<1> QED
  BY <1>3, Support, MonitorSetAlways, PTL DEF Spec, NoNewStale

LEMMA RemovalAnswer ==
    ASSUME SupportInv, Monitored, OnePortPerName, Started, [Next]_vars,
           NEW h \in Handlers, rpc[h].op \in {"delete", "wait"}, rpc'[h] = NoCall
    PROVE  reply'[h] = "nil"
<1>1. rpc \in [Handlers -> Calls] /\ reply \in [Handlers -> {None, "nil", "error"}]
  BY DEF SupportInv, RpcTypeOK
<1>2. rpc[h] # NoCall
  BY DEF NoCall
<1>3. PICK g \in Handlers : Add(g) \/ Delete(g) \/ Serve(g) \/ AddFails(g) \/ DeleteDone(g)
  <2>1. rpc' # rpc
    BY <1>2
  <2> QED
    BY <2>1 DEF Next, LoopStep, InitInterface, InitDone, Dial, CopyLan, CopyWan, AddPort,
       AddsDone, SetUpTests, Find, Store, Tick, Take, StoreDelay, Notify, Send, vars, rpcVars
<1>4. g = h
  <2>1. g # h => rpc'[h] = rpc[h]
    BY <1>1, <1>3 DEF Add, Delete, Call, Serve, AddExists, AddInterface, DeleteUnknown,
       DeleteInterface, AddFails, DeleteDone, Answer
  <2> QED
    BY <1>2, <2>1
<1>5. DeleteUnknown(h) \/ DeleteInterface(h) \/ DeleteDone(h)
  BY <1>2, <1>3, <1>4 DEF Add, Delete, Call, Serve, AddExists, AddInterface, AddFails
<1>6. CASE DeleteUnknown(h) \/ DeleteDone(h)
  BY <1>1, <1>6 DEF DeleteUnknown, DeleteDone, Answer
<1>7. CASE DeleteInterface(h)
  <2> DEFINE ifc == upper2[rpc[h].upper]
  <2>1. ifc \in Live
    BY <1>7 DEF DeleteInterface, Unregister, Live
  <2>2. ifc.lower \in targets
    BY <2>1 DEF Monitored
  <2>3. CASE Answer(h, IF HasMonitor THEN "error" ELSE "nil") /\ ~ HasMonitor
    BY <1>1, <2>3 DEF Answer
  <2>4. CASE Answer(h, "nil")
    BY <1>1, <2>4 DEF Answer
  <2>5. CASE rpc' = [rpc EXCEPT ![h] = [op |-> "wait", lower |-> ifc.lower]]
    BY <1>1, <2>5 DEF NoCall
  <2> QED
    BY <1>7, <2>2, <2>3, <2>4, <2>5 DEF DeleteInterface
<1> QED
  BY <1>5, <1>6, <1>7

\* With one port for each name, no removal after the start fails, whatever the handlers
\* and the loop do at the same time: the manager always knows the port.
THEOREM RemovalsAnswered == Spec => RemovalsSucceed
<1>1. SupportInv /\ Monitored /\ [Next]_vars
        => [OnePortPerName /\ Started =>
              \A h \in Handlers : rpc[h].op \in {"delete", "wait"} /\ rpc'[h] = NoCall
                                     => reply'[h] = "nil"]_vars
  BY RemovalAnswer
<1> QED
  BY <1>1, Support, EveryInterfaceMonitored, PTL DEF Spec, RemovalsSucceed

--------------------------------------------------------------------------------
(* The circle of a removal, a full channel and the loop.                   *)

\* Removal h waits for a goroutine that is blocked on a full channel.
Blocked(h) ==
    /\ Waiting(h) /\ feed[rpc[h].lower] # <<>>
    /\ Len(chan[Head(feed[rpc[h].lower])]) >= ChanCap

\* The loop needs the lock before it receives anything.
NeedsLock ==
    \/ loop \in {"copyLan", "copyWan", "tests", "find"}
    \/ loop \in {"addLan", "addWan", "delays"} /\ left # {}

LEMMA NeedsLockStays ==
    ASSUME NEW h \in Handlers, Waiting(h), NeedsLock, [Next]_vars
    PROVE  UNCHANGED loopVars /\ \A k \in Kinds : ~ Take(k)
<1>1. ~ LockFree
  BY DEF LockFree
<1>2. ~ LoopStep
  BY <1>1 DEF LoopStep, InitInterface, InitDone, Dial, CopyLan, CopyWan, AddPort, AddsDone,
     SetUpTests, Find, Store, NeedsLock
<1>3. ~ Tick /\ (\A k \in Kinds : ~ Take(k)) /\ (\A u \in Uppers : ~ StoreDelay(u))
  BY <1>1 DEF Tick, Take, StoreDelay, NeedsLock
<1>4. UNCHANGED vars \/ (\E l \in Lowers : Notify(l) \/ Send(l)) => UNCHANGED loopVars
  BY DEF vars, loopVars, Notify, Send
<1>5. ASSUME NEW g \in Handlers, Add(g) \/ Delete(g) \/ Serve(g) \/ AddFails(g) \/ DeleteDone(g)
      PROVE  UNCHANGED loopVars
  BY <1>5 DEF Add, Delete, Call, Serve, AddExists, AddInterface, DeleteUnknown,
     DeleteInterface, AddFails, DeleteDone
<1> QED
  BY <1>2, <1>3, <1>4, <1>5 DEF Next

LEMMA BlockedStays ==
    ASSUME FeedTypeOK, RpcTypeOK, NEW h \in Handlers, Blocked(h), NeedsLock, [Next]_vars
    PROVE  Blocked(h)'
<1> DEFINE p == rpc[h].lower
           k == Head(feed[p])
<1>1. /\ p \in Lowers /\ feed \in [Lowers -> Seq(Kinds)] /\ feed[p] # <<>>
      /\ k \in Kinds /\ chan \in [Kinds -> Seq(Lowers)] /\ Len(chan[k]) >= ChanCap
      /\ rpc \in [Handlers -> Calls] /\ rpc[h].op = "wait"
  <2>1. p \in Lowers /\ feed[p] \in Seq(Kinds) /\ feed[p] # <<>>
    BY CallFields DEF Blocked, Waiting, FeedTypeOK
  <2>2. k \in Kinds
    BY <2>1
  <2> QED
    BY <2>1, <2>2 DEF Blocked, Waiting, FeedTypeOK, RpcTypeOK
<1>2. ~ LockFree
  BY <1>1 DEF LockFree, Waiting
<1>3. CASE UNCHANGED <<chan, feed>> /\ rpc'[h] = rpc[h]
  BY <1>3 DEF Blocked, Waiting
<1>4. ASSUME NEW l \in Lowers, Notify(l) PROVE Blocked(h)'
  <2>1. l # p /\ feed'[p] = feed[p] /\ UNCHANGED <<chan, rpc>>
    BY <1>1, <1>4 DEF Notify, rpcVars
  <2> QED
    BY <2>1 DEF Blocked, Waiting
<1>5. ASSUME NEW l \in Lowers, Send(l) PROVE Blocked(h)'
  <2> DEFINE m == Head(feed[l])
  <2>1. feed[l] \in Seq(Kinds) /\ feed[l] # <<>> /\ HasRoom(m) /\ UNCHANGED rpc
    BY <1>1, <1>5 DEF Send, rpcVars
  <2>2. m \in Kinds /\ chan' = [chan EXCEPT ![m] = Append(@, l)]
    BY <1>5, <2>1 DEF Send
  <2>3. m # k
    BY <1>1, <2>1, MonitorAssumption DEF HasRoom
  <2>4. l # p /\ feed'[p] = feed[p] /\ chan'[k] = chan[k]
    BY <1>1, <1>5, <2>2, <2>3 DEF Send
  <2> QED
    BY <1>1, <2>1, <2>4 DEF Blocked, Waiting
<1>6. ASSUME NEW g \in Handlers, Add(g) \/ Delete(g) \/ AddFails(g)
      PROVE  UNCHANGED <<chan, feed>> /\ rpc'[h] = rpc[h]
  <2>1. rpc[g] = NoCall \/ rpc[g].op = "add"
    BY <1>6 DEF Add, Delete, Call, AddFails
  <2>2. g # h
    BY <1>1, <2>1 DEF NoCall
  <2> QED
    BY <1>1, <1>6, <2>2 DEF Add, Delete, Call, AddFails, Answer, gnmiVars
<1>7. ASSUME NEW g \in Handlers, DeleteDone(g)
      PROVE  UNCHANGED <<chan, feed>> /\ rpc'[h] = rpc[h]
  <2>1. g # h
    BY <1>1, <1>7 DEF DeleteDone
  <2> QED
    BY <1>1, <1>7, <2>1 DEF DeleteDone, Answer
<1>8. \A g \in Handlers : ~ Serve(g)
  BY <1>2 DEF Serve, AddExists, AddInterface, DeleteUnknown, DeleteInterface
<1>9. ~ LoopStep /\ ~ Tick /\ (\A j \in Kinds : ~ Take(j)) /\ (\A u \in Uppers : ~ StoreDelay(u))
  BY <1>2 DEF LoopStep, InitInterface, InitDone, Dial, CopyLan, CopyWan, AddPort, AddsDone,
     SetUpTests, Find, Store, Tick, Take, StoreDelay, NeedsLock
<1>10. CASE UNCHANGED vars
  BY <1>3, <1>10 DEF vars
<1> QED
  BY <1>3, <1>4, <1>5, <1>6, <1>7, <1>8, <1>9, <1>10 DEF Next

\* Once a removal, a full channel and the loop have closed the circle, no step of any
\* goroutine opens it: the monitor is stuck for the life of the process.
THEOREM CircleNeverOpens == Spec => DeadlockIsForever
<1>1. RemovalDeadlock <=> NeedsLock /\ \E h \in Handlers : Blocked(h)
  BY DEF RemovalDeadlock, NeedsLock, Blocked
<1>2. ASSUME TypeOK, RemovalDeadlock, [Next]_vars PROVE RemovalDeadlock'
  <2>1. PICK h \in Handlers : Blocked(h) /\ NeedsLock
    BY <1>1, <1>2
  <2>2. NeedsLock'
    <3>1. UNCHANGED loopVars
      BY <1>2, <2>1, NeedsLockStays DEF Blocked
    <3> QED
      BY <2>1, <3>1 DEF NeedsLock, loopVars
  <2>3. Blocked(h)'
    BY <1>2, <2>1, BlockedStays DEF TypeOK
  <2>4. RemovalDeadlock' <=> (NeedsLock /\ \E g \in Handlers : Blocked(g))'
    BY DEF RemovalDeadlock, NeedsLock, Blocked, Waiting
  <2> QED
    BY <2>2, <2>3, <2>4
<1>3. TypeOK /\ [Next]_vars => [RemovalDeadlock => RemovalDeadlock']_vars
  BY <1>2
<1> QED
  BY <1>3, MonitorTypeCorrect, PTL DEF Spec, DeadlockIsForever

================================================================================
