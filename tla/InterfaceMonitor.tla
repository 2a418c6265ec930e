---------------------------- MODULE InterfaceMonitor ----------------------------
(***************************************************************************)
(* The goroutines around the interface registry (pkg/hal/hal.go 424-699,   *)
(* gnmi.go, mgmt_server.go): the RPC handlers that add and delete          *)
(* interfaces, the monitoring loop that subscribes to the ports and        *)
(* records what they report, and the goroutines of the gNMI manager, one   *)
(* for each monitored port, which call InterfaceMonitor.Update.            *)
(*                                                                         *)
(* A section under Map.Lock that calls nothing that can block is one       *)
(* action.  RemoveInterface is not: it calls Manager.Remove with the lock  *)
(* held.  The manager is external; RemoveWaits says whether its Remove     *)
(* waits, holding the manager's own mutex, for the goroutine of the port   *)
(* to end, and that goroutine may be inside Update.                        *)
(*                                                                         *)
(* log.Fatal in InitInterfaces and monitorInterfaces ends the process; it  *)
(* is a behaviour that stops.                                              *)
(***************************************************************************)
EXTENDS InterfaceRegistry, Sequences

CONSTANTS
    Configured,    \* the interfaces of the configuration file
    Handlers,      \* goroutines that serve management RPCs
    RemoveWaits,   \* does Manager.Remove wait for the goroutine of the port?
    Notifications, \* what a notification of the router may hold, update by update
    SkipTwamp,     \* the configuration option SkipTwamp
    None,          \* nil: no port, no interface, no reflector, no answer yet
    ChanCap        \* capacity of SpeedChan and StatsChan, 1 in the code

ASSUME MonitorAssumption ==
    /\ Configured \subseteq Declared
    /\ \A d, e \in Configured : d.upper = e.upper => d = e
    /\ RemoveWaits \in BOOLEAN /\ SkipTwamp \in BOOLEAN
    /\ Notifications \subseteq Seq({"speed", "stats"}) \ {<<>>}
    /\ ChanCap \in Nat \ {0}

VARIABLES
    monitor,   \* is the global variable monitor set?
    loop,      \* where Init and then monitorInterfaces are
    left,      \* what the for loop that is running has not reached
    tests,     \* twampTests: the reflector each upper name is measured against
    taken,     \* the update the select statement received
    sink,      \* the interface findInterfaceByLower found for it
    chan,      \* SpeedChan and StatsChan: ports whose updates are in them
    targets,   \* the ports the gNMI manager has a goroutine for
    feed,      \* the updates of a notification each of them has yet to send
    tele,      \* InterfaceTelemetry by object: port and reflector it came from
    rpc,       \* the call each handler serves
    reply      \* what its last call returned, None while it runs

vars == <<registry, monitor, loop, left, tests, taken, sink, chan, targets, feed,
          tele, rpc, reply>>
loopVars == <<loop, left, tests, taken, sink>>
rpcVars  == <<rpc, reply>>
gnmiVars == <<monitor, chan, targets, feed>>

Kinds == {"speed", "stats"}
NoCall == [op |-> "none"]

Init ==
    /\ RegistryInit
    /\ monitor = FALSE
    /\ loop = "init" /\ left = Configured
    /\ tests = NoInterfaces /\ taken = None /\ sink = None
    /\ chan = [k \in Kinds |-> <<>>]
    /\ targets = {} /\ feed = [l \in Lowers |-> <<>>]
    /\ tele = NoInterfaces
    /\ rpc = [h \in Handlers |-> NoCall]
    /\ reply = [h \in Handlers |-> None]

Waiting(h) == rpc[h].op = "wait"

\* Nobody holds Map.Lock from one step to the next but a removal that waits.
LockFree   == \A h \in Handlers : ~ Waiting(h)

\* A new object has no telemetry.
NewTelemetry == tele' = Put(tele, objects, [counters |-> None, delay |-> None])

--------------------------------------------------------------------------------
(* Init, and monitorInterfaces up to its loop.                             *)

\* The loop goes on at step next.
GoTo(next) == loop' = next

InitInterface(d) ==
    /\ loop = "init" /\ d \in left
    /\ Register(d) /\ NewTelemetry
    /\ left' = left \ {d}
    /\ UNCHANGED <<loop, tests, taken, sink, gnmiVars, rpcVars>>

InitDone ==
    /\ loop = "init" /\ left = {}
    /\ GoTo("dial")
    /\ UNCHANGED <<registry, left, tests, taken, sink, gnmiVars, tele, rpcVars>>

\* NewInterfaceMonitor; the global variable is assigned without the lock.
Dial ==
    /\ loop = "dial"
    /\ monitor' = TRUE
    /\ GoTo("copyLan")
    /\ UNCHANGED <<registry, left, tests, taken, sink, chan, targets, feed, tele, rpcVars>>

PortsOf(list) == {upper2[u].lower : u \in {v \in Uppers : list[v] > 0}}

CopyLan ==
    /\ loop = "copyLan" /\ LockFree
    /\ left' = PortsOf(lan)
    /\ GoTo("addLan")
    /\ UNCHANGED <<registry, tests, taken, sink, gnmiVars, tele, rpcVars>>

CopyWan ==
    /\ loop = "copyWan" /\ LockFree
    /\ left' = PortsOf(wan)
    /\ GoTo("addWan")
    /\ UNCHANGED <<registry, tests, taken, sink, gnmiVars, tele, rpcVars>>

\* monitor.Add for a port that was copied.  The manager refuses a port it has, and the
\* error is ignored.
AddPort(l) ==
    /\ loop \in {"addLan", "addWan"} /\ l \in left
    /\ LockFree
    /\ targets' = targets \cup {l}
    /\ left' = left \ {l}
    /\ UNCHANGED <<registry, monitor, loop, tests, taken, sink, chan, feed, tele, rpcVars>>

AddsDone ==
    /\ loop \in {"addLan", "addWan"} /\ left = {}
    /\ GoTo(IF loop = "addLan" THEN "copyWan" ELSE "tests")
    /\ UNCHANGED <<registry, left, tests, taken, sink, gnmiVars, tele, rpcVars>>

\* A TWAMP test for every WAN interface whose reflector answered; there are no others
\* later.
SetUpTests ==
    /\ loop = "tests" /\ LockFree
    /\ \E S \in SUBSET {u \in Uppers : wan[u] > 0} :
          /\ SkipTwamp => S = {}
          /\ tests' = [u \in S |-> upper2[u].peer]
    /\ GoTo("select")
    /\ UNCHANGED <<registry, left, taken, sink, gnmiVars, tele, rpcVars>>

--------------------------------------------------------------------------------
(* The loop of monitorInterfaces.                                          *)

Take(k) ==
    /\ loop = "select" /\ chan[k] # <<>>
    /\ taken' = Head(chan[k])
    /\ chan' = [chan EXCEPT ![k] = Tail(@)]
    /\ GoTo("find")
    /\ UNCHANGED <<registry, left, tests, sink, monitor, targets, feed, tele, rpcVars>>

\* Mutant of Find: an update of an unknown port goes to some registered interface.
FindAny ==
    /\ loop = "find" /\ LockFree
    /\ IF Live # {} THEN sink' \in Live /\ GoTo("store") /\ UNCHANGED taken
                    ELSE sink' = sink /\ taken' = None /\ GoTo("select")
    /\ UNCHANGED <<registry, left, tests, gnmiVars, tele, rpcVars>>

\* Mutant of Find: the loop returns when a port is unknown, where it should continue.
FindOrReturn ==
    /\ loop = "find" /\ LockFree
    /\ IF taken \in DOMAIN lower2
       THEN sink' = lower2[taken] /\ GoTo("store") /\ UNCHANGED taken
       ELSE sink' = sink /\ taken' = None /\ GoTo("returned")
    /\ UNCHANGED <<registry, left, tests, gnmiVars, tele, rpcVars>>

\* findInterfaceByLower, under the read lock.
Find ==
    /\ loop = "find" /\ LockFree
    /\ IF taken \in DOMAIN lower2
       THEN sink' = lower2[taken] /\ GoTo("store") /\ UNCHANGED taken
       ELSE sink' = sink /\ taken' = None /\ GoTo("select")
    /\ UNCHANGED <<registry, left, tests, gnmiVars, tele, rpcVars>>

\* The counters are written after the lock is released.
Store ==
    /\ loop = "store"
    /\ tele' = [tele EXCEPT ![sink.obj].counters = taken]
    /\ taken' = None /\ sink' = None
    /\ GoTo("select")
    /\ UNCHANGED <<registry, left, tests, gnmiVars, rpcVars>>

Tick ==
    /\ loop = "select" /\ DOMAIN tests # {}
    /\ left' = DOMAIN tests
    /\ GoTo("delays")
    /\ UNCHANGED <<registry, tests, taken, sink, gnmiVars, tele, rpcVars>>

\* RunX returned; updateInterfaceDelayJitter.
StoreDelay(u) ==
    /\ loop = "delays" /\ u \in left /\ LockFree
    /\ tele' = IF u \in DOMAIN upper2
               THEN [tele EXCEPT ![upper2[u].obj].delay = tests[u]] ELSE tele
    /\ left' = left \ {u}
    /\ GoTo(IF left' = {} THEN "select" ELSE "delays")
    /\ UNCHANGED <<registry, tests, taken, sink, gnmiVars, rpcVars>>

--------------------------------------------------------------------------------
(* The manager's goroutines.                                               *)

\* A notification arrives for a port that is not being removed.
Notify(l) ==
    /\ l \in targets /\ feed[l] = <<>>
    /\ \A h \in Handlers : Waiting(h) => rpc[h].lower # l
    /\ \E n \in Notifications : feed' = [feed EXCEPT ![l] = n]
    /\ UNCHANGED <<registry, loopVars, monitor, chan, targets, tele, rpcVars>>

\* Mutant of HasRoom: one update too many.
HasRoomForOneMore(k) == Len(chan[k]) <= ChanCap

HasRoom(k) == Len(chan[k]) < ChanCap

\* Update sends on a channel, and blocks while it is full.
Send(l) ==
    /\ feed[l] # <<>> /\ HasRoom(Head(feed[l]))
    /\ chan' = [chan EXCEPT ![Head(feed[l])] = Append(@, l)]
    /\ feed' = [feed EXCEPT ![l] = Tail(@)]
    /\ UNCHANGED <<registry, loopVars, monitor, targets, tele, rpcVars>>

--------------------------------------------------------------------------------
(* Management RPCs.                                                        *)

\* Mutant of HasMonitor: the monitor counts only once its loop runs.
HasRunningMonitor == monitor /\ loop \notin {"copyLan", "addLan", "copyWan", "addWan"}

HasMonitor == monitor

\* The server starts when Init has ended.
Call(h, request) ==
    /\ loop # "init"
    /\ rpc[h] = NoCall
    /\ rpc' = [rpc EXCEPT ![h] = request]
    /\ reply' = [reply EXCEPT ![h] = None]
    /\ UNCHANGED <<registry, loopVars, gnmiVars, tele>>

Add(h)    == \E d \in Declared : Call(h, [op |-> "add", decl |-> d])
Delete(h) == \E u \in Uppers : Call(h, [op |-> "delete", upper |-> u])

Answer(h, r) ==
    /\ rpc' = [rpc EXCEPT ![h] = NoCall]
    /\ reply' = [reply EXCEPT ![h] = r]

\* The router did not give the index of the port.
AddFails(h) ==
    /\ rpc[h].op = "add"
    /\ Answer(h, "error")
    /\ UNCHANGED <<registry, loopVars, gnmiVars, tele>>

\* Mutant of AddExists: the port's entry is written before the name is looked up.
AddExistsLate(h) ==
    /\ rpc[h].op = "add" /\ LockFree
    /\ rpc[h].decl.upper \in DOMAIN upper2
    /\ lower2' = Put(lower2, rpc[h].decl.lower, Built(rpc[h].decl))
    /\ Answer(h, "error")
    /\ UNCHANGED <<upper2, netflow2, nexthop2, lan, wan, objects, loopVars, gnmiVars, tele>>

AddExists(h) ==
    /\ rpc[h].op = "add" /\ LockFree
    /\ rpc[h].decl.upper \in DOMAIN upper2
    /\ Answer(h, "error")
    /\ UNCHANGED <<registry, loopVars, gnmiVars, tele>>

\* NewInterface, monitor.Add included.
AddInterface(h) ==
    /\ rpc[h].op = "add" /\ LockFree
    /\ Register(rpc[h].decl) /\ NewTelemetry
    /\ targets' = IF HasMonitor THEN targets \cup {rpc[h].decl.lower} ELSE targets
    /\ Answer(h, "nil")
    /\ UNCHANGED <<loopVars, monitor, chan, feed>>

\* RemoveInterface of a name that is not registered.
DeleteUnknown(h) ==
    /\ rpc[h].op = "delete" /\ LockFree
    /\ rpc[h].upper \notin DOMAIN upper2
    /\ Answer(h, "nil")
    /\ UNCHANGED <<registry, loopVars, gnmiVars, tele>>

\* Mutant of Unsubscribed: Manager.Remove is not called.
UnsubscribedNot(l) == targets

Unsubscribed(l) == targets \ {l}

\* RemoveInterface, up to its return or to the point where Manager.Remove waits.  The
\* registry has changed when the manager turns out not to know the port.
DeleteInterface(h) ==
    /\ rpc[h].op = "delete" /\ LockFree
    /\ Unregister(rpc[h].upper)
    /\ LET l == upper2[rpc[h].upper].lower
       IN  \/ /\ ~ HasMonitor \/ l \notin targets
              /\ Answer(h, IF HasMonitor THEN "error" ELSE "nil")
              /\ UNCHANGED targets
           \/ /\ HasMonitor /\ l \in targets /\ ~ RemoveWaits
              /\ targets' = Unsubscribed(l)
              /\ Answer(h, "nil")
           \/ /\ HasMonitor /\ l \in targets /\ RemoveWaits
              /\ rpc' = [rpc EXCEPT ![h] = [op |-> "wait", lower |-> l]]
              /\ UNCHANGED <<targets, reply>>
    /\ UNCHANGED <<loopVars, monitor, chan, feed, tele>>

\* The goroutine of the port has ended; Manager.Remove and RemoveInterface return.
DeleteDone(h) ==
    /\ Waiting(h)
    /\ feed[rpc[h].lower] = <<>>
    /\ targets' = Unsubscribed(rpc[h].lower)
    /\ Answer(h, "nil")
    /\ UNCHANGED <<registry, loopVars, monitor, chan, feed, tele>>

--------------------------------------------------------------------------------
(* Specification                                                           *)

\* What the goroutine of Init and monitorInterfaces does next without a choice.
LoopStep ==
    \/ \E d \in Configured : InitInterface(d)
    \/ InitDone \/ Dial \/ CopyLan \/ CopyWan \/ AddsDone \/ SetUpTests \/ Find \/ Store
    \/ \E l \in Lowers : AddPort(l)

\* An RPC handler goes on.
Serve(h) == AddExists(h) \/ AddInterface(h) \/ DeleteUnknown(h) \/ DeleteInterface(h)

Next ==
    \/ LoopStep
    \/ \E k \in Kinds : Take(k)
    \/ Tick \/ \E u \in Uppers : StoreDelay(u)
    \/ \E l \in Lowers : Notify(l) \/ Send(l)
    \/ \E h \in Handlers : \/ Add(h) \/ Delete(h) \/ Serve(h)
                           \/ AddFails(h) \/ DeleteDone(h)

Spec == Init /\ [][Next]_vars

\* A goroutine goes on when it can.  Only a removal holds the lock from one step to the next,
\* and MaxObjects bounds the removals, so that of the lock weak fairness is enough, which is
\* less than sync.RWMutex gives.  A select takes from every channel that stays ready, and of
\* the goroutines blocked on a channel the one that has waited longest sends first.  The
\* router answers the query for an index, or the call to it fails; a tick may never come,
\* and nothing is assumed of TWAMP tests.
Fairness ==
    /\ WF_vars(LoopStep)
    /\ \A k \in Kinds : SF_vars(Take(k))
    /\ \A l \in Lowers : SF_vars(Send(l))
    /\ \A h \in Handlers : WF_vars(Serve(h) \/ AddFails(h) \/ DeleteDone(h))

FairSpec == Spec /\ Fairness

--------------------------------------------------------------------------------
(* Properties                                                              *)

Calls == {NoCall} \cup [op : {"add"}, decl : Declared]
                  \cup [op : {"delete"}, upper : Uppers] \cup [op : {"wait"}, lower : Lowers]

Telemetry == [counters : Lowers \cup {None}, delay : Peers \cup {NoPeer, None}]

LoopTypeOK ==
    /\ loop \in {"init", "dial", "copyLan", "addLan", "copyWan", "addWan", "tests",
                 "select", "find", "store", "delays"}
    /\ left \subseteq Configured \cup Lowers \cup Uppers
    /\ DOMAIN tests \subseteq Uppers /\ tests \in [DOMAIN tests -> Peers \cup {NoPeer}]
    /\ taken \in Lowers \cup {None} /\ sink \in Interface \cup {None}

FeedTypeOK ==
    /\ monitor \in BOOLEAN
    /\ chan \in [Kinds -> Seq(Lowers)] /\ \A k \in Kinds : Len(chan[k]) <= ChanCap
    /\ targets \subseteq Lowers
    /\ feed \in [Lowers -> Seq(Kinds)]

RpcTypeOK ==
    /\ rpc \in [Handlers -> Calls]
    /\ reply \in [Handlers -> {None, "nil", "error"}]

\* Type invariant.
TypeOK ==
    /\ RegistryTypeOK /\ LoopTypeOK /\ FeedTypeOK /\ RpcTypeOK
    /\ DOMAIN tele = 0..objects - 1 /\ tele \in [DOMAIN tele -> Telemetry]

\* However the goroutines interleave, the maps change as if additions and removals came
\* one at a time, each atomic: the monitoring loop and failed calls leave them alone.
ImplementsRegistry == RegistrySpec

\* The counters of a registered interface are those of its own port, although they are
\* looked up before they are written and the interface may be removed in between.
CountersFromOwnPort ==
    \A i \in Live : tele[i.obj].counters \in {None, i.lower}

Started == loop \in {"tests", "select", "find", "store", "delays"}

\* Once the monitoring loop is past its start, the manager has a goroutine for the port
\* of every registered interface, whenever it was added: before the loop copied the
\* lists, between the two copies, or later.
Monitored ==
    OnePortPerName /\ Started => \A i \in Live : i.lower \in targets

\* Ports that are monitored for nobody, leaving aside the one a removal is busy with.
Stale ==
    {l \in targets : /\ \A i \in Live : i.lower # l
                     /\ \A h \in Handlers : Waiting(h) => rpc[h].lower # l}

\* After the start a removal ends the subscription too: monitored ports without an
\* interface can only come from a removal that raced with the start.
NoNewStale == [][Started => Stale' \subseteq Stale]_vars

\* After the start a removal that finds the interface does not answer with an error; an
\* error would hide that the interface is gone from the registry (hal.go 416-420).
RemovalsSucceed ==
    [][OnePortPerName /\ Started =>
         \A h \in Handlers : rpc[h].op \in {"delete", "wait"} /\ rpc'[h] = NoCall
                                => reply'[h] = "nil"]_vars

\* The delay of a registered interface was measured over its own link, to its own
\* reflector (api.go 49-51: delay and jitter refer to the link of this interface).
DelayOfOwnLink ==
    \A i \in Live : tele[i.obj].delay \in {None, i.peer}

\* A removal holds the lock and waits for a goroutine that is blocked on a full channel,
\* while the loop that empties the channel is on its way to the lock.
RemovalDeadlock ==
    \E h \in Handlers :
        /\ Waiting(h)
        /\ LET f == feed[rpc[h].lower] IN f # <<>> /\ Len(chan[Head(f)]) >= ChanCap
        /\ \/ loop \in {"copyLan", "copyWan", "tests", "find"}
           \/ loop \in {"addLan", "addWan", "delays"} /\ left # {}

\* Nothing resolves that circle.
DeadlockIsForever == [][RemovalDeadlock => RemovalDeadlock']_vars

\* Every call returns, or a removal has run into the circle.
CallsReturnOrLock ==
    \A h \in Handlers : rpc[h] # NoCall ~> (rpc[h] = NoCall \/ RemovalDeadlock)

\* What a port reports is received in the end: no port is starved by another one, by the
\* RPCs, or by a loop whose TWAMP tests return.  The exceptions are a loop that hangs in a
\* test for good (test.go 100), and the circle.
UpdatesTaken ==
    \/ <>[](loop = "delays")
    \/ \A l \in Lowers : feed[l] # <<>> ~> (feed[l] = <<>> \/ RemovalDeadlock)

================================================================================
