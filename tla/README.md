# vmw_tsf HAL: TLA+ models, model checking and proofs

`vmw_tsf` is a Go library (`pkg/hal`) and a set of commands (`cmd/`) through which an
SD-WAN application ("HALO") steers traffic on a DriveNets DNOS router. The library keeps
steering rules in an access list of the router (NETCONF), follows interface counters
(gNMI), aggregates NetFlow records, measures delay with TWAMP and creates tunnels. This
directory models those parts in TLA+, checks small instances with TLC and proves some
of the results for every instance with TLAPS.

## 1. Inventory

| Component | State | Operations | Interacts with |
|---|---|---|---|
| Flow steering (`pkg/hal/hal.go` 180-276, 823-1178; `structs.go`) | `hal.aclRules`, `accessListID`, `netconfSession`; the router's running and candidate configuration | `Init` (flush, load), `Steer`, `RemoveSteer`, `GetSteerInterface`, `commitChanges` | router over NETCONF; other processes through the shared candidate; interface registry (next-hop lookup) |
| Interface registry (`hal.go` 278-608; `mgmt_server.go`; `stats_server.go`) | four maps and two sorted lists under `Map.Lock` | `NewInterface`, `RemoveInterface`, `InitInterfaces`, `find*`, `copy*`, management RPCs | interface monitor (`monitor.Add`, `monitor.Remove` under the lock), steering, flow aggregation |
| Interface monitor (`gnmi.go`; `monitorInterfaces`, `hal.go` 610-699) | subscriptions, `SpeedChan` and `StatsChan` of capacity 1, TWAMP tests | `Add`, `Remove`, `Update`, the monitoring loop | gNMI target manager (its goroutines call `Update`), registry (read lock), TWAMP |
| Flow aggregation (`hal.go` 36-67, 701-706, 739-821) | `hal.flows.aggregate`, `hal.flows.start` | `Publish` (NetFlow goroutine), `GetFlows` (caller), `ToTelemetry` | goflow collector, registry (`findInterfaceByNetFlowId`) |
| TWAMP control and test (`pkg/twamp`) | control connection, session, test sequence number, results | `Connect`, `CreateSession`, `Stop`, `CreateTest`, `Run`, `RunX` | server and reflector over TCP and UDP; the monitoring loop |
| Tunnels (`hal.go` 1192-1955; `cmd/client` 471-517) | the router's candidate and running configuration | `AddTunnel`, `DeleteTunnel`: tunnel, service-instance and flow-monitoring edits, lookups, commit | the NETCONF session of steering; every other process on the candidate |
| Batch accumulation (`cmd/client` 204-469) | the accumulated output: an entry for each interface and flow | `batch`, `updateAccInterfaces`, `updateAccFlows` | library callbacks, which fill a reading |
| Statistics client (`cmd/stats/main.go`; `stats_server.go`) | for each host a connection, a series of each interface and one of ACL cache sizes | `Update`, `shift`, `Connect`, `Disconnect`, `Close`, `main` | stats server of the host (gRPC stream over the registry's lists); `main` draws the series |
| Commands (`cmd/client`, `cmd/twamp`, `cmd/nop`) | flags | one library call per process | library |
| Configuration, formatting, mock (`config.go`, `fmt.go`, `mock.go`) | - | pure | - |

The hard behaviours: two-phase edit and commit over a candidate that several processes
share and nobody locks; a cache of rule ids that survives neither the process nor other
writers; a read-write lock held across a call into a library whose goroutines need that
lock to make progress; maps that are swapped and updated by different goroutines without
a lock; blocking reads without deadlines; operations of many RPCs each of which may fail.
`PROJECT.json` lists every hazard at its line, with the properties that cover it, or a note
that says why none does: some of them the code does not master, and a property that holds
has to except the case.

What makes each component correct, in one sentence:

- steering: a nil return is true of the router, a rule id keeps its flow, an operation
  affects the flows it names and no others;
- registry: all maps and lists describe the same set of interfaces;
- monitor: every registered interface is subscribed, its counters and delay are its own,
  every call returns;
- flows: every byte is reported once, only slow flows are held back;
- TWAMP: a test runs only with the server's consent, a result is of its own reply, a test
  ends;
- tunnels: a nil return is true of the router, a tunnel exists with all its parts or none;
- batch: an entry is the time-weighted average of its readings (finding 5: it is not);
- statistics client: a column of the graphs shows one round, and an answer is complete.

## 2. Modules

| Module | Models | Used by |
|---|---|---|
| `FlowSteeringTable` | what steering promises: an atomic table from flows to next hops | refined by `AclSteering` |
| `AclSteering` | the NETCONF implementation of steering | `MCAclSteering`, `AclSteering_proofs` |
| `InterfaceRegistry` | maps and lists, additions and removals atomic | extended by the next two; refined by `InterfaceMonitor` |
| `InterfaceMonitor` | handlers, monitoring loop, manager goroutines, lock, channels | `MCInterfaceMonitor`, `InterfaceMonitor_proofs` |
| `FlowAggregation` | `Publish` against `GetFlows` over a changing registry | `MCFlowAggregation`, `FlowAggregation_proofs` |
| `TwampControl`, `TwampTest` | the control connection; the test session | composed by `TwampClient` |
| `TwampClient` | both, in the order in which a client runs them, with fairness | `Commands`, `MCTwampClient`, `TwampClient_proofs` |
| `TunnelConfig` | `AddTunnel`, `DeleteTunnel` RPC by RPC | `MCTunnelConfig`, `TunnelConfig_proofs` |
| `HostStats` | the statistics client of one host, and its server | `Commands`, `HostStats_proofs` |
| `BatchAccumulate` | the accumulated output of `hal-client batch -a` | `Commands`, `MCBatchAccumulate`, `BatchAccumulate_proofs` |
| `Commands` | the programs side by side: steering, batch, statistics, `cmd/twamp`, with fairness | `MCCommands` |

`MC*` modules only give values to the constants. Definitions whose comment begins with
"Mutant of" are wrong on purpose: each is a plausible bug, and substituting it for the
definition it names makes the run find the property violated, as `PROJECT.json` lists.

### 2.1 Steering: `AclSteering`

A process is an element of `Procs`; it starts, loads the rules of the router, serves one
operation after the other and ends. One action is one RPC with the computation around it:

| Code | Actions |
|---|---|
| `InitNetConf`, cleanup, load (192-276, 1081-1146) | `Start`, `FlushDelete`, `FlushDefaultSkipped`, `FlushDefault`, `FlushCommit`, `Load`, `LoadPanics` |
| `Steer` (900-984) | `Steer` (the call), `SteerItem` (one turn of the loop, with the choice of an id), `SteerUnknownHop`, `SteerNothing`, `SteerEdit`, `SteerCommit` |
| `RemoveSteer` (987-1033) | `RemoveSteer`, `RemoveEdit`, `RemoveCommit` |
| `GetSteerInterface` (1035-1079) | `GetSteerInterface`, `GetSteerInterfacePanics` (the reply is used before the error is looked at) |
| `commitChanges` (826-843), `NetConfConnector` | `CommitAnswer`, `IsSuccess`, `RpcFails`, `SessionUp` |

Go maps are iterated in any order, so `ChosenId` and `ReportedHops` are
nondeterministic where two entries match. A crash (`Stop` with `MayCrash`) loses the
process's state and leaves the candidate. `GetSteerInterface` reads the running
configuration once, so it is one action.

### 2.2 Registry and monitor: `InterfaceRegistry`, `InterfaceMonitor`

`InterfaceRegistry` has the maps `upper2`, `lower2`, `netflow2`, `hop2`
(`Upper2Interface` and so on) and the two lists; an interface is a record with an
object number, because the code compares and keeps pointers. `Register` and `Unregister`
are the bodies of `NewInterface` and `RemoveInterface`.

`InterfaceMonitor` interleaves: `Init` and then `monitorInterfaces` (`InitInterface`,
`Dial`, `CopyLan`, `AddPort`, ..., `SetUpTests`, then the select: `Take`, `Find`,
`Store`, `Tick`, `StoreDelay`); a goroutine for each RPC (`Add`, `AddExists`,
`AddInterface`, `Delete`, ...); and one goroutine of the manager for each port (`Notify`,
`Send`). A section under `Map.Lock` that cannot block is one action. `RemoveInterface`
can: `DeleteInterface` changes the maps and, if `Manager.Remove` has to wait for the
goroutine of the port, keeps the lock until `DeleteDone`.

### 2.3 Flow aggregation: `FlowAggregation`

Publish is four steps for each message (`FindIngress`, `FindEgress`, `Load` of
`hal.flows.aggregate`, `Merge`), GetFlows is `Swap`, one `Visit` for each key and
`Return`. The two share maps without a lock: a merge into a map that is being ranged
over may end the process (Go detects some concurrent map accesses), and a key that is
new may or may not still be visited. Both outcomes are in the model. `ToTelemetry`'s
threshold is computed modulo `Modulus`, as the code's 64-bit arithmetic is.

### 2.4 TWAMP: `TwampControl`, `TwampTest`, `TwampClient`

`TwampControl` sends the control messages as cells of a byte stream: only the field that
the client checks is visible, and `Read` may return fewer cells than asked for, because
the code calls `Read` once and ignores the count. `TwampTest` has the datagrams on their
way (bags: the network repeats, loses and reorders), the client's socket, the results and
the statistics as the code computes them in integers. `TwampClient` runs the handshake,
then calls of `RunX`, then `Stop`. The module uses only operators that the provers can
expand: a datagram enters or leaves a bag with `(+)` and `(-)`, and `Backlog` counts a bag
with `SumFunction`.

### 2.5 Tunnels: `TunnelConfig`

`pc` walks through `AddTunnel` or `DeleteTunnel`: `Switch` on the type, `EditTunnel`,
the lookups of the interface (`GetExplicitPath`, `GetInterfaceConnectedTo` for RSVP,
`GetInterfaceByDescription` for VXLAN), `GetMembers`, `EditMembership`,
`EditMonitoring`, `Commit`. Every step has its failure: `Fail` returns and leaves the
edits made so far in the candidate, `Miss` is a lookup that fails, after which
`AddTunnel` of an RSVP tunnel goes on to its commit because the code drops that error.
`Clients` are runs of `hal-client`, whose handlers check `-t` and then pass VXLAN. Four
history variables record what the promises are conditional on: `missed` (a lookup
failed), `crossed` (another process edited the same tunnel or interface), `clean` (the
call began with nothing of the tunnel pending), `trouble` (any of the cases in which the
code publishes halves).

### 2.6 Statistics client: `HostStats`

Two goroutines share `conn` and `series` without a lock; a third party is the server.

| Code (`cmd/stats/main.go`) | Actions |
|---|---|
| `Update` (106-157) | `NewRound`, `Connect`, `Request`, `Recv`, `RecvEof`, `GetAclCacheSize`, `Shift` |
| `Disconnect` (80-85) | `Disconnect`, a part of `Request` and `GetAclCacheSize` |
| `main`, `Close`, `cleanup` (159-163, 271-323) | `Cancel` (the deferred cancel), `CloseLook`, `CloseConn`, `Leave` |
| `GetInterfaces` (`stats_server.go` 18-46) | `ServeLan`, `ServeWan`: one locked copy of a list each; `ChangeHost` moves an interface in between |

`Shift` is a single assignment of `shift`, so that what `main` draws in the middle of it is a
state of the model; the series of interfaces come in any order, as Go iterates a map. A
rate is abstracted to the round in which it was read and 0 to "not read", which is all the
properties tell apart. A name stands for its two series, `rx` and `tx`, which are treated
alike. In the code, `Recv` after an error other than `io.EOF` yields nil and the loop
continues; in the model no action but the end of the program leaves that state. `steady`
is a history variable: the shown names registered since the request was made.

### 2.7 Batch: `BatchAccumulate`

One action, `Accumulate`, is an iteration of `batch` with `-a`. Interfaces and flows go
through functions that differ in their fields only, so both are `Keys`; one integer rate
stands for the averaged fields. `Merged` leaves the entry's time zero, as `nextIf` and
`nextFlow` do. Times are whole seconds. The average is truncated as in the code but
computed in integers where the code has 64-bit floats, so the properties are stated with a
tolerance: one unit for an average of two, one unit for each reading after several.
`AverageOverTime` is what the flag, the comments and the field's name say of the output
(finding 5); `NewEntriesRight` is the part of it that holds.

### 2.8 Programs: `Commands`

A behaviour of `Commands` is one program of `Programs`: steering processes on one router, a
`batch` run, the statistics client of a host, or a TWAMP client. They share no variable,
which is why they are disjuncts and not interleaved: interleaving would multiply states and
show nothing. What the other programs would start from is fixed by `CommandsInit`. The
fairness of `TwampClient` is restated for the composed steps (`MeasuringFairness`).

## 3. What is assumed of the outside

- **Router.** RFC 6241: one candidate for all sessions; a commit publishes all of it,
  atomically; a refused edit may have been applied in part under stop-on-error (access
  list) and not at all under rollback-on-error (tunnels); deleting what is not there is
  refused; under default-operation `none` an element without an operation changes
  nothing; a commit of nothing is refused with the message the code tests for. Of several
  matching rules the one with the lowest id decides. An answer may be lost with the
  transport after the router has done its part.
- **gNMI manager.** One goroutine for each target; a target it has is refused, one it has
  not cannot be removed; `RemoveWaits` says whether `Remove` waits for the goroutine. The
  version the repository pins is not part of it; the runs of the monitor set it to TRUE,
  the harder case.
- **goflow.** One worker, as the code configures it, so calls of `Publish` do not overlap.
- **Go.** `sync.RWMutex` does not starve its waiters, channels serve blocked senders in
  order, `select` is fair among ready channels, unsynchronised map accesses have the
  outcomes of 2.3.
- **TWAMP server and reflector.** The server sends any mode and accept code; the
  reflector numbers its replies or copies the number. Errors of the socket (a closed
  port) are not modelled.
- **gRPC.** Sending never blocks the server for good. A stream delivers what was sent, in
  any order of names (the client stores by name), and ends with `io.EOF`, or it fails, and
  then delivers at most what was buffered and fails every further `Recv`. A call on a
  closed connection or a cancelled context is refused. `Close` of a nil connection panics.
- `log.Fatal` and panics end the process: the behaviour stops, or the process is `down`.

## 4. Runs

| Run | Instance | Shows |
|---|---|---|
| `acl_faults` | one process, 2 lives, 2 faults, crashes, 3 initial lists, unsorted replies | `SteerAck`, `RemoveAck`: nil is true; `RuleIdentity`: ids keep their flow in a first life |
| `acl_retry` (violation) | one process, one fault | `VerifiedMeansEffective` fails, finding 1 |
| `acl_relaunch` (violation) | one process, 2 starts, no flush | `OthersUntouched` fails, finding 2 |
| `monitor_loop` | one handler; a LAN interface, and a WAN interface that moves between ports; two updates in a notification, TWAMP on, fairness | `UpdatesTaken`: no port is starved by another, by RPCs or by a loop whose tests return; `ImplementsRegistry`, `IndexesComplete`, `CountersFromOwnPort`, `Monitored`, `NoNewStale`, `RemovalsSucceed` |
| `monitor_circle` | two handlers, two names on one port, a name that changes kind, notifications that fill both channels, fairness | `CallsReturnOrLock`: the only obstacle to a call is the circle of removal, full channel and lock; `DeadlockIsForever`; `MapsAndLists` |
| `monitor_reflector` (violation) | as `monitor_loop`, one addition more | `DelayOfOwnLink` fails, finding 3 |
| `flows` | 2 flows, 2 updates, 2 calls of `GetFlows`, interfaces that come and go | `Conservation`, `OneLatePerCall`, `NamesOfIndexes`, `OnlySlowHeldBack` |
| `solo`, program steer | one process, always flushes, no faults, 2 starts, 2 flows, 3 hops (one not WAN) | `ImplementsTable`: steering refines the atomic table; `CacheCoherent` (one rule for each flow, the cache is the router's list), `OthersUntouched`, `DefaultRuleStays` |
| `solo`, program twamp | 2 messages a call, 3 calls, 4 sequence numbers, 1 repeated and 1 lost datagram; fairness | `TwampTypeOK`, `OwnReply`, `Backlog`, `StatisticsSound`, `RunReturnsUnlessLost` |
| `twamp_wait` (violation) | 2 calls, a server that accepts | `RunReturns` fails, finding 4 |
| `tunnels` | a library user and a `hal-client`; two RSVP tunnels, a VXLAN and an unsupported one, three of them on one interface; 3 calls, 2 faults | `AddComplete`, `DeleteComplete`, `PartsTogether`; `StrandedStays`: a half-failed deletion is not repaired by retrying it |
| `commands`, program steer | two processes on one candidate, each with a batch and removals, 2 starts | `SteerFailsOnlyByFault`: the empty commit after another process published the edit is no error; `RefusedForLife`: a cached rule that the router lost cannot be removed for the rest of the process |
| `commands`, program stats | one LAN and one WAN interface shown, one not shown; 3 rounds, 2 changes of the host, 2 columns; fairness | `Aligned`: the graphs do not drift; `SteadySampled`; `OneConnection`: none is missing in use and none leaked; `SpinsForever`, `RoundEnds`: the receive loop after an error is the only place where a round hangs, and it hangs there for good |
| `commands`, program batch | 2 keys, 3 readings, rates 0, 1, 4, intervals 1, 2 | `NewEntriesRight`: no entry is dropped (`KeysKept`), and two readings are averaged over their time (`TwoAveraged`) |
| `commands`, program twamp | one message; messages of the server split anywhere, two modes, accept and refuse; fairness | `SessionAgreed`; `ControlEnds`: not even shifted answers make client and server wait for each other |
| `batch_average` (violation) | one key, 3 readings, rates 0, 10 | `AverageOverTime` fails, finding 5 |

The type invariants of all modules are proved (section 6); that of TWAMP is checked in a
run as well. `Commands` is run twice, with the properties of its programs at once. Splitting
the control messages and running several tests are kept apart: a test does not read from
the control connection, so that the two together only multiply states.

### Bounds, and why they are enough

- Rule ids: `DefaultRuleId` is 94 instead of 65434 and `MaxRuleId` 50 or 60. Ids are
  only compared and incremented; the range leaves room for the few rules a run makes and
  keeps the default rule last, as it is in the code until thousands of rules were added.
  (Past that the code puts rules where they have no effect: a hazard without a property.)
- `MaxFaults` 2 allows a failure and a failing retry, or one failure in each of two
  calls, in each of the ways an RPC fails; `MaxStarts` 2 a restart on what a crash left.
- Two flows and two hops tell "the flow named" from "another", a third hop is unknown.
- Two upper names and three ports let a name move and a port be reused; an interface that
  shares a port with another is excluded from the properties that need it
  (`OnePortPerName`) and is in the run of `MapsAndLists`. `MaxObjects` 2 is the configured
  interface and one that is added, by RPC: in `monitor_loop` another one beside it, whose
  port then competes with the first, or the same name again on the other port.
  `ChanCap` is the code's 1.
- `Modulus` 2^20 stands for 2^64: products stay below it, and `OnlySlowHeldBack` states
  where it holds. `Intervals` are an empty and a long one, `FlowThreshold` lies between the
  rates of the flows sent.
- `Width` 4 makes sequence numbers wrap within three calls of two messages; one lost and
  one repeated datagram are the cases that `Backlog` combines.
- Three tunnel calls are an add, a delete and an interfering call, or a call, its retry
  and another process's commit between.

- `StatsLen` 2 has an element that `shift` moves and one that it fills; 3 rounds fill both
  columns and push one out. 2 changes remove an interface from one list and return it, to
  the same or the other list, while an answer is under way. Three readings are the first
  in which an accumulated entry is merged again; the rates and intervals are such that
  exchanged weights give an average that is off by more than the tolerance.

### Deadlock and fairness

All runs say `CHECK_DEADLOCK FALSE` because the bounds on starts, calls, objects and
faults stop every instance, and because the programs may stop: `log.Fatal`, a panic, a
crashed runtime, a test that waits for a lost datagram. Where stopping would be wrong it
is a property: `CallsReturnOrLock`, `UpdatesTaken`, `ControlEnds`,
`RunReturnsUnlessLost`.

`InterfaceMonitor` assumes strong fairness of `Take` and `Send`, which are disabled again
and again by others' turns: `select` picks among ready cases at random, and the goroutines
blocked on a channel are first-in first-out. Of the steps that need the lock it assumes weak
fairness, which is less than `sync.RWMutex` gives: only a waiting removal holds the lock
from one step to the next, and `MaxObjects` bounds the removals. It assumes nothing of
`Tick`, `Notify`, a new RPC or the end of a TWAMP test (`StoreDelay`): `UpdatesTaken`
excepts a loop that stays in a test for good, which is finding 4. `TwampClient` assumes weak
fairness of the client goroutine, of the server's answers and of the delivery of what is not
lost; the server may still close the connection at any time. `Commands` assumes weak
fairness of the goroutine `Update`, which the Go scheduler runs when it can, and of `Fail`
(every request has a context with a timeout of a second); nothing is assumed of the server,
which may be silent, nor of the user, who may never quit.

## 5. Findings

1. *Retry after a refused commit* (`acl_retry`, `hal.go:935`). The cache is written only
   after a commit, the refused rule stays in the candidate. A retry takes a second id and
   its commit publishes both; `GetSteerInterface` answers from the last rule listed, the
   router obeys the first.
2. *A lone rule 10* (`acl_relaunch`, `hal.go:238`). A process started on a router whose
   highest rule is 10 gives id 10 out again: `hal-client` steering two flows in two
   runs overwrites the first.
3. *Delay of another link* (`monitor_reflector`, `hal.go:663`). TWAMP tests are built once
   and keyed by name; an interface that returns with another reflector is given the delay
   to the old one, where `api.go:50` says it is that of its own link.
4. *No deadline* (`twamp_wait`, `twamp/test.go:100`). The maximum wait time that
   `cmd/twamp` documents is only sent to the server; a lost datagram blocks `Run`, and
   with it the monitoring loop.
5. *`batch -a` does not accumulate* (`batch_average`, `cmd/client/main.go:327`). The entry
   that an update writes has no `Time` (also 350, 377, 400) and weighs nothing in the next
   one: from the third reading of a key on the output is the last reading
   (`NothingAccumulates` proves it for all readings). The flag is "accumulate flow statistics
   in batch mode" (683), `Time` is "accumulated time" (214, 227), and the loops "Update
   average" (349, 399).

Observed while modelling, without a line of the repository that says otherwise:

- A removal may lock up with the monitoring loop if `Manager.Remove` waits
  (`RemovalDeadlock`; `monitor_circle` shows that it is the only such circle and that it is
  permanent).
- A removal while the monitoring loop starts may be refused by the manager
  after the registry has changed (`hal.go:417`), and the loop then subscribes to its port
  for nobody.
- `Init` ignores a failing cleanup (`hal.go:259`): the next commit publishes a list that has
  lost its default rule.
- A repeated TWAMP reply makes all later tests read the reply to an earlier message, until a
  datagram is lost. Accept codes above 5 and short reads pass for consent. The average
  divides by the number sent, and the minimum stays 0 if the first message was unanswered.
- `AddTunnel` returns nil without a service interface when the lookup of an RSVP tunnel's
  interface fails (`hal.go:1290`). After a failed `AddTunnel`, `DeleteTunnel` may publish
  the membership it left: it looks for it in the running configuration. A failed delete
  cannot be retried until something commits (`StrandedStays`). Deleting a VXLAN changes
  nothing under the RFC's rules (`hal.go:1362`). Tunnels on one interface lose each other's
  membership. `hal-client` ignores its flag `-t` (`main.go:504`, `516`).

- The statistics client never leaves its receive loop after a stream failed
  (`cmd/stats/main.go:119`), not even when its context is cancelled: `SpinsForever`. One
  request that takes longer than its second stops the graphs of that host for good.
- `Close` may meet the nil that `Update` wrote after `Close` looked (`main.go:160`), a panic
  while the program ends (`CloseConn`).
- An interface RPC of `hal-client` gives up after a second, while a removal that waits
  (2.2) goes on at the server: the reported failure then says nothing about the registry.

## 6. Proofs

All theorems hold for every value of the constants that the named assumptions of the
modules allow; TLC evaluates those assumptions in the runs. Each invariant was checked
with TLC before it was proved. A theorem that needs more states it as a hypothesis, and
the run that checks the property satisfies it.

**`AclSteering_proofs`** (from `ValueAssumption`, `InputAssumption`, `BoundAssumption`,
`MarkAssumption`). `TypeCorrect` is inductive as it stands. `Acknowledged`, for a single
process: `SteerAck` and `RemoveAck` are not inductive; `AckInv` says that an accepted edit
is in the candidate until the same process commits, which a second process would break.
`IdsKeepTheirFlow`, for a single process in a first life on a router whose highest rule
is not 10: `IdInv` says that running configuration, candidate, cache and edits agree on
the flow of every id (`Claims`) and that `nextId` is above all of them. The candidate
and the pending edits have to be part of it, since a failed commit leaves rules that a
later one publishes. Finding 2 is the case the assumption excludes. `LostRuleStuck`, for
any number of processes: a cached rule missing in candidate and running configuration
stays cached and missing, because each removal of it is refused before the cache is
written; the exceptions named in `RefusedForLife` (an edit that puts the rule back, the end
of the process) are the only ones. `SteerErrorsExplained`, for any number of processes: a
`Steer` that has not failed yet has no error to return (`Unanswered`), and a commit that
another process emptied is answered with the message that `IsSuccess` accepts.

The other four are about a process that has the router to itself, `Solo(q)`: it flushes at
every start, no RPC fails, it does not die between two steps, ids stay below that of the
default rule, and no batch names a flow twice. Each condition is needed: findings 1 and 2
are what happens without the second and the first, the last is a hazard of its own.
`SoloInv` says for each step of an operation what candidate, running configuration and
cache are: equal and `Tidy` between operations, the list that `Load` will read during the
start, and apart by exactly the edits between edit and commit. From it follow
`CacheIsRouter` (with `OneRulePerFlow`, if no initial list has two rules for a flow),
`DefaultRuleKept` and `OthersLeftAlone`. `SteeringIsATable` is the refinement: each commit
is a step of `FlowSteeringTable` and everything else stutters. It assumes in addition that
no two WAN interfaces have one next-hop address (`DistinctAddrs`): `GetSteerInterface`
recognises an interface by the address in the rule. What the router does with a flow is the
rule with the lowest id that matches; that such an id exists is an induction on naturals,
done by least elements (`WFMin` of the library), since an induction rule for an arbitrary
predicate is out of the provers' reach.

**`InterfaceRegistry_proofs`.** `RegistryTypeCorrect` and `MapsMatchLists` (no map finds a
removed interface, the lists hold what the maps hold) without conditions; `LookupsComplete`
under `OnePortPerName`, by the invariant that every registered interface is one that was
declared (`LiveDeclared`), so that two of them cannot share a port or index, and all maps
find it (`AllFound`).

**`InterfaceMonitor_proofs`.** `MonitorImplementsRegistry`: each of the monitor's actions is
a step of the registry or leaves it alone; the registry's theorems carry over.
`MonitorTypeCorrect` needs that the delays still to be stored are of names with a test
(`LeftTested`). `CountersCorrect`: `SinkOK` says that the interface found for an update,
removed or not, is an object whose port is that of the update; objects are never reused.
`EveryInterfaceMonitored`: `SubscriptionInv` says for each point of the start which
interfaces are subscribed, still to be subscribed or bound to be copied; one added while
`monitor` is not set is covered by the copies. `SubscriptionsEnd`: a port becomes stale only
by a subscription or a removal, and after the start each happens together with the change of
the registry, or keeps the lock until it has. `RemovalsAnswered` combines that with
`Monitored`: the port that a removal names is one the manager has. `CircleNeverOpens`:
whoever could end the circle waits for the lock or for the channel, so every step that is
possible leaves it.

**`FlowAggregation_proofs`.** `FlowTypeCorrect`. `LateBounded` counts a loaded map that is
no longer in place as a late message to come (`LateOrStale`). `BytesConserved` needs that
maps not yet in place are empty (`Fresh`) and follows each byte from `published` to a map
and to `given` or `below`. `NamesCorrect` needs that what the first lookup found, and a flow
in a map, is recorded as a name its index has had (`LookupsRecorded`); names are never
forgotten, so a later change of the registry does no harm. `FastFlowsVisited` is an
inequality between rounded quotients (`SmallRemainder`, `DivisionBelow`), proved for every
threshold and interval.

**`TunnelConfig_proofs`** (from `TunnelAssumption`). `TunnelTypeCorrect` includes that
memberships are edited only for the interface of the tunnel in hand, which the other two
rest on. `AddTunnelComplete` and `DeleteTunnelComplete`, for any number of processes,
tunnels and failing RPCs: `AddInv` says which edits of a call are in the candidate at
each of its steps, `DeleteInv` that up to the lookup the candidate has the membership
exactly if the running configuration has it, and what is gone after each edit. A step
of another process either touches the same tunnel or interface, and is noticed
(`crossed`), or keeps the parts of this tunnel (`NewParts`), or commits, which makes
running equal to the candidate (`Spared`). `NilReturn` shows that nil comes only from a
call's own commit. `RetriesRefused` rests on `DescriptionInv`: only a VXLAN
is looked up by description, so that no other deletion gets past its refused first edit.

`PartsStayTogether` has two hypotheses about the router at the start: its tunnels are RSVP
tunnels, and each that has its interface to itself is complete or absent. `PartsTogether`
only looks at the running configuration. `PartsInv` says what the candidate is, as long as
there was no trouble: the same as running while nobody edits; and while one process alone
has edits, running but for its own tunnel, whose parts are as far as the process has come
(`OwnEdits`). It claims nothing while two have edits, because then only a commit that is
trouble, or the end of one of them, which is trouble too (`EditingEnds`), can follow. Why
`DeleteTunnel` may skip membership and monitoring when the lookup finds no membership in
running: both were equal in candidate and running up to there (`SameMembership`), and in
running one is there if and only if the other is, which is the invariant itself. `PlaceInv`
keeps the type of the tunnel in hand.

**`TwampClient_proofs`** (from `ControlAssumption`, `TestAssumption`). `TypeCorrect` is
proved with `TestInv`, which adds that the bags of datagrams are finite counts and that a
message is under way only within a call that `MaxCalls` allows. `ConsentGiven`:
`ConsentInv` says that as long as no message was read in pieces, the stream holds answers
whole and in order (`Told`), that each is what the server was asked for (`Asked`), and that
the step the client has reached means consent to all before. `RepliesPileUp`: sending adds
one to the messages, the reflector moves one, the network adds one repeated or takes one
lost, `Receive` takes one; that the sum of a bag changes by one with each is
proved from the recursion that the library's `SumFunction` is, again by least elements
(`SumsExist`, `SumsAgree`, `SumWithout`). `ResultsOwned`: `OwnInv` says that as long as
nothing was repeated or lost, at most the message awaited is under way, and that a reply
carries the number of its message. `StatisticsWithinExtremes` bounds the truncated quotient
by the extremes (`AverageBetween`) and the jitter by their distance (`JitterBounded`), for
any number of messages.

**`HostStats_proofs`** (from `StatsAssumption`). `StatsTypeCorrect` is inductive.
`SeriesAligned` follows from `AlignInv`: `HeldRound` says for each element of a series, by
how far `shift` has got, which round it is of, and `ShiftInv` how far it has got by what
`Update` is doing. `AnswersComplete` follows from `SteadyInv`: a steady name that has no
value yet is on its way, or in a list that is still to be copied (`Unserved`). `RecvForever`
and `ConnectionKept` are proved action by action.

**`BatchAccumulate_proofs`** (from `BatchAssumption`). `TimeInv` says which entries have a
time: those first reported by the last reading, and no other. With it `FirstAverageRight` (by
`AverageExact`: truncation takes less than one unit away) and `NothingAccumulates`, the cause
of finding 5, are computations with the average. `OutputKeepsKeys` is inductive.
`NewEntriesAlwaysRight` is the first and the last of them.

**Only model-checked:** the five liveness properties, which are out of the provers' reach
(fairness, ENABLED): `CallsReturnOrLock`, `UpdatesTaken`, `ControlEnds`,
`RunReturnsUnlessLost`, `RoundEnds`. The five findings are counterexamples of TLC's. Every
other property of a passing run is a theorem, under the hypotheses given above: what the
router does for a process that fails, dies or shares it is stated by `Acknowledged`,
`IdsKeepTheirFlow`, `LostRuleStuck` and `SteerErrorsExplained`, and by no theorem that
assumes `Solo`.

## 7. Not modelled

- *Commands*: flags and printing; the monitor and print loops, which only read; the client
  side of the interface RPCs, one call whose give-up changes nothing at the server (its
  handlers are in `InterfaceMonitor`). The widgets of `cmd/stats` only read the series.
- *Configuration, formatting*: no state that changes; the options are constants.
- *Mock and tests*; *generated gRPC code*.
- Within modelled parts: counter values, addresses and the XML; the standard deviation
  and the conversion of timestamps in TWAMP; socket errors; batches that name a flow
  twice.

## 8. Plan

Done in this order: steering with its abstract table and proofs; registry and monitor
with the refinement; flow aggregation; TWAMP; tunnels; the statistics client and the batch
command; the properties of lost rules and stranded tunnels; the proofs that section 6 lists.

Next:

1. Composition: steering's next-hop lookup over the changing registry, so that an
   interface that is deleted meanwhile is an unknown hop or an old address; the give-up of
   an RPC client in `InterfaceMonitor`.
2. Proofs: what steering promises when RPCs fail but no rule is lost (a weaker table, whose
   entries for the flows of a failed batch are open until the next success); how many
   processes `PartsInv` can allow when their tunnels share nothing.
