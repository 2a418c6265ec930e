--------------------------- MODULE InterfaceRegistry ---------------------------
(***************************************************************************)
(* The interface registry: hal.interfaces.Map of pkg/hal/hal.go, four maps *)
(* and two sorted lists that Map.Lock protects.                            *)
(*                                                                         *)
(* NewInterface and RemoveInterface do all their work on the maps under    *)
(* the write lock, so each is one action here.  InterfaceMonitor shows how *)
(* the goroutines that call them interleave, and that they implement this  *)
(* specification.                                                          *)
(*                                                                         *)
(* An *Interface is a record.  Its field obj tells one allocation from     *)
(* another, as pointers do.  sort.Strings makes a list a function of how   *)
(* often each name is in it, so a list is a count for each name.           *)
(***************************************************************************)
EXTENDS Naturals, Functions

CONSTANTS
    Uppers,      \* names of interfaces in the container
    Lowers,      \* names of ports of the router
    Indexes,     \* interface indexes the router gives its ports
    NoIndex,     \* NETFLOW_ID_INVALID
    IfIndex,     \* the index the router reports for each port
    Hops,        \* next hops of WAN interfaces, the nil address among them
    ZeroHop,     \* 0.0.0.0, the next hop of a LAN interface
    Peers,       \* TWAMP reflectors
    NoPeer,      \* the empty TWAMP peer of a LAN interface
    Declared,    \* the interfaces that the configuration or an RPC asks for
    MaxObjects   \* bound: interfaces ever created

Declaration == [upper : Uppers, lower : Lowers, hop : Hops \cup {ZeroHop},
                peer : Peers \cup {NoPeer}]

ASSUME RegistryAssumption ==
    /\ NoIndex \notin Indexes
    /\ IfIndex \in [Lowers -> Indexes \cup {NoIndex}]
    /\ ZeroHop \notin Hops
    /\ Declared \subseteq Declaration
    /\ MaxObjects \in Nat

Interface == [obj : Nat, upper : Uppers, lower : Lowers, hop : Hops \cup {ZeroHop},
              peer : Peers \cup {NoPeer}, netflow : Indexes \cup {NoIndex}]

VARIABLES
    upper2,    \* Upper2Interface
    lower2,    \* Lower2Interface
    netflow2,  \* NetFlow2Interface
    nexthop2,  \* NextHop2Interface, whose keys are upper names
    lan, wan,  \* UpperSorted.Lan, UpperSorted.Wan: how often each name is listed
    objects    \* how many interfaces were created so far

registry == <<upper2, lower2, netflow2, nexthop2, lan, wan, objects>>

NoInterfaces == [x \in {} |-> 0]

RegistryInit ==
    /\ upper2 = NoInterfaces /\ lower2 = NoInterfaces
    /\ netflow2 = NoInterfaces /\ nexthop2 = NoInterfaces
    /\ lan = [u \in Uppers |-> 0]
    /\ wan = [u \in Uppers |-> 0]
    /\ objects = 0

\* The map f after f[k] = v, and after delete(f, k).
Put(f, k, v) == [x \in DOMAIN f \cup {k} |-> IF x = k THEN v ELSE f[x]]
Drop(f, k)   == Restrict(f, DOMAIN f \ {k})

\* The list after append and sort.
Listed(list, u) == [list EXCEPT ![u] = @ + 1]

\* The list after remove, which takes out one occurrence.
Unlisted(list, u) == [list EXCEPT ![u] = IF @ > 0 THEN @ - 1 ELSE 0]

\* Every next hop but 0.0.0.0 makes a WAN interface, a nil one too.
IsWan(ifc) == ifc.hop # ZeroHop

\* Mutant of Indexed: only the index of a WAN interface is recorded.
IndexedWan(ifc) == IF ifc.netflow = NoIndex \/ ~ IsWan(ifc)
                   THEN netflow2 ELSE Put(netflow2, ifc.netflow, ifc)

\* NetFlow2Interface with ifc added, unless its index is NETFLOW_ID_INVALID.
Indexed(ifc) == IF ifc.netflow = NoIndex THEN netflow2 ELSE Put(netflow2, ifc.netflow, ifc)

\* Mutant of Unindexed: the entry is left behind.
UnindexedNot(ifc) == netflow2

Unindexed(ifc) == IF ifc.netflow = NoIndex THEN netflow2 ELSE Drop(netflow2, ifc.netflow)

\* The interface that the options of a declaration build.
Built(d) == [obj |-> objects, upper |-> d.upper, lower |-> d.lower, hop |-> d.hop,
             peer |-> d.peer, netflow |-> IfIndex[d.lower]]

\* NewInterface for a name that is free.
Register(d) ==
    LET ifc == Built(d)
    IN  /\ ifc.upper \notin DOMAIN upper2
        /\ objects < MaxObjects /\ objects' = objects + 1
        /\ upper2' = Put(upper2, ifc.upper, ifc)
        /\ lower2' = Put(lower2, ifc.lower, ifc)
        /\ netflow2' = Indexed(ifc)
        /\ nexthop2' = IF IsWan(ifc) THEN Put(nexthop2, ifc.upper, ifc) ELSE nexthop2
        /\ wan' = IF IsWan(ifc) THEN Listed(wan, ifc.upper) ELSE wan
        /\ lan' = IF IsWan(ifc) THEN lan ELSE Listed(lan, ifc.upper)

\* RemoveInterface for a name that is registered.
Unregister(u) ==
    LET ifc == upper2[u]
    IN  /\ u \in DOMAIN upper2
        /\ upper2' = Drop(upper2, ifc.upper)
        /\ lower2' = Drop(lower2, ifc.lower)
        /\ netflow2' = Unindexed(ifc)
        /\ nexthop2' = Drop(nexthop2, ifc.upper)
        /\ wan' = Unlisted(wan, ifc.upper)
        /\ lan' = Unlisted(lan, ifc.upper)
        /\ UNCHANGED objects

RegistryNext ==
    \/ \E d \in Declared : Register(d)
    \/ \E u \in Uppers : Unregister(u)

RegistrySpec == RegistryInit /\ [][RegistryNext]_registry

--------------------------------------------------------------------------------
(* Properties                                                              *)

\* A map from keys to interfaces.
IsMap(f, keys) == DOMAIN f \subseteq keys /\ f \in [DOMAIN f -> Interface]

\* Type invariant of the registry.
RegistryTypeOK ==
    /\ IsMap(upper2, Uppers) /\ IsMap(lower2, Lowers)
    /\ IsMap(netflow2, Indexes) /\ IsMap(nexthop2, Uppers)
    /\ lan \in [Uppers -> Nat] /\ wan \in [Uppers -> Nat]
    /\ objects \in Nat

Live == {upper2[u] : u \in DOMAIN upper2}

\* Whatever a lookup finds is an interface that is still registered, and one the key
\* belongs to: findInterfaceByLower, findInterfaceByNetFlowId, findInterfaceByNextHop
\* never hand out an interface that RemoveInterface took away, though several
\* interfaces may have shared a key.
IndexesAgree ==
    /\ \A u \in DOMAIN upper2 : upper2[u].upper = u
    /\ \A l \in DOMAIN lower2 : lower2[l] \in Live /\ lower2[l].lower = l
    /\ \A n \in DOMAIN netflow2 : netflow2[n] \in Live /\ netflow2[n].netflow = n
    /\ DOMAIN nexthop2 = {u \in DOMAIN upper2 : IsWan(upper2[u])}
    /\ \A u \in DOMAIN nexthop2 : nexthop2[u] = upper2[u]

\* A registered name is listed exactly once, in the list of its kind, and no other name
\* is listed: copyLanInterfaces and copyWanInterfaces return no nil and nothing twice.
ListedOnce ==
    \A u \in Uppers :
        LET registered == u \in DOMAIN upper2
        IN  /\ wan[u] = IF registered /\ IsWan(upper2[u]) THEN 1 ELSE 0
            /\ lan[u] = IF registered /\ ~ IsWan(upper2[u]) THEN 1 ELSE 0

\* Maps and lists describe one set of interfaces: a lookup never finds what a list has
\* lost, nor a list what the maps have lost (NewInterface and RemoveInterface change six
\* of them in a row).
MapsAndLists == IndexesAgree /\ ListedOnce

\* No port is declared for two names, and no two ports have the same index.
OnePortPerName ==
    /\ \A d, e \in Declared : d.lower = e.lower => d.upper = e.upper
    /\ \A d, e \in Declared : d.lower # e.lower =>
          IfIndex[d.lower] = NoIndex \/ IfIndex[d.lower] # IfIndex[e.lower]

\* If no two names are declared with one port, every registered interface is found by
\* its port and by its index, whatever was added and removed before: no removal takes
\* another interface out of a map (hal.go 406-411 delete by key, not by interface).
IndexesComplete ==
    OnePortPerName =>
        \A i \in Live : /\ i.lower \in DOMAIN lower2 /\ lower2[i.lower] = i
                        /\ i.netflow # NoIndex =>
                              i.netflow \in DOMAIN netflow2 /\ netflow2[i.netflow] = i

================================================================================
