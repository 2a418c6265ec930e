------------------------ MODULE InterfaceRegistry_proofs ------------------------
(* Theorems about InterfaceRegistry, for every set of names, ports, indexes and *)
(* declarations, and their proofs.                                              *)
EXTENDS InterfaceRegistry, TLAPS

LEMMA PutIsMap ==
    ASSUME NEW keys, NEW f, IsMap(f, keys), NEW k \in keys, NEW v \in Interface
    PROVE  IsMap(Put(f, k, v), keys)
BY DEF IsMap, Put

LEMMA DropIsMap ==
    ASSUME NEW keys, NEW f, IsMap(f, keys), NEW k
    PROVE  IsMap(Drop(f, k), keys)
BY DEF IsMap, Drop, Restrict

LEMMA BuiltIsInterface ==
    ASSUME RegistryTypeOK, NEW d \in Declared
    PROVE  Built(d) \in Interface
BY RegistryAssumption DEF RegistryTypeOK, Built, Interface, Declaration

LEMMA UnlistedType ==
    ASSUME NEW list \in [Uppers -> Nat], NEW u \in Uppers
    PROVE  Unlisted(list, u) \in [Uppers -> Nat]
<1>1. list[u] \in Nat /\ (list[u] > 0 => list[u] - 1 \in Nat)
  OBVIOUS
<1> QED
  BY <1>1 DEF Unlisted

LEMMA RegistryTypeInitially == RegistryInit => RegistryTypeOK
BY DEF RegistryInit, RegistryTypeOK, IsMap, NoInterfaces

LEMMA RegistryTypeInductive ==
    ASSUME RegistryTypeOK, [RegistryNext]_registry
    PROVE  RegistryTypeOK'
<1> USE DEF RegistryTypeOK
<1>1. ASSUME NEW d \in Declared, Register(d) PROVE RegistryTypeOK'
  <2> DEFINE ifc == Built(d)
  <2>1. ifc \in Interface /\ ifc.upper \in Uppers /\ ifc.lower \in Lowers
    BY BuiltIsInterface DEF Interface
  <2>2. ifc.netflow # NoIndex => ifc.netflow \in Indexes
    BY <2>1 DEF Interface
  <2>3. IsMap(upper2', Uppers) /\ IsMap(lower2', Lowers) /\ IsMap(nexthop2', Uppers)
    BY <1>1, <2>1, PutIsMap DEF Register
  <2>4. IsMap(netflow2', Indexes)
    BY <1>1, <2>1, <2>2, PutIsMap DEF Register, Indexed
  <2>5. lan' \in [Uppers -> Nat] /\ wan' \in [Uppers -> Nat] /\ objects' \in Nat
    BY <1>1, <2>1 DEF Register, Listed
  <2> QED
    BY <2>3, <2>4, <2>5
<1>2. ASSUME NEW u \in Uppers, Unregister(u) PROVE RegistryTypeOK'
  <2>1. IsMap(upper2', Uppers) /\ IsMap(lower2', Lowers) /\ IsMap(nexthop2', Uppers)
    BY <1>2, DropIsMap DEF Unregister
  <2>2. IsMap(netflow2', Indexes)
    BY <1>2, DropIsMap DEF Unregister, Unindexed
  <2>3. lan' \in [Uppers -> Nat] /\ wan' \in [Uppers -> Nat] /\ objects' \in Nat
    <3>1. upper2[u].upper \in Uppers
      BY <1>2 DEF Unregister, IsMap, Interface
    <3>2. Unlisted(lan, upper2[u].upper) \in [Uppers -> Nat]
      BY <3>1, UnlistedType
    <3>3. Unlisted(wan, upper2[u].upper) \in [Uppers -> Nat]
      BY <3>1, UnlistedType
    <3> QED
      BY <1>2, <3>2, <3>3 DEF Unregister
  <2> QED
    BY <2>1, <2>2, <2>3
<1>3. CASE UNCHANGED registry
  BY <1>3 DEF registry, IsMap
<1> QED
  BY <1>1, <1>2, <1>3 DEF RegistryNext

\* The registry keeps its types.
THEOREM RegistryTypeCorrect == RegistrySpec => []RegistryTypeOK
<1>1. RegistryTypeOK /\ [RegistryNext]_registry => RegistryTypeOK'
  BY RegistryTypeInductive
<1> QED
  BY <1>1, RegistryTypeInitially, PTL DEF RegistrySpec

--------------------------------------------------------------------------------
(* Lookups never find a removed interface.                                 *)

LEMMA RegisterAgrees ==
    ASSUME RegistryTypeOK, IndexesAgree, NEW d \in Declared, Register(d)
    PROVE  IndexesAgree'
<1> DEFINE ifc == Built(d)
<1>1. ifc \in Interface
  BY BuiltIsInterface
<1>2. upper2' = Put(upper2, ifc.upper, ifc) /\ ifc.upper \notin DOMAIN upper2
  BY DEF Register
<1>3. DOMAIN upper2' = DOMAIN upper2 \cup {ifc.upper} /\ upper2'[ifc.upper] = ifc
      /\ \A u \in DOMAIN upper2 : upper2'[u] = upper2[u]
  BY <1>2 DEF Put
<1>4. Live \subseteq Live' /\ ifc \in Live'
  BY <1>3 DEF Live
<1>5. \A u \in DOMAIN upper2' : upper2'[u].upper = u
  BY <1>3 DEF IndexesAgree
<1>6. \A l \in DOMAIN lower2' : lower2'[l] \in Live' /\ lower2'[l].lower = l
  <2>1. lower2' = Put(lower2, ifc.lower, ifc)
    BY DEF Register
  <2> QED
    BY <2>1, <1>4 DEF IndexesAgree, Put
<1>7. \A n \in DOMAIN netflow2' : netflow2'[n] \in Live' /\ netflow2'[n].netflow = n
  <2>1. netflow2' = netflow2 \/ netflow2' = Put(netflow2, ifc.netflow, ifc)
    BY DEF Register, Indexed
  <2> QED
    BY <2>1, <1>4 DEF IndexesAgree, Put
<1>8. /\ DOMAIN nexthop2' = {u \in DOMAIN upper2' : IsWan(upper2'[u])}
      /\ \A u \in DOMAIN nexthop2' : nexthop2'[u] = upper2'[u]
  <2>1. CASE IsWan(ifc)
    <3>1. nexthop2' = Put(nexthop2, ifc.upper, ifc)
      BY <2>1 DEF Register
    <3> QED
      BY <2>1, <3>1, <1>2, <1>3 DEF IndexesAgree, Put
  <2>2. CASE ~ IsWan(ifc)
    <3>1. nexthop2' = nexthop2
      BY <2>2 DEF Register
    <3> QED
      BY <2>2, <3>1, <1>2, <1>3 DEF IndexesAgree
  <2> QED
    BY <2>1, <2>2
<1> QED
  BY <1>5, <1>6, <1>7, <1>8 DEF IndexesAgree, Live

LEMMA UnregisterAgrees ==
    ASSUME RegistryTypeOK, IndexesAgree, NEW u \in Uppers, Unregister(u)
    PROVE  IndexesAgree'
<1> DEFINE ifc == upper2[u]
<1>1. u \in DOMAIN upper2 /\ ifc.upper = u
  BY DEF Unregister, IndexesAgree
<1>2. upper2' = Drop(upper2, u)
  BY <1>1 DEF Unregister
<1>3. DOMAIN upper2' = DOMAIN upper2 \ {u}
      /\ \A x \in DOMAIN upper2' : upper2'[x] = upper2[x]
  BY <1>2 DEF Drop, Restrict
<1>4. \A i \in Live : i # ifc => i \in Live'
  BY <1>1, <1>3 DEF Live
<1>5. \A x \in DOMAIN upper2' : upper2'[x].upper = x
  BY <1>3 DEF IndexesAgree
<1>6. \A l \in DOMAIN lower2' : lower2'[l] \in Live' /\ lower2'[l].lower = l
  <2>1. lower2' = Drop(lower2, ifc.lower)
    BY DEF Unregister
  <2>2. \A l \in DOMAIN lower2' : l # ifc.lower /\ l \in DOMAIN lower2 /\ lower2'[l] = lower2[l]
    BY <2>1 DEF Drop, Restrict
  <2> QED
    BY <2>2, <1>4 DEF IndexesAgree
<1>7. \A n \in DOMAIN netflow2' : netflow2'[n] \in Live' /\ netflow2'[n].netflow = n
  <2>1. CASE ifc.netflow = NoIndex
    <3>1. netflow2' = netflow2
      BY <2>1 DEF Unregister, Unindexed
    <3>2. \A n \in DOMAIN netflow2 : n # NoIndex
      BY RegistryAssumption DEF RegistryTypeOK, IsMap
    <3> QED
      BY <2>1, <3>1, <3>2, <1>4 DEF IndexesAgree
  <2>2. CASE ifc.netflow # NoIndex
    <3>1. netflow2' = Drop(netflow2, ifc.netflow)
      BY <2>2 DEF Unregister, Unindexed
    <3>2. \A n \in DOMAIN netflow2' :
             n # ifc.netflow /\ n \in DOMAIN netflow2 /\ netflow2'[n] = netflow2[n]
      BY <3>1 DEF Drop, Restrict
    <3> QED
      BY <3>2, <1>4 DEF IndexesAgree
  <2> QED
    BY <2>1, <2>2
<1>8. /\ DOMAIN nexthop2' = {x \in DOMAIN upper2' : IsWan(upper2'[x])}
      /\ \A x \in DOMAIN nexthop2' : nexthop2'[x] = upper2'[x]
  <2>1. nexthop2' = Drop(nexthop2, u)
    BY <1>1 DEF Unregister
  <2> QED
    BY <2>1, <1>3 DEF IndexesAgree, Drop, Restrict
<1> QED
  BY <1>5, <1>6, <1>7, <1>8 DEF IndexesAgree, Live

\* No lookup finds an interface that was removed, or one the key does not belong to.
THEOREM LookupsAgree == RegistrySpec => []IndexesAgree
<1>1. RegistryInit => IndexesAgree
  BY DEF RegistryInit, IndexesAgree, NoInterfaces, Live
<1>2. RegistryTypeOK /\ IndexesAgree /\ [RegistryNext]_registry => IndexesAgree'
  <2> SUFFICES ASSUME RegistryTypeOK, IndexesAgree, [RegistryNext]_registry
               PROVE  IndexesAgree'
    OBVIOUS
  <2>1. CASE UNCHANGED registry
    BY <2>1 DEF registry, IndexesAgree, Live
  <2> QED
    BY <2>1, RegisterAgrees, UnregisterAgrees DEF RegistryNext
<1> QED
  BY <1>1, <1>2, RegistryTypeCorrect, PTL DEF RegistrySpec

--------------------------------------------------------------------------------
(* The sorted lists and the map of names hold the same names.              *)

LEMMA RegisterLists ==
    ASSUME RegistryTypeOK, ListedOnce, NEW d \in Declared, Register(d)
    PROVE  ListedOnce'
<1> DEFINE ifc == Built(d)
<1>1. ifc.upper \in Uppers /\ ifc.upper \notin DOMAIN upper2
  BY BuiltIsInterface DEF Interface, Register
<1>2. DOMAIN upper2' = DOMAIN upper2 \cup {ifc.upper} /\ upper2'[ifc.upper] = ifc
      /\ \A u \in DOMAIN upper2 : upper2'[u] = upper2[u]
  BY <1>1 DEF Register, Put
<1>3. lan \in [Uppers -> Nat] /\ wan \in [Uppers -> Nat]
  BY DEF RegistryTypeOK
<1>4. lan[ifc.upper] = 0 /\ wan[ifc.upper] = 0
  BY <1>1 DEF ListedOnce
<1>5. CASE IsWan(ifc)
  <2>1. wan' = [wan EXCEPT ![ifc.upper] = @ + 1] /\ lan' = lan
    BY <1>5 DEF Register, Listed
  <2> QED
    BY <1>1, <1>2, <1>3, <1>4, <1>5, <2>1 DEF ListedOnce, IsWan
<1>6. CASE ~ IsWan(ifc)
  <2>1. lan' = [lan EXCEPT ![ifc.upper] = @ + 1] /\ wan' = wan
    BY <1>6 DEF Register, Listed
  <2> QED
    BY <1>1, <1>2, <1>3, <1>4, <1>6, <2>1 DEF ListedOnce, IsWan
<1> QED
  BY <1>5, <1>6

LEMMA UnregisterLists ==
    ASSUME RegistryTypeOK, IndexesAgree, ListedOnce, NEW u \in Uppers, Unregister(u)
    PROVE  ListedOnce'
<1>1. u \in DOMAIN upper2 /\ upper2[u].upper = u
  BY DEF Unregister, IndexesAgree
<1>2. DOMAIN upper2' = DOMAIN upper2 \ {u}
      /\ \A x \in DOMAIN upper2' : upper2'[x] = upper2[x]
  BY <1>1 DEF Unregister, Drop, Restrict
<1>3. /\ lan' = [lan EXCEPT ![u] = IF @ > 0 THEN @ - 1 ELSE 0]
      /\ wan' = [wan EXCEPT ![u] = IF @ > 0 THEN @ - 1 ELSE 0]
  BY <1>1 DEF Unregister, Unlisted
<1>4. lan \in [Uppers -> Nat] /\ wan \in [Uppers -> Nat]
  BY DEF RegistryTypeOK
<1>5. lan'[u] = 0 /\ wan'[u] = 0
  <2>1. lan[u] \in {0, 1} /\ wan[u] \in {0, 1}
    BY DEF ListedOnce
  <2> QED
    BY <1>3, <1>4, <2>1
<1> QED
  BY <1>2, <1>3, <1>4, <1>5 DEF ListedOnce, IsWan

\* Every registered name is in one list once, and the lists hold nothing else.
THEOREM ListsMatch == RegistrySpec => []ListedOnce
<1>1. RegistryInit => ListedOnce
  BY DEF RegistryInit, ListedOnce, NoInterfaces
<1>2. RegistryTypeOK /\ IndexesAgree /\ ListedOnce /\ [RegistryNext]_registry => ListedOnce'
  <2> SUFFICES ASSUME RegistryTypeOK, IndexesAgree, ListedOnce, [RegistryNext]_registry
               PROVE  ListedOnce'
    OBVIOUS
  <2>1. CASE UNCHANGED registry
    BY <2>1 DEF registry, ListedOnce
  <2> QED
    BY <2>1, RegisterLists, UnregisterLists DEF RegistryNext
<1> QED
  BY <1>1, <1>2, RegistryTypeCorrect, LookupsAgree, PTL DEF RegistrySpec

\* Whatever was added and removed before, maps and lists describe the same interfaces.
THEOREM MapsMatchLists == RegistrySpec => []MapsAndLists
<1>1. IndexesAgree /\ ListedOnce => MapsAndLists
  BY DEF MapsAndLists
<1>2. QED
  BY <1>1, LookupsAgree, ListsMatch, PTL

--------------------------------------------------------------------------------
(* With one port for each name, lookups find every registered interface.   *)

\* Where a registered interface comes from.
LiveDeclared ==
    \A i \in Live : \E d \in Declared :
        i.upper = d.upper /\ i.lower = d.lower /\ i.netflow = IfIndex[d.lower]

\* IndexesComplete without its hypothesis, together with what makes it inductive.
AllFound ==
    \A i \in Live : /\ i.lower \in DOMAIN lower2 /\ lower2[i.lower] = i
                    /\ i.netflow # NoIndex =>
                          i.netflow \in DOMAIN netflow2 /\ netflow2[i.netflow] = i

\* Two registered interfaces that share a port or an index are the same one.
LEMMA SharedKey ==
    ASSUME OnePortPerName, IndexesAgree, LiveDeclared, NEW i \in Live, NEW j \in Live,
           i.lower = j.lower \/ (i.netflow = j.netflow /\ i.netflow # NoIndex)
    PROVE  i = j
<1>1. PICK d \in Declared :
         i.upper = d.upper /\ i.lower = d.lower /\ i.netflow = IfIndex[d.lower]
  BY DEF LiveDeclared
<1>2. PICK e \in Declared :
         j.upper = e.upper /\ j.lower = e.lower /\ j.netflow = IfIndex[e.lower]
  BY DEF LiveDeclared
<1>3. d.lower = e.lower
  BY <1>1, <1>2 DEF OnePortPerName
<1>4. i.upper = j.upper
  BY <1>1, <1>2, <1>3 DEF OnePortPerName
<1> QED
  BY <1>4 DEF Live, IndexesAgree

LEMMA RegisterFinds ==
    ASSUME OnePortPerName, RegistryTypeOK, IndexesAgree, LiveDeclared, AllFound,
           NEW d \in Declared, Register(d)
    PROVE  LiveDeclared' /\ AllFound'
<1> DEFINE ifc == Built(d)
<1>1. /\ ifc.upper = d.upper /\ ifc.lower = d.lower /\ ifc.netflow = IfIndex[d.lower]
      /\ d.upper \notin DOMAIN upper2
  BY DEF Built, Register
<1>2. Live' = Live \cup {ifc}
  BY <1>1 DEF Register, Put, Live
<1>3. LiveDeclared'
  BY <1>1, <1>2 DEF LiveDeclared
<1>4. \A i \in Live : i.upper \in DOMAIN upper2
  BY DEF Live, IndexesAgree
<1>5. \A i \in Live : i.lower # ifc.lower
  BY <1>1, <1>4 DEF LiveDeclared, OnePortPerName
<1>6. \A i \in Live : i.netflow # NoIndex => i.netflow # ifc.netflow
  BY <1>1, <1>5 DEF LiveDeclared, OnePortPerName
<1>7. lower2' = Put(lower2, ifc.lower, ifc) /\ netflow2' = Indexed(ifc)
  BY DEF Register
<1>8. \A i \in Live' : i.lower \in DOMAIN lower2' /\ lower2'[i.lower] = i
  BY <1>2, <1>5, <1>7 DEF AllFound, Put
<1>9. \A i \in Live' : i.netflow # NoIndex =>
         i.netflow \in DOMAIN netflow2' /\ netflow2'[i.netflow] = i
  BY <1>2, <1>6, <1>7 DEF AllFound, Put, Indexed
<1> QED
  BY <1>3, <1>8, <1>9 DEF AllFound, Live

LEMMA UnregisterFinds ==
    ASSUME OnePortPerName, RegistryTypeOK, IndexesAgree, LiveDeclared, AllFound,
           NEW u \in Uppers, Unregister(u)
    PROVE  LiveDeclared' /\ AllFound'
<1> DEFINE ifc == upper2[u]
<1>1. u \in DOMAIN upper2 /\ ifc.upper = u /\ ifc \in Live
  BY DEF Unregister, IndexesAgree, Live
<1>2. Live' = Live \ {ifc}
  <2>1. DOMAIN upper2' = DOMAIN upper2 \ {u}
        /\ \A x \in DOMAIN upper2' : upper2'[x] = upper2[x]
    BY <1>1 DEF Unregister, Drop, Restrict
  <2>2. \A x \in DOMAIN upper2 : upper2[x] = ifc => x = u
    BY <1>1 DEF IndexesAgree
  <2> QED
    BY <2>1, <2>2, <1>1 DEF Live
<1>3. LiveDeclared'
  BY <1>2 DEF LiveDeclared
<1>4. \A i \in Live' : i.lower # ifc.lower
  BY <1>1, <1>2, SharedKey
<1>5. \A i \in Live' : i.netflow # NoIndex => i.netflow # ifc.netflow
  BY <1>1, <1>2, SharedKey
<1>6. lower2' = Drop(lower2, ifc.lower) /\ netflow2' = Unindexed(ifc)
  BY DEF Unregister
<1>7. \A i \in Live' : i.lower \in DOMAIN lower2' /\ lower2'[i.lower] = i
  BY <1>2, <1>4, <1>6 DEF AllFound, Drop, Restrict
<1>8. \A i \in Live' : i.netflow # NoIndex =>
         i.netflow \in DOMAIN netflow2' /\ netflow2'[i.netflow] = i
  BY <1>2, <1>5, <1>6 DEF AllFound, Drop, Restrict, Unindexed
<1> QED
  BY <1>3, <1>7, <1>8 DEF AllFound, Live

\* If each port is declared for one name, no sequence of additions and removals makes
\* a registered interface unreachable by its port or its index.
THEOREM LookupsComplete == RegistrySpec => []IndexesComplete
<1>1. CASE OnePortPerName
  <2>1. RegistryInit => LiveDeclared /\ AllFound
    BY DEF RegistryInit, NoInterfaces, LiveDeclared, AllFound, Live
  <2>2. /\ RegistryTypeOK /\ IndexesAgree /\ LiveDeclared /\ AllFound
        /\ [RegistryNext]_registry
        => (LiveDeclared /\ AllFound)'
    <3> SUFFICES ASSUME RegistryTypeOK, IndexesAgree, LiveDeclared, AllFound,
                        [RegistryNext]_registry
                 PROVE  (LiveDeclared /\ AllFound)'
      OBVIOUS
    <3>1. CASE UNCHANGED registry
      BY <3>1 DEF registry, LiveDeclared, AllFound, Live
    <3> QED
      BY <1>1, <3>1, RegisterFinds, UnregisterFinds DEF RegistryNext
  <2>3. AllFound => IndexesComplete
    BY DEF AllFound, IndexesComplete
  <2> QED
    BY <2>1, <2>2, <2>3, RegistryTypeCorrect, LookupsAgree, PTL DEF RegistrySpec
<1>2. CASE ~ OnePortPerName
  <2>1. IndexesComplete
    BY <1>2 DEF IndexesComplete
  <2> QED
    BY <2>1, PTL
<1> QED
  BY <1>1, <1>2

--------------------------------------------------------------------------------
(* Facts about registered interfaces that InterfaceMonitor_proofs uses.    *)

\* Objects are numbered in the order they are created.
DistinctObjects ==
    /\ \A i \in Live : i.obj \in 0..objects - 1
    /\ \A i, j \in Live : i.obj = j.obj => i = j

LEMMA LiveAfterRegister ==
    ASSUME NEW d \in Declared, Register(d)
    PROVE  Live' = Live \cup {Built(d)}
BY DEF Register, Put, Live, Built

LEMMA LiveAfterUnregister ==
    ASSUME IndexesAgree, NEW u \in Uppers, Unregister(u)
    PROVE  upper2[u] \in Live /\ Live' = Live \ {upper2[u]}
<1>1. u \in DOMAIN upper2 /\ upper2[u].upper = u
  BY DEF Unregister, IndexesAgree
<1>2. DOMAIN upper2' = DOMAIN upper2 \ {u}
      /\ \A x \in DOMAIN upper2' : upper2'[x] = upper2[x]
  BY <1>1 DEF Unregister, Drop, Restrict
<1>3. \A x \in DOMAIN upper2 : upper2[x] = upper2[u] => x = u
  BY <1>1 DEF IndexesAgree
<1> QED
  BY <1>1, <1>2, <1>3 DEF Live

LEMMA LiveStep ==
    ASSUME RegistryTypeOK, IndexesAgree, LiveDeclared, DistinctObjects,
           [RegistryNext]_registry
    PROVE  LiveDeclared' /\ DistinctObjects'
<1>1. ASSUME NEW d \in Declared, Register(d) PROVE LiveDeclared' /\ DistinctObjects'
  <2>1. objects \in Nat /\ objects' = objects + 1 /\ Built(d).obj = objects
    BY <1>1 DEF RegistryTypeOK, Register, Built
  <2>2. Live' = Live \cup {Built(d)}
    BY <1>1, LiveAfterRegister
  <2>3. LiveDeclared'
    BY <2>2 DEF LiveDeclared, Built
  <2>4. \A i \in Live : i.obj # objects
    BY <2>1 DEF DistinctObjects
  <2>5. DistinctObjects'
    BY <2>1, <2>2, <2>4 DEF DistinctObjects
  <2> QED
    BY <2>3, <2>5
<1>2. ASSUME NEW u \in Uppers, Unregister(u) PROVE LiveDeclared' /\ DistinctObjects'
  <2>1. Live' \subseteq Live /\ objects' = objects
    BY <1>2, LiveAfterUnregister DEF Unregister
  <2> QED
    BY <2>1 DEF LiveDeclared, DistinctObjects
<1>3. CASE UNCHANGED registry
  BY <1>3 DEF registry, LiveDeclared, DistinctObjects, Live
<1> QED
  BY <1>1, <1>2, <1>3 DEF RegistryNext

LEMMA LiveFacts == RegistrySpec => [](LiveDeclared /\ DistinctObjects)
<1>1. RegistryInit => LiveDeclared /\ DistinctObjects
  BY DEF RegistryInit, NoInterfaces, LiveDeclared, DistinctObjects, Live
<1>2. /\ RegistryTypeOK /\ IndexesAgree /\ LiveDeclared /\ DistinctObjects
      /\ [RegistryNext]_registry
      => (LiveDeclared /\ DistinctObjects)'
  BY LiveStep
<1> QED
  BY <1>1, <1>2, RegistryTypeCorrect, LookupsAgree, PTL DEF RegistrySpec
================================================================================
