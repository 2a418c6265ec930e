------------------------ MODULE FlowAggregation_proofs ------------------------
(* Theorems about FlowAggregation, for every set of flows, updates, intervals   *)
(* and interfaces, and their proofs.                                            *)
EXTENDS FlowAggregation, InterfaceRegistry_proofs

LEMMA NoneApart == None \notin MapIds /\ None \notin Names
BY FlowAssumption DEF MapIds, Names

LEMMA FirstMessage ==
    ASSUME msgs \in Seq(Message), msgs # <<>>
    PROVE  Head(msgs) \in Message /\ Tail(msgs) \in Seq(Message)
OBVIOUS

LEMMA NameOfType ==
    ASSUME RegistryTypeOK, NEW n
    PROVE  NameOf(n) \in Names
BY DEF NameOf, Names, RegistryTypeOK, IsMap, Interface

LEMMA MergedIsEntry ==
    ASSUME NEW map, DOMAIN map \subseteq Keys, map \in [DOMAIN map -> Entry],
           NEW m \in Message, names \in [inIf : Names, outIf : Names]
    PROVE  Merged(map, m) \in Entry
<1>1. m.bytes \in Nat
  BY DEF Message
<1>2. CASE m.key \in DOMAIN map
  BY <1>1, <1>2 DEF Merged, Entry
<1>3. CASE m.key \notin DOMAIN map
  BY <1>1, <1>3 DEF Merged, Entry
<1> QED
  BY <1>2, <1>3

--------------------------------------------------------------------------------
(* Types.                                                                  *)

LEMMA TypeInitially == Init => TypeOK
<1> SUFFICES ASSUME Init PROVE TypeOK
  OBVIOUS
<1>1. RegistryTypeOK
  BY RegistryTypeInitially DEF Init
<1>2. PublishTypeOK
  BY DEF Init, PublishTypeOK, NoNames
<1>3. VisitTypeOK /\ LedgerTypeOK
  <2>1. 0 \in MapIds
    BY FlowAssumption DEF MapIds
  <2> QED
    BY <2>1 DEF Init, VisitTypeOK, LedgerTypeOK, Nothing
<1>4. \A n \in MapIds : DOMAIN heap[n] = {} /\ heap[n] \in [DOMAIN heap[n] -> Entry]
  BY DEF Init, MapIds, Empty
<1>5. DOMAIN heap = MapIds /\ left \subseteq Keys /\ visiting = None /\ into = None
  BY DEF Init, MapIds
<1> QED
  BY <1>1, <1>2, <1>3, <1>4, <1>5 DEF TypeOK

LEMMA MergeTypes == ASSUME TypeOK, Merge PROVE TypeOK'
<1> DEFINE m == Head(msgs)
<1>1. /\ into \in MapIds /\ msgs \in Seq(Message) /\ msgs # <<>>
      /\ names \in [inIf : Names, outIf : Names]
  BY NoneApart DEF Merge, TypeOK, PublishTypeOK
<1>2. m \in Message /\ Tail(msgs) \in Seq(Message)
  BY <1>1, FirstMessage
<1>3. m.key \in Keys /\ m.bytes \in Nat
  BY <1>2 DEF Message
<1>4. Merged(heap[into], m) \in Entry
  BY <1>1, <1>2, MergedIsEntry DEF TypeOK
<1>5. heap' = [heap EXCEPT ![into] = Put(@, m.key, Merged(@, m))]
  BY DEF Merge
<1>6. \A n \in MapIds : /\ DOMAIN heap'[n] \subseteq Keys
                        /\ heap'[n] \in [DOMAIN heap'[n] -> Entry]
                        /\ DOMAIN heap[n] \subseteq DOMAIN heap'[n]
                        /\ n = into => m.key \in DOMAIN heap'[n]
  BY <1>1, <1>3, <1>4, <1>5 DEF TypeOK, Put
<1>7. PublishTypeOK'
  <2>1. msgs' = Tail(msgs) /\ names' = NoNames /\ into' = None
    BY DEF Merge, Loaded
  <2> QED
    BY <2>1, <1>2 DEF PublishTypeOK, NoNames
<1>8. VisitTypeOK'
  <2>1. VisitTypeOK
    BY DEF TypeOK
  <2> QED
    BY <2>1 DEF Merge, Loaded, VisitTypeOK
<1>9. LedgerTypeOK'
  <2>1. LedgerTypeOK
    BY DEF TypeOK
  <2> QED
    BY <1>3, <2>1 DEF Merge, LedgerTypeOK
<1>10. RegistryTypeOK'
  BY DEF Merge, TypeOK, registry, RegistryTypeOK, IsMap
<1>11. left' \subseteq Keys
       /\ (visiting' # None => visiting' < flows' /\ left' \subseteq DOMAIN heap'[visiting'])
  <2>1. left' = left \/ (into = visiting /\ left' = left \cup {m.key})
    BY DEF Merge
  <2>2. visiting' = visiting /\ flows' = flows /\ (visiting # None => visiting \in MapIds)
    BY DEF Merge, TypeOK, VisitTypeOK
  <2> QED
    BY <2>1, <2>2, <1>3, <1>6 DEF TypeOK
<1> QED
  BY <1>5, <1>6, <1>7, <1>8, <1>9, <1>10, <1>11 DEF TypeOK, Merge, Loaded

LEMMA TypeInductive == ASSUME TypeOK, [Next]_vars PROVE TypeOK'
<1>1. CASE ChangeRegistry
  BY <1>1, RegistryTypeInductive
  DEF ChangeRegistry, TypeOK, PublishTypeOK, VisitTypeOK, LedgerTypeOK
<1>2. ASSUME NEW u \in Updates, Receive(u) PROVE TypeOK'
  <2>1. u \in Seq(Message)
    BY FlowAssumption
  <2> QED
    BY <2>1, <1>2 DEF Receive, visitVars, ledger, registry, TypeOK, RegistryTypeOK, IsMap,
         PublishTypeOK, VisitTypeOK, LedgerTypeOK
<1>3. CASE FindIngress
  BY <1>3, NameOfType, NoneApart DEF FindIngress, visitVars, ledger, registry, TypeOK,
       RegistryTypeOK, IsMap, PublishTypeOK, VisitTypeOK, LedgerTypeOK
<1>4. CASE FindEgress
  BY <1>4, NameOfType, NoneApart DEF FindEgress, visitVars, ledger, registry, TypeOK,
       RegistryTypeOK, IsMap, PublishTypeOK, VisitTypeOK, LedgerTypeOK
<1>5. CASE Load
  <2>1. into' = flows /\ flows \in MapIds /\ flows <= flows
    BY <1>5 DEF Load, TypeOK, VisitTypeOK, MapIds
  <2> QED
    BY <1>5, <2>1 DEF Load, visitVars, ledger, registry, TypeOK,
         RegistryTypeOK, IsMap, PublishTypeOK, VisitTypeOK, LedgerTypeOK
<1>6. CASE Merge
  BY <1>6, MergeTypes
<1>7. ASSUME NEW ms \in Intervals, Swap(ms) PROVE TypeOK'
  <2>1. /\ flows \in MapIds /\ flows' \in MapIds /\ flows' = flows + 1
        /\ visiting' = flows /\ visiting' < flows'
    BY <1>7, FlowAssumption DEF Swap, NewMap, TypeOK, VisitTypeOK, MapIds
  <2>2. into' # None => into' <= flows'
    BY <1>7, <2>1 DEF Swap, publishVars, TypeOK, PublishTypeOK, MapIds
  <2>3. PublishTypeOK' /\ LedgerTypeOK' /\ RegistryTypeOK'
    BY <1>7 DEF Swap, publishVars, ledger, registry, TypeOK, PublishTypeOK, LedgerTypeOK,
         RegistryTypeOK, IsMap
  <2>4. VisitTypeOK'
    BY <1>7, <2>1, FlowAssumption DEF Swap, TypeOK, VisitTypeOK
  <2> QED
    BY <1>7, <2>1, <2>2, <2>3, <2>4 DEF Swap, TypeOK
<1>8. ASSUME NEW k \in Keys, Visit(k) PROVE TypeOK'
  <2>1. visiting \in MapIds /\ k \in DOMAIN heap[visiting]
    BY <1>8 DEF Visit, TypeOK, VisitTypeOK
  <2>2. heap[visiting][k].bytes \in Nat
    BY <2>1 DEF TypeOK, Entry
  <2>3. LedgerTypeOK'
    BY <1>8, <2>2 DEF Visit, TypeOK, LedgerTypeOK
  <2>4. PublishTypeOK' /\ VisitTypeOK' /\ RegistryTypeOK'
    BY <1>8 DEF Visit, publishVars, registry, TypeOK, PublishTypeOK, VisitTypeOK,
         RegistryTypeOK, IsMap
  <2> QED
    BY <1>8, <2>3, <2>4 DEF Visit, publishVars, TypeOK
<1>9. CASE Return
  BY <1>9 DEF Return, publishVars, ledger, registry, TypeOK, RegistryTypeOK, IsMap,
       PublishTypeOK, VisitTypeOK, LedgerTypeOK
<1>10. CASE UNCHANGED vars
  BY <1>10 DEF vars, flowVars, registry, TypeOK, RegistryTypeOK, IsMap,
       PublishTypeOK, VisitTypeOK, LedgerTypeOK
<1> QED
  BY <1>1, <1>2, <1>3, <1>4, <1>5, <1>6, <1>7, <1>8, <1>9, <1>10 DEF Next, PublishNext

\* The maps, Publish, GetFlows and the ledger keep their types.
THEOREM FlowTypeCorrect == Spec => []TypeOK
<1>1. TypeOK /\ [Next]_vars => TypeOK'
  BY TypeInductive
<1> QED
  BY <1>1, TypeInitially, PTL DEF Spec

--------------------------------------------------------------------------------
(* At most one message is late for each call of GetFlows: a message can be late *)
(* only if a map was loaded for it before the last swap.                        *)

\* Messages that are late already, or bound to be.
LateOrStale == late + (IF into # None /\ into # flows THEN 1 ELSE 0) <= flows

LEMMA LateInductive ==
    ASSUME TypeOK, LateOrStale, [Next]_vars
    PROVE  LateOrStale'
<1> USE DEF LateOrStale
<1>1. late \in Nat /\ flows \in Nat
  BY DEF TypeOK, LedgerTypeOK, VisitTypeOK, MapIds
<1>2. ASSUME NEW ms \in Intervals, Swap(ms) PROVE LateOrStale'
  <2>1. flows' = flows + 1 /\ late' = late
    BY <1>2 DEF Swap, NewMap, ledger
  <2> QED
    BY <1>1, <2>1
<1>3. CASE Merge
  <2>1. into' = None /\ flows' = flows /\ into # None
    BY <1>3 DEF Merge, Loaded
  <2>2. late' = IF into # flows THEN late + 1 ELSE late
    BY <1>3 DEF Merge
  <2> QED
    BY <1>1, <2>1, <2>2
<1>4. CASE Load
  BY <1>1, <1>4 DEF Load, visitVars, ledger
<1>5. CASE ChangeRegistry
  BY <1>5 DEF ChangeRegistry
<1>6. ASSUME NEW u \in Updates, Receive(u) PROVE LateOrStale'
  BY <1>6 DEF Receive, visitVars, ledger
<1>7. CASE FindIngress \/ FindEgress
  BY <1>7 DEF FindIngress, FindEgress, visitVars, ledger
<1>8. ASSUME NEW k \in Keys, Visit(k) PROVE LateOrStale'
  BY <1>8 DEF Visit, publishVars
<1>9. CASE Return
  BY <1>9 DEF Return, publishVars, ledger
<1>10. CASE UNCHANGED vars
  BY <1>10 DEF vars, flowVars
<1> QED
  BY <1>2, <1>3, <1>4, <1>5, <1>6, <1>7, <1>8, <1>9, <1>10 DEF Next, PublishNext

\* The race between Publish and GetFlows costs at most one message for each call.
THEOREM LateBounded == Spec => []OneLatePerCall
<1>1. Init => LateOrStale
  BY DEF Init, LateOrStale
<1>2. TypeOK /\ LateOrStale /\ [Next]_vars => LateOrStale'
  BY LateInductive
<1>3. TypeOK /\ LateOrStale => OneLatePerCall
  BY DEF TypeOK, LedgerTypeOK, VisitTypeOK, MapIds, LateOrStale, OneLatePerCall
<1> QED
  BY <1>1, <1>2, <1>3, FlowTypeCorrect, PTL DEF Spec

--------------------------------------------------------------------------------
(* Nothing is counted twice, and nothing is missed but late messages.          *)

\* The maps that no call has put in place yet are empty.
Fresh == \A n \in MapIds : n > flows => DOMAIN heap[n] = {}

LEMMA FreshInductive == ASSUME TypeOK, Fresh, [Next]_vars PROVE Fresh'
<1> USE DEF Fresh
<1>1. CASE Merge
  <2>1. into \in MapIds /\ into <= flows /\ flows' = flows
    BY <1>1 DEF Merge, TypeOK, PublishTypeOK
  <2>2. \A n \in MapIds : n > flows => heap'[n] = heap[n]
    BY <1>1, <2>1 DEF Merge, TypeOK, VisitTypeOK, MapIds
  <2> QED
    BY <2>1, <2>2
<1>2. ASSUME NEW ms \in Intervals, Swap(ms) PROVE Fresh'
  BY <1>2 DEF Swap, NewMap, TypeOK, VisitTypeOK, MapIds
<1>3. CASE ChangeRegistry
  BY <1>3 DEF ChangeRegistry
<1>4. ASSUME NEW u \in Updates, Receive(u) PROVE Fresh'
  BY <1>4 DEF Receive, visitVars
<1>5. CASE FindIngress \/ FindEgress \/ Load
  BY <1>5 DEF FindIngress, FindEgress, Load, visitVars
<1>6. ASSUME NEW k \in Keys, Visit(k) PROVE Fresh'
  BY <1>6 DEF Visit
<1>7. CASE Return
  BY <1>7 DEF Return
<1>8. CASE UNCHANGED vars
  BY <1>8 DEF vars, flowVars
<1> QED
  BY <1>1, <1>2, <1>3, <1>4, <1>5, <1>6, <1>7, <1>8 DEF Next, PublishNext

LEMMA HeldIsNat ==
    ASSUME TypeOK, NEW k \in Keys, NEW n \in MapIds
    PROVE  Held(k, n) \in Nat
BY DEF TypeOK, Entry, Held

LEMMA MergeConserves ==
    ASSUME TypeOK, Conservation, Merge
    PROVE  Conservation'
<1> DEFINE m == Head(msgs)
<1>1. /\ into \in MapIds /\ into <= flows /\ msgs \in Seq(Message) /\ msgs # <<>>
      /\ flows \in MapIds /\ flows' = flows /\ visiting' = visiting
      /\ visiting # None => visiting \in MapIds /\ visiting < flows
  BY NoneApart DEF Merge, TypeOK, PublishTypeOK, VisitTypeOK
<1>2. m.key \in Keys /\ m.bytes \in Nat
  BY <1>1, FirstMessage DEF Message
<1>3. heap' = [heap EXCEPT ![into] = Put(@, m.key, Merged(@, m))]
  BY DEF Merge
<1>4. ASSUME NEW k \in Keys, NEW n \in MapIds, k # m.key \/ n # into
      PROVE  Held(k, n)' = Held(k, n)
  BY <1>1, <1>3, <1>4 DEF Held, Put, TypeOK
<1>5. ASSUME NEW k \in Keys, NEW n \in MapIds, k = m.key, n = into
      PROVE  Held(k, n)' = Held(k, n) + m.bytes
  BY <1>5, <1>1, <1>2, <1>3, HeldIsNat DEF Held, Put, Merged, TypeOK
<1>6. SUFFICES ASSUME NEW k \in Keys
               PROVE  LET accounted == given[k] + below[k] + ToCome(k)
                      IN  accounted' <= published'[k]
                          /\ published'[k] <= accounted' + lateBytes'[k]
  BY DEF Conservation
<1>7. /\ given[k] \in Nat /\ below[k] \in Nat /\ published[k] \in Nat
      /\ lateBytes[k] \in Nat /\ given' = given /\ below' = below
  BY DEF Merge, TypeOK, LedgerTypeOK
<1>8. Held(k, flows) \in Nat /\ (visiting # None => Held(k, visiting) \in Nat)
  BY <1>1, HeldIsNat
<1>9. /\ given[k] + below[k] + ToCome(k) <= published[k]
      /\ published[k] <= given[k] + below[k] + ToCome(k) + lateBytes[k]
  BY DEF Conservation
<1>10. left' = left \/ (into = visiting /\ m.key \notin DOMAIN heap[into]
                         /\ left' = left \cup {m.key})
  BY DEF Merge
<1>11. CASE k # m.key
  <2>1. published'[k] = published[k] /\ lateBytes'[k] = lateBytes[k]
    BY <1>2, <1>11 DEF Merge, TypeOK, LedgerTypeOK
  <2>2. Held(k, flows)' = Held(k, flows)
    BY <1>1, <1>4, <1>11
  <2>3. visiting # None => Held(k, visiting)' = Held(k, visiting)
    BY <1>1, <1>4, <1>11
  <2>4. ToCome(k)' = ToCome(k)
    BY <1>1, <1>10, <1>11, <2>2, <2>3 DEF ToCome
  <2> QED
    BY <1>7, <1>9, <2>1, <2>4
<1>12. CASE k = m.key /\ into = flows
  <2>1. published'[k] = published[k] + m.bytes /\ lateBytes'[k] = lateBytes[k]
    BY <1>2, <1>12 DEF Merge, TypeOK, LedgerTypeOK
  <2>2. Held(k, flows)' = Held(k, flows) + m.bytes
    BY <1>1, <1>5, <1>12
  <2>3. visiting # None => Held(k, visiting)' = Held(k, visiting)
    BY <1>1, <1>4, <1>12 DEF MapIds
  <2>4. into # visiting
    BY <1>1, <1>12, NoneApart DEF MapIds
  <2>5. ToCome(k)' = ToCome(k) + m.bytes
    BY <1>1, <1>2, <1>8, <1>10, <2>2, <2>3, <2>4 DEF ToCome
  <2>6. ToCome(k) \in Nat
    BY <1>8 DEF ToCome
  <2> QED
    BY <1>2, <1>7, <1>9, <2>1, <2>5, <2>6
<1>13. CASE k = m.key /\ into # flows
  <2>1. published'[k] = published[k] + m.bytes /\ lateBytes'[k] = lateBytes[k] + m.bytes
    BY <1>2, <1>13 DEF Merge, TypeOK, LedgerTypeOK
  <2>2. Held(k, flows)' = Held(k, flows)
    BY <1>1, <1>4, <1>13
  <2>3. ToCome(k) \in Nat
    BY <1>8 DEF ToCome
  <2>4. ToCome(k)' = ToCome(k) \/ ToCome(k)' = ToCome(k) + m.bytes
    <3>1. CASE visiting = None
      BY <1>1, <2>2, <3>1 DEF ToCome
    <3>2. CASE visiting # None /\ into # visiting
      <4>1. Held(k, visiting)' = Held(k, visiting)
        BY <1>1, <1>4, <3>2
      <4> QED
        BY <1>1, <1>10, <2>2, <3>2, <4>1 DEF ToCome
    <3>3. CASE visiting # None /\ into = visiting
      <4>1. Held(k, visiting)' = Held(k, visiting) + m.bytes
        BY <1>1, <1>5, <1>13, <3>3
      <4>2. CASE k \in left
        BY <1>1, <1>2, <1>8, <1>10, <2>2, <3>3, <4>1, <4>2 DEF ToCome
      <4>3. CASE k \notin left /\ k \notin left'
        BY <1>1, <2>2, <3>3, <4>3 DEF ToCome
      <4>4. CASE k \notin left /\ k \in left'
        <5>1. Held(k, visiting) = 0
          BY <1>10, <1>13, <3>3, <4>4 DEF Held
        <5> QED
          BY <1>1, <1>2, <1>8, <2>2, <3>3, <4>1, <4>4, <5>1 DEF ToCome
      <4> QED
        BY <4>2, <4>3, <4>4
    <3> QED
      BY <3>1, <3>2, <3>3
  <2> QED
    BY <1>2, <1>7, <1>9, <2>1, <2>3, <2>4
<1> QED
  BY <1>11, <1>12, <1>13

LEMMA SwapConserves ==
    ASSUME TypeOK, Fresh, Conservation, NEW ms \in Intervals, Swap(ms)
    PROVE  Conservation'
<1>1. /\ flows \in MapIds /\ flows + 1 \in MapIds /\ flows' = flows + 1
      /\ visiting = None /\ visiting' = flows
      /\ left' = DOMAIN heap[flows] /\ heap' = heap
  BY FlowAssumption DEF Swap, NewMap, TypeOK, VisitTypeOK, MapIds
<1>2. /\ given' = given /\ below' = below /\ published' = published
      /\ lateBytes' = lateBytes
  BY DEF Swap, ledger
<1>3. ASSUME NEW k \in Keys PROVE ToCome(k)' = ToCome(k)
  <2>1. Held(k, flows + 1) = 0
    BY <1>1 DEF Fresh, Held, MapIds
  <2>2. Held(k, flows) \in Nat
    BY <1>1, HeldIsNat
  <2>3. ToCome(k) = Held(k, flows)
    BY <1>1, <2>2 DEF ToCome
  <2>4. Held(k, flows)' = Held(k, flows + 1) /\ Held(k, visiting)' = Held(k, flows)
    BY <1>1 DEF Held
  <2>5. k \notin left' => Held(k, flows) = 0
    BY <1>1 DEF Held
  <2>6. visiting' # None
    BY <1>1, NoneApart
  <2> QED
    BY <2>1, <2>2, <2>3, <2>4, <2>5, <2>6 DEF ToCome
<1> QED
  BY <1>2, <1>3 DEF Conservation

LEMMA VisitConserves ==
    ASSUME TypeOK, Conservation, NEW j \in Keys, Visit(j)
    PROVE  Conservation'
<1> DEFINE b == heap[visiting][j].bytes
<1>1. /\ visiting \in MapIds /\ visiting # None /\ flows \in MapIds
      /\ j \in left /\ j \in DOMAIN heap[visiting]
  BY DEF Visit, TypeOK, VisitTypeOK
<1>2. b \in Nat /\ Held(j, visiting) = b
  BY <1>1 DEF TypeOK, Entry, Held
<1>3. /\ heap' = heap /\ flows' = flows /\ visiting' = visiting
      /\ left' = left \ {j} /\ published' = published /\ lateBytes' = lateBytes
  BY DEF Visit
<1>4. \A k \in Keys : Held(k, flows)' = Held(k, flows) /\ Held(k, visiting)' = Held(k, visiting)
  BY <1>3 DEF Held
<1>5. \/ given' = [given EXCEPT ![j] = @ + b] /\ below' = below
      \/ below' = [below EXCEPT ![j] = @ + b] /\ given' = given
  BY DEF Visit
<1>6. SUFFICES ASSUME NEW k \in Keys
               PROVE  given'[k] + below'[k] + ToCome(k)' = given[k] + below[k] + ToCome(k)
  BY <1>3 DEF Conservation
<1>7. /\ given[k] \in Nat /\ below[k] \in Nat
      /\ given \in [Keys -> Nat] /\ below \in [Keys -> Nat]
  BY DEF TypeOK, LedgerTypeOK
<1>8. Held(k, flows) \in Nat /\ Held(k, visiting) \in Nat
  BY <1>1, HeldIsNat
<1>9. CASE k = j
  <2>1. ToCome(k) = Held(k, flows) + b /\ ToCome(k)' = Held(k, flows)
    BY <1>1, <1>2, <1>3, <1>4, <1>8, <1>9 DEF ToCome
  <2>2. given'[k] + below'[k] = given[k] + below[k] + b
    BY <1>2, <1>5, <1>7, <1>9
  <2>3. given'[k] \in Nat /\ below'[k] \in Nat
    BY <1>2, <1>5, <1>7, <1>9
  <2> QED
    BY <1>2, <1>7, <1>8, <2>1, <2>2, <2>3
<1>10. CASE k # j
  <2>1. ToCome(k)' = ToCome(k)
    BY <1>3, <1>4, <1>10 DEF ToCome
  <2>2. given'[k] = given[k] /\ below'[k] = below[k]
    BY <1>5, <1>7, <1>10
  <2> QED
    BY <2>1, <2>2
<1> QED
  BY <1>9, <1>10

LEMMA ReturnConserves ==
    ASSUME TypeOK, Conservation, Return
    PROVE  Conservation'
<1>1. /\ heap' = heap /\ flows' = flows /\ left = {} /\ visiting' = None
      /\ given' = given /\ below' = below /\ published' = published
      /\ lateBytes' = lateBytes
  BY DEF Return, ledger
<1>2. \A k \in Keys : ToCome(k)' = ToCome(k)
  BY <1>1 DEF ToCome, Held
<1> QED
  BY <1>1, <1>2 DEF Conservation

\* What Conservation is about.
account == <<flows, heap, visiting, left, ledger>>

LEMMA ConservationInductive ==
    ASSUME TypeOK, Fresh, Conservation, [Next]_vars
    PROVE  Conservation'
<1>1. CASE UNCHANGED account
  BY <1>1 DEF account, ledger, Conservation, ToCome, Held
<1>2. ChangeRegistry => UNCHANGED account
  BY DEF ChangeRegistry, account, ledger
<1>3. ASSUME NEW u \in Updates, Receive(u) PROVE UNCHANGED account
  BY <1>3 DEF Receive, visitVars, account
<1>4. FindIngress \/ FindEgress \/ Load => UNCHANGED account
  BY DEF FindIngress, FindEgress, Load, visitVars, account
<1>5. UNCHANGED vars => UNCHANGED account
  BY DEF vars, flowVars, account, ledger
<1> QED
  BY <1>1, <1>2, <1>3, <1>4, <1>5, MergeConserves, SwapConserves, VisitConserves,
     ReturnConserves DEF Next, PublishNext

\* Whatever the interleaving of Publish and GetFlows, every byte is visited or held back
\* at most once, and exactly once unless its message was added to a map taken away.
THEOREM BytesConserved == Spec => []Conservation
<1>1. Init => Fresh
  BY DEF Init, Fresh, MapIds, Empty
<1>2. Init => Conservation
  <2>1. ASSUME Init, NEW k \in Keys PROVE ToCome(k) = 0
    <3>1. flows = 0 /\ visiting = None /\ DOMAIN heap[0] = {}
      BY <2>1, FlowAssumption DEF Init, Empty
    <3> QED
      BY <3>1 DEF ToCome, Held
  <2>2. ASSUME Init, NEW k \in Keys
        PROVE  given[k] = 0 /\ below[k] = 0 /\ published[k] = 0 /\ lateBytes[k] = 0
    BY <2>2 DEF Init, Nothing
  <2> QED
    BY <2>1, <2>2 DEF Conservation
<1>3. TypeOK /\ Fresh /\ [Next]_vars => Fresh'
  BY FreshInductive
<1>4. TypeOK /\ Fresh /\ Conservation /\ [Next]_vars => Conservation'
  BY ConservationInductive
<1> QED
  BY <1>1, <1>2, <1>3, <1>4, FlowTypeCorrect, PTL DEF Spec

--------------------------------------------------------------------------------
(* The names of a flow's interfaces.                                       *)

\* The messages that the collector may publish.
Published == UNION {{u[i] : i \in DOMAIN u} : u \in Updates}

\* A name that was found for index n.
NameFound(name, n) == name = NA \/ <<n, name>> \in known

\* What an index means now is recorded, what is left of an update was published, and the
\* names found so far are those of the indexes of the first message.
LookupsRecorded ==
    /\ \A n \in DOMAIN netflow2 : <<n, netflow2[n].upper>> \in known
    /\ \A i \in DOMAIN msgs : msgs[i] \in Published
    /\ names.inIf # None => NameFound(names.inIf, Head(msgs).inIf)
    /\ names.outIf # None => NameFound(names.outIf, Head(msgs).outIf)

\* The record of names only grows, and keeps up with the registry.
LEMMA KnownGrows ==
    ASSUME [Next]_vars
    PROVE  known \subseteq known'
<1>1. ChangeRegistry => known \subseteq known'
  BY DEF ChangeRegistry
<1>2. PublishNext => known' = known
  BY DEF PublishNext, FindIngress, FindEgress, Load, Merge
<1>3. ASSUME NEW u \in Updates, Receive(u) PROVE known' = known
  BY <1>3 DEF Receive
<1>4. ASSUME NEW ms \in Intervals, Swap(ms) PROVE known' = known
  BY <1>4 DEF Swap
<1>5. ASSUME NEW k \in Keys, Visit(k) PROVE known' = known
  BY <1>5 DEF Visit
<1>6. Return => known' = known
  BY DEF Return
<1>7. UNCHANGED vars => known' = known
  BY DEF vars, flowVars
<1> QED
  BY <1>1, <1>2, <1>3, <1>4, <1>5, <1>6, <1>7 DEF Next

LEMMA NameOfFound ==
    ASSUME LookupsRecorded, NEW n
    PROVE  NameFound(NameOf(n), n)
BY DEF LookupsRecorded, NameFound, NameOf

LEMMA LookupsInductive ==
    ASSUME TypeOK, LookupsRecorded, [Next]_vars
    PROVE  LookupsRecorded'
<1> USE DEF LookupsRecorded
<1>1. CASE ChangeRegistry
  BY <1>1 DEF ChangeRegistry, NameFound
<1>2. ASSUME NEW u \in Updates, Receive(u) PROVE LookupsRecorded'
  <2>1. /\ names' = names /\ known' = known /\ netflow2' = netflow2
        /\ names.inIf = None /\ names.outIf = None
    BY <1>2 DEF Receive, registry, TypeOK, PublishTypeOK
  <2>2. msgs' = u /\ \A i \in DOMAIN u : u[i] \in Published
    BY <1>2 DEF Receive, Published
  <2> QED
    BY <2>1, <2>2
<1>3. CASE FindIngress
  <2>1. /\ names' = [names EXCEPT !.inIf = NameOf(Head(msgs).inIf)] /\ names.outIf = None
        /\ msgs' = msgs /\ known' = known /\ netflow2' = netflow2
    BY <1>3 DEF FindIngress, registry, TypeOK, PublishTypeOK
  <2>2. names'.inIf = NameOf(Head(msgs).inIf) /\ names'.outIf = None
    BY <2>1 DEF TypeOK, PublishTypeOK
  <2> QED
    BY <2>1, <2>2, NameOfFound DEF NameFound
<1>4. CASE FindEgress
  <2>1. /\ names' = [names EXCEPT !.outIf = NameOf(Head(msgs).outIf)]
        /\ msgs' = msgs /\ known' = known /\ netflow2' = netflow2
    BY <1>4 DEF FindEgress, registry
  <2>2. names'.outIf = NameOf(Head(msgs).outIf) /\ names'.inIf = names.inIf
    BY <2>1 DEF TypeOK, PublishTypeOK
  <2> QED
    BY <2>1, <2>2, NameOfFound DEF NameFound
<1>5. CASE Merge
  <2>1. /\ msgs' = Tail(msgs) /\ names' = NoNames /\ known' = known /\ netflow2' = netflow2
        /\ msgs \in Seq(Message) /\ msgs # <<>>
    BY <1>5 DEF Merge, registry, TypeOK, PublishTypeOK
  <2>2. \A i \in DOMAIN Tail(msgs) : Tail(msgs)[i] = msgs[i + 1] /\ i + 1 \in DOMAIN msgs
    BY <2>1
  <2> QED
    BY <2>1, <2>2 DEF NoNames
<1>6. CASE UNCHANGED <<netflow2, msgs, names, known>>
  BY <1>6 DEF NameFound
<1>7. Load \/ Return => UNCHANGED <<netflow2, msgs, names, known>>
  BY DEF Load, Return, registry, publishVars
<1>8. ASSUME NEW ms \in Intervals, Swap(ms) PROVE UNCHANGED <<netflow2, msgs, names, known>>
  BY <1>8 DEF Swap, registry, publishVars
<1>9. ASSUME NEW k \in Keys, Visit(k) PROVE UNCHANGED <<netflow2, msgs, names, known>>
  BY <1>9 DEF Visit, registry, publishVars
<1>10. UNCHANGED vars => UNCHANGED <<netflow2, msgs, names, known>>
  BY DEF vars, flowVars, registry
<1> QED
  BY <1>1, <1>2, <1>3, <1>4, <1>5, <1>6, <1>7, <1>8, <1>9, <1>10 DEF Next, PublishNext

\* The names that entry e of flow k carries are those of its messages' indexes.
Named(k, e) ==
    /\ e.inIf = NA \/ \E m \in Published : m.key = k /\ <<m.inIf, e.inIf>> \in known
    /\ e.outIf = NA \/ \E m \in Published : m.key = k /\ <<m.outIf, e.outIf>> \in known

LEMMA NamesOfEntries ==
    NamesOfIndexes <=> \A n \in MapIds : \A k \in DOMAIN heap[n] : Named(k, heap[n][k])
BY DEF NamesOfIndexes, Named, Published

LEMMA MergeNames ==
    ASSUME TypeOK, LookupsRecorded, NamesOfIndexes, Merge
    PROVE  NamesOfIndexes'
<1> DEFINE m == Head(msgs)
<1>1. /\ into \in MapIds /\ msgs \in Seq(Message) /\ msgs # <<>>
      /\ names.inIf # None /\ names.outIf # None
  BY NoneApart DEF Merge, TypeOK, PublishTypeOK
<1>2. m = msgs[1] /\ 1 \in DOMAIN msgs
  BY <1>1
<1>3. m \in Published /\ NameFound(names.inIf, m.inIf) /\ NameFound(names.outIf, m.outIf)
  BY <1>1, <1>2 DEF LookupsRecorded
<1>4. heap' = [heap EXCEPT ![into] = Put(@, m.key, Merged(@, m))] /\ known' = known
  BY DEF Merge
<1>5. ASSUME NEW n \in MapIds, NEW k \in DOMAIN heap'[n]
      PROVE  Named(k, heap'[n][k])
  <2>1. CASE n = into /\ k = m.key
    <3>1. heap'[n][k] = Merged(heap[into], m)
      BY <1>1, <1>4, <2>1 DEF TypeOK, Put
    <3>2. heap'[n][k].inIf = names.inIf /\ heap'[n][k].outIf = names.outIf
      BY <3>1 DEF Merged
    <3> QED
      BY <1>3, <2>1, <3>2 DEF NameFound, Named
  <2>2. CASE n # into \/ k # m.key
    <3>1. k \in DOMAIN heap[n] /\ heap'[n][k] = heap[n][k]
      BY <1>1, <1>4, <1>5, <2>2 DEF TypeOK, Put
    <3> QED
      BY <3>1, NamesOfEntries
  <2> QED
    BY <2>1, <2>2
<1>6. \A n \in MapIds : \A k \in DOMAIN heap'[n] : Named(k, heap[n][k])'
  <2>1. known' = known
    BY <1>4
  <2>2. ASSUME NEW n \in MapIds, NEW k \in DOMAIN heap'[n] PROVE Named(k, heap[n][k])'
    BY <1>5, <2>1 DEF Named
  <2> QED
    BY <2>2
<1>7. NamesOfIndexes' <=> (\A n \in MapIds : \A k \in DOMAIN heap[n] : Named(k, heap[n][k]))'
  BY NamesOfEntries, PTL
<1> QED
  BY <1>6, <1>7

LEMMA NamesInductive ==
    ASSUME TypeOK, LookupsRecorded, NamesOfIndexes, [Next]_vars
    PROVE  NamesOfIndexes'
<1>1. CASE heap' = heap
  <2>1. known \subseteq known'
    BY KnownGrows
  <2> QED
    BY <1>1, <2>1 DEF NamesOfIndexes
<1>2. ChangeRegistry \/ FindIngress \/ FindEgress \/ Load \/ Return => heap' = heap
  BY DEF ChangeRegistry, FindIngress, FindEgress, Load, Return
<1>3. ASSUME NEW u \in Updates, Receive(u) PROVE heap' = heap
  BY <1>3 DEF Receive
<1>4. ASSUME NEW ms \in Intervals, Swap(ms) PROVE heap' = heap
  BY <1>4 DEF Swap
<1>5. ASSUME NEW k \in Keys, Visit(k) PROVE heap' = heap
  BY <1>5 DEF Visit
<1>6. UNCHANGED vars => heap' = heap
  BY DEF vars, flowVars
<1> QED
  BY <1>1, <1>2, <1>3, <1>4, <1>5, <1>6, MergeNames DEF Next, PublishNext

\* Whatever the registry does between the two lookups of a message, and between them and
\* the merge, a flow carries only names that an index of one of its messages has had.
THEOREM NamesCorrect == Spec => []NamesOfIndexes
<1>1. Init => LookupsRecorded
  BY DEF Init, RegistryInit, NoInterfaces, LookupsRecorded, NoNames
<1>2. Init => NamesOfIndexes
  BY DEF Init, Empty, MapIds, NamesOfIndexes
<1>3. TypeOK /\ LookupsRecorded /\ [Next]_vars => LookupsRecorded'
  BY LookupsInductive
<1>4. TypeOK /\ LookupsRecorded /\ NamesOfIndexes /\ [Next]_vars => NamesOfIndexes'
  BY NamesInductive
<1> QED
  BY <1>1, <1>2, <1>3, <1>4, FlowTypeCorrect, PTL DEF Spec

--------------------------------------------------------------------------------
(* The threshold.                                                          *)

LEMMA DivisionBelow ==
    ASSUME NEW a \in Nat, NEW d \in Nat \ {0}, NEW t \in Nat, a \div d < t
    PROVE  a < t * d
OBVIOUS

LEMMA SmallRemainder ==
    ASSUME NEW a \in Nat, NEW d \in Nat \ {0}, a < d
    PROVE  a % d = a
OBVIOUS

\* What ToTelemetry computes, when the multiplication does not overflow: bytes for each
\* second, and less than one byte for each interval too many.
LEMMA RateWithoutOverflow ==
    ASSUME NEW b \in Nat, NEW ms \in Nat, (b + 1) * 1000 <= Modulus
    PROVE  Rate(b, ms) = (b * 1000 + 999) \div (IF ms < 1 THEN 1 ELSE ms)
<1>1. (b + 1) * 1000 - 1 = b * 1000 + 999
  OBVIOUS
<1>2. b * 1000 + 999 \in 0..Modulus - 1
  BY FlowAssumption
<1>3. (b * 1000 + 999) % Modulus = b * 1000 + 999
  BY <1>2, SmallRemainder, FlowAssumption
<1> QED
  BY <1>1, <1>3 DEF Rate

\* GetFlows holds no flow back that reached the threshold over the interval.
THEOREM FastFlowsVisited == Spec => OnlySlowHeldBack
<1>1. ASSUME TypeOK, [Next]_vars, NEW k \in Keys,
             below'[k] - below[k] > 0,
             (below'[k] - below[k] + 1) * 1000 <= Modulus
      PROVE  (below'[k] - below[k]) * 1000
                < FlowThreshold * (IF millis < 1 THEN 1 ELSE millis)
  <2> DEFINE b == below'[k] - below[k]
             ms == IF millis < 1 THEN 1 ELSE millis
  <2>1. below' # below /\ below[k] \in Nat /\ millis \in Nat
    BY <1>1 DEF TypeOK, LedgerTypeOK, VisitTypeOK
  <2>2. PICK j \in Keys : Visit(j)
    BY <1>1, <2>1 DEF Next, PublishNext, ChangeRegistry, Receive, FindIngress, FindEgress,
       Load, Merge, Swap, Return, ledger, vars, flowVars
  <2>3. /\ visiting \in MapIds /\ j \in DOMAIN heap[visiting]
        /\ heap[visiting][j].bytes \in Nat
    BY <1>1, <2>2 DEF Visit, TypeOK, VisitTypeOK, Entry
  <2>4. /\ ~ Visible(heap[visiting][j].bytes, millis)
        /\ below' = [below EXCEPT ![j] = @ + heap[visiting][j].bytes]
    BY <2>1, <2>2 DEF Visit
  <2>5. k = j /\ b = heap[visiting][j].bytes
    BY <1>1, <2>3, <2>4 DEF TypeOK, LedgerTypeOK
  <2>6. Rate(b, millis) < FlowThreshold
    <3>1. Rate(b, millis) = (b * 1000 + 999) \div ms
      BY <1>1, <2>1, <2>3, <2>5, RateWithoutOverflow
    <3>2. ms \in Nat \ {0} /\ b * 1000 + 999 \in Nat
      BY <2>1, <2>3, <2>5
    <3>3. Rate(b, millis) \in Int
      BY <3>1, <3>2
    <3> QED
      BY <2>4, <2>5, <3>3, FlowAssumption DEF Visible
  <2>7. b * 1000 + 999 < FlowThreshold * ms
    <3>1. Rate(b, millis) = (b * 1000 + 999) \div ms
      BY <1>1, <2>1, <2>3, <2>5, RateWithoutOverflow
    <3>2. ms \in Nat \ {0} /\ b * 1000 + 999 \in Nat
      BY <2>1, <2>3, <2>5
    <3> QED
      BY <2>6, <3>1, <3>2, DivisionBelow, FlowAssumption
  <2> QED
    BY <2>1, <2>3, <2>5, <2>7, FlowAssumption
<1>2. TypeOK /\ [Next]_vars =>
        [\A k \in Keys :
           LET b == below'[k] - below[k]
           IN  b > 0 /\ (b + 1) * 1000 <= Modulus =>
                  b * 1000 < FlowThreshold * (IF millis < 1 THEN 1 ELSE millis)]_vars
  BY <1>1
<1> QED
  BY <1>2, FlowTypeCorrect, PTL DEF Spec, OnlySlowHeldBack
================================================================================
