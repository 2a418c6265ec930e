---------------------------- MODULE FlowAggregation ----------------------------
(***************************************************************************)
(* The flow aggregation of pkg/hal/hal.go (36-67, 739-821): the NetFlow    *)
(* goroutine (one worker) adds messages to the map hal.flows.aggregate in  *)
(* Publish, and the application takes the map away in GetFlows.  Nothing   *)
(* protects hal.flows: Publish may add to a map that GetFlows has just     *)
(* taken, or is ranging over.  The Go runtime ends the process when it     *)
(* sees a map written while it is ranged over, and need not see it.        *)
(*                                                                         *)
(* Publish looks the two interfaces of a message up in the registry, which *)
(* other goroutines change meanwhile.                                      *)
(*                                                                         *)
(* A map is a number: 0 for the first, n for the one that the n-th call of *)
(* GetFlows put in place.  Packets are added up exactly as bytes are and   *)
(* are left out.                                                           *)
(***************************************************************************)
EXTENDS InterfaceRegistry, Integers, Sequences

CONSTANTS
    Keys,           \* flow keys
    Updates,        \* what the collector may publish at once: sequences of messages
    NA,             \* "N/A", the name of an unknown interface
    Intervals,      \* milliseconds since the call of GetFlows before
    FlowThreshold,  \* hal.config.FlowThreshold
    Modulus,        \* 2^64
    MaxBytes,       \* bound: nothing is received once a flow has this many bytes
    MaxCalls,       \* bound: calls of GetFlows
    None            \* no map loaded, no key

Message == [key : Keys, inIf : Nat \cup Indexes, outIf : Nat \cup Indexes, bytes : Nat]

ASSUME FlowAssumption ==
    /\ Updates \subseteq Seq(Message)
    /\ Intervals \subseteq Nat
    /\ FlowThreshold \in Nat /\ MaxBytes \in Nat /\ MaxCalls \in Nat
    /\ Modulus \in Nat \ {0}
    /\ None \notin Nat \cup Uppers \cup {NA}

VARIABLES
    flows,      \* hal.flows.aggregate: the map that is in place
    heap,       \* the content of every map
    msgs,       \* what is left of the update that Publish works on
    names,      \* the ingress and egress names it has found for the first message
    into,       \* the map it has loaded, or None
    visiting,   \* the map GetFlows is ranging over, or None
    left,       \* the keys it has not come to
    millis,     \* the interval it computed
    crashed,    \* has the runtime ended the process?
    published, given, below, \* bytes of each flow: added, visited, held back
    late,       \* how many messages were added to a map no longer in place
    lateBytes,  \* and their bytes, by flow
    known       \* which name each index has had

flowVars == <<flows, heap, msgs, names, into, visiting, left, millis, crashed,
              published, given, below, late, lateBytes, known>>
vars == <<registry, flowVars>>

NoNames == [inIf |-> None, outIf |-> None]
Nothing == [k \in Keys |-> 0]
Empty   == [k \in {} |-> 0]

Init ==
    /\ RegistryInit
    /\ flows = 0 /\ heap = [n \in 0..MaxCalls |-> Empty]
    /\ msgs = <<>> /\ names = NoNames /\ into = None
    /\ visiting = None /\ left = {} /\ millis = 0
    /\ crashed = FALSE
    /\ published = Nothing /\ given = Nothing /\ below = Nothing
    /\ late = 0 /\ lateBytes = Nothing
    /\ known = {}

--------------------------------------------------------------------------------
(* The registry changes; what an index means is recorded.                  *)

ChangeRegistry ==
    /\ ~ crashed
    /\ RegistryNext
    /\ known' = known \cup {<<n, netflow2'[n].upper>> : n \in DOMAIN netflow2'}
    /\ UNCHANGED <<flows, heap, msgs, names, into, visiting, left, millis, crashed,
                   published, given, below, late, lateBytes>>

--------------------------------------------------------------------------------
(* Publish.                                                                *)

publishVars == <<msgs, names, into>>
visitVars   == <<flows, visiting, left, millis>>
ledger      == <<published, given, below, late, lateBytes>>

Receive(u) ==
    /\ ~ crashed /\ msgs = <<>> /\ \A k \in Keys : published[k] < MaxBytes
    /\ msgs' = u
    /\ UNCHANGED <<registry, heap, names, into, visitVars, crashed, ledger, known>>

\* findInterfaceByNetFlowId, under the registry's read lock.
NameOf(n) == IF n \in DOMAIN netflow2 THEN netflow2[n].upper ELSE NA

\* Mutant of FindIngress: the egress index is looked up.
FindEgressTwice ==
    /\ ~ crashed /\ msgs # <<>> /\ names.inIf = None
    /\ names' = [names EXCEPT !.inIf = NameOf(Head(msgs).outIf)]
    /\ UNCHANGED <<registry, heap, msgs, into, visitVars, crashed, ledger, known>>

FindIngress ==
    /\ ~ crashed /\ msgs # <<>> /\ names.inIf = None
    /\ names' = [names EXCEPT !.inIf = NameOf(Head(msgs).inIf)]
    /\ UNCHANGED <<registry, heap, msgs, into, visitVars, crashed, ledger, known>>

FindEgress ==
    /\ ~ crashed /\ msgs # <<>> /\ names.inIf # None /\ names.outIf = None
    /\ names' = [names EXCEPT !.outIf = NameOf(Head(msgs).outIf)]
    /\ UNCHANGED <<registry, heap, msgs, into, visitVars, crashed, ledger, known>>

\* aggregate := hal.flows.aggregate, once for each message.
Load ==
    /\ ~ crashed /\ names.outIf # None /\ into = None
    /\ into' = flows
    /\ UNCHANGED <<registry, heap, msgs, names, visitVars, crashed, ledger, known>>

\* The entry of a message's flow, with the message added.
Merged(map, m) ==
    [bytes |-> m.bytes + IF m.key \in DOMAIN map THEN map[m.key].bytes ELSE 0,
     inIf |-> names.inIf, outIf |-> names.outIf]

\* Mutant of Loaded: the map is loaded once for the update, before the first message.
LoadedOnce == IF Len(msgs) > 1 THEN into ELSE None

\* Publish forgets the map before it goes to the next message.
Loaded == None

\* The message is added to the map that was loaded, whatever has become of it.
Merge ==
    /\ ~ crashed /\ into # None
    /\ LET m == Head(msgs)
           isNew == m.key \notin DOMAIN heap[into]
           isLate == into # flows
       IN  /\ heap' = [heap EXCEPT ![into] = Put(@, m.key, Merged(@, m))]
           /\ published' = [published EXCEPT ![m.key] = @ + m.bytes]
           /\ late' = IF isLate THEN late + 1 ELSE late
           /\ lateBytes' = IF isLate THEN [lateBytes EXCEPT ![m.key] = @ + m.bytes]
                                     ELSE lateBytes
           /\ \/ UNCHANGED <<left, crashed>>
              \/ \* GetFlows comes to the new entry.
                 /\ isNew /\ into = visiting
                 /\ left' = left \cup {m.key} /\ UNCHANGED crashed
              \/ \* The runtime notices.
                 /\ isNew /\ into = visiting
                 /\ crashed' = TRUE /\ UNCHANGED left
    /\ msgs' = Tail(msgs) /\ names' = NoNames /\ into' = Loaded
    /\ UNCHANGED <<registry, flows, visiting, millis, given, below, known>>

--------------------------------------------------------------------------------
(* GetFlows.                                                               *)

\* Mutant of NewMap: the map stays in place while it is visited.
NewMapNot == flows

\* The number of the empty map that takes the place of the one visited.
NewMap == flows + 1

\* The maps are swapped and the interval is computed.
Swap(ms) ==
    /\ ~ crashed /\ visiting = None /\ flows < MaxCalls
    /\ visiting' = flows
    /\ flows' = NewMap
    /\ left' = DOMAIN heap[flows]
    /\ millis' = ms
    /\ UNCHANGED <<registry, heap, publishVars, crashed, ledger, known>>

\* Bytes in a second, as ToTelemetry computes them in 64 bits.
Rate(bytes, ms) ==
    LET perSecond == (((bytes + 1) * 1000) - 1) % Modulus
    IN  perSecond \div (IF ms < 1 THEN 1 ELSE ms)

\* Mutant of Visible: a flow just at the threshold is held back.
VisibleAbove(bytes, ms) == Rate(bytes, ms) > FlowThreshold

\* Both rates are compared with the threshold; that of transmission is 0.
Visible(bytes, ms) == Rate(bytes, ms) >= FlowThreshold \/ FlowThreshold = 0

\* The range statement comes to a flow, and the application's function is called for it
\* if the flow is fast enough.  What the function returns is ignored.
Visit(k) ==
    /\ ~ crashed /\ visiting # None /\ k \in left
    /\ left' = left \ {k}
    /\ LET b == heap[visiting][k].bytes
       IN  IF Visible(b, millis)
           THEN given' = [given EXCEPT ![k] = @ + b] /\ UNCHANGED below
           ELSE below' = [below EXCEPT ![k] = @ + b] /\ UNCHANGED given
    /\ UNCHANGED <<registry, flows, heap, publishVars, visiting, millis, crashed,
                   published, late, lateBytes, known>>

Return ==
    /\ ~ crashed /\ visiting # None /\ left = {}
    /\ visiting' = None
    /\ UNCHANGED <<registry, flows, heap, publishVars, left, millis, crashed, ledger,
                   known>>

--------------------------------------------------------------------------------
(* Specification                                                           *)

PublishNext == FindIngress \/ FindEgress \/ Load \/ Merge

Next ==
    \/ ChangeRegistry
    \/ \E u \in Updates : Receive(u)
    \/ PublishNext
    \/ \E ms \in Intervals : Swap(ms)
    \/ \E k \in Keys : Visit(k)
    \/ Return

Spec == Init /\ [][Next]_vars

--------------------------------------------------------------------------------
(* Properties                                                              *)

Names == Uppers \cup {NA}
Entry == [bytes : Nat, inIf : Names, outIf : Names]
MapIds == 0..MaxCalls

PublishTypeOK ==
    /\ msgs \in Seq(Message)
    /\ names \in [inIf : Names \cup {None}, outIf : Names \cup {None}]
    /\ into \in MapIds \cup {None}
    /\ into # None => msgs # <<>> /\ names.inIf # None /\ names.outIf # None
    /\ names.inIf # None => msgs # <<>>
    /\ names.outIf # None => names.inIf # None

VisitTypeOK ==
    /\ flows \in MapIds
    /\ visiting \in MapIds \cup {None}
    /\ millis \in Nat /\ crashed \in BOOLEAN

LedgerTypeOK ==
    /\ published \in [Keys -> Nat] /\ given \in [Keys -> Nat] /\ below \in [Keys -> Nat]
    /\ late \in Nat /\ lateBytes \in [Keys -> Nat]

\* Type invariant.
TypeOK ==
    /\ RegistryTypeOK /\ PublishTypeOK /\ VisitTypeOK /\ LedgerTypeOK
    /\ DOMAIN heap = MapIds
    /\ \A n \in MapIds : DOMAIN heap[n] \subseteq Keys /\ heap[n] \in [DOMAIN heap[n] -> Entry]
    /\ left \subseteq Keys
    /\ visiting # None => visiting < flows /\ left \subseteq DOMAIN heap[visiting]
    /\ into # None => into <= flows

\* Bytes of flow k that a map holds.
Held(k, n) == IF k \in DOMAIN heap[n] THEN heap[n][k].bytes ELSE 0

\* Bytes of flow k that the call in progress or the next one will come to.
ToCome(k) == Held(k, flows) + IF visiting # None /\ k \in left THEN Held(k, visiting) ELSE 0

\* Every byte that Publish adds is visited or held back once, never twice, and the only
\* bytes that can be missed are those of messages added to a map already taken away.
Conservation ==
    \A k \in Keys :
        LET accounted == given[k] + below[k] + ToCome(k)
        IN  accounted <= published[k] /\ published[k] <= accounted + lateBytes[k]

\* The race costs at most one message for each call of GetFlows: Publish loads the map
\* again for each message (hal.go 774).
OneLatePerCall == late <= flows

\* A name that a flow carries is "N/A" or one that an index of one of its messages, of
\* the same direction, has had; the registry may have changed since.
NamesOfIndexes ==
    \A n \in MapIds : \A k \in DOMAIN heap[n] :
        LET sent == {m \in UNION {{u[i] : i \in DOMAIN u} : u \in Updates} : m.key = k}
            e == heap[n][k]
        IN  /\ e.inIf = NA \/ \E m \in sent : <<m.inIf, e.inIf>> \in known
            /\ e.outIf = NA \/ \E m \in sent : <<m.outIf, e.outIf>> \in known

\* A flow is held back only if it was slower than the threshold over the interval, as
\* long as the multiplication in ToTelemetry stays below 2^64.
OnlySlowHeldBack ==
    [][\A k \in Keys :
         LET b == below'[k] - below[k]
         IN  b > 0 /\ (b + 1) * 1000 <= Modulus =>
                b * 1000 < FlowThreshold * (IF millis < 1 THEN 1 ELSE millis)]_vars

================================================================================
