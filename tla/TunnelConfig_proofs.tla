-------------------------- MODULE TunnelConfig_proofs --------------------------
(***************************************************************************)
(* Proofs about TunnelConfig: types, what a nil return of AddTunnel and    *)
(* DeleteTunnel promises, and that tunnels keep all their parts or none.   *)
(***************************************************************************)
EXTENDS TunnelConfig, TLAPS

--------------------------------------------------------------------------------
(* Configurations.                                                         *)

LEMMA ConfigType ==
    ASSUME NEW c \in Config, NEW t \in Tunnels, NEW i \in Interfaces
    PROVE  /\ [c EXCEPT !.tunnels = @ \cup {t}] \in Config
           /\ [c EXCEPT !.tunnels = @ \ {t}] \in Config
           /\ [c EXCEPT !.enabled = @ \cup {i}] \in Config
           /\ [c EXCEPT !.si = @ \cup {i}] \in Config
           /\ [c EXCEPT !.si = @ \ {i}] \in Config
           /\ [c EXCEPT !.monitored = @ \cup {i}] \in Config
           /\ [c EXCEPT !.monitored = @ \ {i}] \in Config
BY DEF Config

LEMMA InterfaceType == \A t \in Tunnels : InterfaceOf[t] \in Interfaces
BY DEF Interfaces

LEMMA KindType == ASSUME TypeOK, NEW p \in Callers PROVE Tunnel(p) \in Tunnels
BY DEF TypeOK, Tunnel

--------------------------------------------------------------------------------
(* What the steps have in common.                                          *)

LEMMA RpcType ==
    ASSUME TypeOK, NEW p \in Callers, Answered(p) \/ RpcFails(p)
    PROVE  session' \in [Callers -> {"up", "broken"}] /\ faults' \in 0..MaxFaults
<1>1. MaxFaults \in Nat /\ faults \in 0..MaxFaults /\ session \in [Callers -> {"up", "broken"}]
  BY TunnelAssumption DEF TypeOK
<1>2. CASE Answered(p)
  BY <1>1, <1>2 DEF Answered
<1>3. CASE RpcFails(p)
  BY <1>1, <1>3 DEF RpcFails
<1>4. QED
  BY <1>2, <1>3

LEMMA GotoType ==
    ASSUME TypeOK, NEW p \in Callers, NEW next \in Steps, Goto(p, next)
    PROVE  /\ pc' \in [Callers -> Steps] /\ reply' = reply
           /\ pc'[p] = next /\ \A q \in Callers \ {p} : pc'[q] = pc[q]
BY DEF Goto, TypeOK

LEMMA ReturnType ==
    ASSUME TypeOK, NEW p \in Callers, NEW r \in {"nil", "error"}, Return(p, r)
    PROVE  /\ pc' \in [Callers -> Steps] /\ reply' \in [Callers -> {"none", "nil", "error"}]
           /\ pc'[p] = "idle" /\ \A q \in Callers \ {p} : pc'[q] = pc[q]
           /\ reply'[p] = r
BY DEF Return, TypeOK, Steps, Asleep

LEMMA AbandonType == ASSUME NEW p, Abandon(p) PROVE trouble' \in BOOLEAN
BY Zenon DEF Abandon

LEMMA NoticeType == ASSUME NEW p, Notice(p) PROVE crossed' \in [Callers -> BOOLEAN]
BY Zenon DEF Notice

\* After a step of p that leaves its call alone only the place of p and its interface
\* matter for TypeOK.
LEMMA FoundStep ==
    ASSUME TypeOK, NEW p \in Callers, call' = call,
           \A q \in Callers \ {p} : pc'[q] = pc[q] /\ ifc'[q] = ifc[q],
           pc'[p] \in {"list", "si", "monitoring"} \/ (pc'[p] = "edit" /\ Kind(p) # "rsvp")
              => ifc'[p] = InterfaceOf[Tunnel(p)]
    PROVE  \A q \in Callers : UsesFound(q)'
<1>1. \A q : Tunnel(q)' = Tunnel(q) /\ Kind(q)' = Kind(q)
  BY DEF Tunnel, Kind
<1>2. QED
  BY <1>1 DEF TypeOK, UsesFound

LEMMA EditType ==
    ASSUME TypeOK, NEW p \in Callers, NEW new \in Config, NEW allowed \in BOOLEAN,
           NEW next \in Steps \ {"edit"}, Edit(p, new, allowed, next),
           next \in {"list", "si", "monitoring"} => ifc[p] = InterfaceOf[Tunnel(p)]
    PROVE  TypeOK'
<1>1. session' \in [Callers -> {"up", "broken"}] /\ faults' \in 0..MaxFaults
  BY RpcType DEF Edit
<1>2. crossed' \in [Callers -> BOOLEAN]
  BY NoticeType DEF Edit
<1>3. candidate' \in Config
  BY DEF Edit, TypeOK
<1>4. \/ Goto(p, next) /\ UNCHANGED trouble
      \/ Return(p, "error") /\ Abandon(p)
  BY DEF Edit, GiveUp, Fail
<1>5. trouble' \in BOOLEAN
  BY <1>4, AbandonType DEF TypeOK
<1>6. /\ pc' \in [Callers -> Steps] /\ reply' \in [Callers -> {"none", "nil", "error"}]
      /\ pc'[p] \in {next, "idle"} /\ \A q \in Callers \ {p} : pc'[q] = pc[q]
  BY <1>4, GotoType, ReturnType DEF TypeOK
<1>7. UNCHANGED <<running, call, ifc, calls, missed, clean>>
  BY DEF Edit
<1>8. \A q \in Callers : UsesFound(q)'
  BY <1>6, <1>7, FoundStep
<1>9. QED
  BY <1>1, <1>2, <1>3, <1>5, <1>6, <1>7, <1>8 DEF TypeOK

LEMMA MissType ==
    ASSUME TypeOK, NEW p \in Callers, Miss(p)
    PROVE  /\ missed' \in [Callers -> BOOLEAN] /\ trouble' \in BOOLEAN
           /\ pc' \in [Callers -> Steps] /\ reply' \in [Callers -> {"none", "nil", "error"}]
           /\ pc'[p] \in {"commit", "idle"} /\ \A q \in Callers \ {p} : pc'[q] = pc[q]
<1>1. \/ Goto(p, "commit") /\ UNCHANGED trouble
      \/ Return(p, "error") /\ Abandon(p)
  BY DEF Miss, Fail
<1>2. missed' \in [Callers -> BOOLEAN]
  BY DEF Miss, TypeOK
<1>3. "commit" \in Steps
  BY DEF Steps
<1>4. QED
  BY <1>1, <1>2, <1>3, GotoType, ReturnType, AbandonType DEF TypeOK

--------------------------------------------------------------------------------
(* The steps of both operations.                                           *)

LEMMA StartType ==
    ASSUME TypeOK, NEW p \in Callers, NEW op \in Operations, NEW t \in Tunnels, Start(p, op, t)
    PROVE  TypeOK'
<1> USE DEF Start
<1>1. MaxCalls \in Nat /\ calls \in 0..MaxCalls
  BY TunnelAssumption DEF TypeOK
<1>2. calls' \in 0..MaxCalls
  BY <1>1
<1>3. clean' \in [Callers -> BOOLEAN]
  <2>1. (PartsOf(candidate, t) = PartsOf(running, t)) \in BOOLEAN
    OBVIOUS
  <2>2. QED
    BY <2>1 DEF TypeOK
<1>4. \A q \in Callers : UsesFound(q)'
  <2>1. \A q \in Callers \ {p} : Tunnel(q)' = Tunnel(q) /\ Kind(q)' = Kind(q)
    BY DEF Tunnel, Kind, TypeOK
  <2>2. pc'[p] = "type" /\ \A q \in Callers \ {p} : pc'[q] = pc[q] /\ ifc'[q] = ifc[q]
    BY DEF TypeOK
  <2>3. QED
    BY <2>1, <2>2 DEF TypeOK, UsesFound
<1>5. /\ call' \in [Callers -> [op : Operations, tunnel : Tunnels]]
      /\ pc' \in [Callers -> Steps]
      /\ ifc' \in [Callers -> Interfaces \cup {NoInterface}]
      /\ reply' \in [Callers -> {"none", "nil", "error"}]
      /\ session' \in [Callers -> {"up", "broken"}]
  BY DEF TypeOK, Steps
<1>6. missed' \in [Callers -> BOOLEAN] /\ crossed' \in [Callers -> BOOLEAN]
  BY DEF TypeOK
<1>7. QED
  BY <1>2, <1>3, <1>4, <1>5, <1>6 DEF TypeOK

LEMMA SwitchType ==
    ASSUME TypeOK, NEW p \in Callers, Switch(p)
    PROVE  TypeOK'
<1>1. UNCHANGED <<running, candidate, call, ifc, session, faults, calls, missed, crossed, clean>>
  BY DEF Switch
<1>2. trouble' \in BOOLEAN
  BY Zenon DEF Switch
<1>3. \/ Kind(p) = "rsvp" /\ Goto(p, "edit")
      \/ Goto(p, "description")
      \/ Return(p, "error")
  BY DEF Switch
<1>4. {"edit", "description"} \subseteq Steps
  BY DEF Steps
<1>5. /\ pc' \in [Callers -> Steps] /\ reply' \in [Callers -> {"none", "nil", "error"}]
      /\ pc'[p] \in {"description", "idle"} \/ (pc'[p] = "edit" /\ Kind(p) = "rsvp")
      /\ \A q \in Callers \ {p} : pc'[q] = pc[q]
  BY <1>3, <1>4, GotoType, ReturnType DEF TypeOK
<1>6. \A q \in Callers : UsesFound(q)'
  BY <1>1, <1>5, FoundStep
<1>7. QED
  BY <1>1, <1>2, <1>5, <1>6 DEF TypeOK

LEMMA EditTunnelType ==
    ASSUME TypeOK, NEW p \in Callers, EditTunnel(p)
    PROVE  TypeOK'
<1> DEFINE new == IF call[p].op = "add" THEN TunnelAdded(p) ELSE TunnelDeleted(p)
           allowed == Kind(p) = "rsvp" /\ call[p].op = "delete" => Tunnel(p) \in candidate.tunnels
           next == IF Kind(p) = "rsvp" THEN "path" ELSE AfterInterface(p)
<1>1. pc[p] = "edit" /\ Edit(p, new, allowed, next)
  BY DEF EditTunnel
<1>2. Kind(p) # "rsvp" => ifc[p] = InterfaceOf[Tunnel(p)]
  BY <1>1 DEF TypeOK, UsesFound
<1>3. candidate \in Config /\ Tunnel(p) \in Tunnels /\ InterfaceOf[Tunnel(p)] \in Interfaces
  BY KindType, InterfaceType DEF TypeOK
<1>4. new \in Config
  BY <1>2, <1>3, ConfigType DEF TunnelAdded, TunnelDeleted
<1>5. next \in {"path", "si", "list"} /\ (next # "path" => Kind(p) # "rsvp")
  BY DEF AfterInterface
<1>6. next \in Steps \ {"edit"}
  BY <1>5 DEF Steps
<1>7. allowed \in BOOLEAN
  OBVIOUS
<1> HIDE DEF new, allowed, next
<1>8. QED
  BY <1>1, <1>2, <1>4, <1>5, <1>6, <1>7, EditType

LEMMA GetExplicitPathType ==
    ASSUME TypeOK, NEW p \in Callers, GetExplicitPath(p) \/ NoExplicitPath(p)
    PROVE  TypeOK'
<1>1. UNCHANGED <<running, candidate, call, ifc, calls, crossed, clean>>
  BY DEF GetExplicitPath, NoExplicitPath
<1>2. session' \in [Callers -> {"up", "broken"}] /\ faults' \in 0..MaxFaults
  BY RpcType DEF GetExplicitPath, NoExplicitPath
<1>3. {"addresses", "panicked"} \subseteq Steps
  BY DEF Steps, Asleep
<1>4. /\ missed' \in [Callers -> BOOLEAN] /\ trouble' \in BOOLEAN
      /\ pc' \in [Callers -> Steps] /\ reply' \in [Callers -> {"none", "nil", "error"}]
      /\ pc'[p] \in {"addresses", "panicked", "commit", "idle"}
      /\ \A q \in Callers \ {p} : pc'[q] = pc[q]
  <2>1. CASE GetExplicitPath(p) /\ Goto(p, "addresses") /\ UNCHANGED <<missed, trouble>>
    BY <2>1, <1>3, GotoType DEF TypeOK
  <2>2. CASE Miss(p)
    BY <2>2, MissType
  <2>3. CASE NoExplicitPath(p)
    <3>1. trouble' \in BOOLEAN
      BY <2>3, AbandonType DEF NoExplicitPath
    <3>2. QED
      BY <2>3, <3>1, <1>3 DEF NoExplicitPath, TypeOK
  <2>4. QED
    BY <2>1, <2>2, <2>3 DEF GetExplicitPath
<1>5. \A q \in Callers : UsesFound(q)'
  BY <1>1, <1>4, FoundStep
<1>6. QED
  BY <1>1, <1>2, <1>4, <1>5 DEF TypeOK

LEMMA GetInterfaceType ==
    ASSUME TypeOK, NEW p \in Callers, NEW next \in Steps, GetInterface(p, next)
    PROVE  TypeOK'
<1>1. UNCHANGED <<running, candidate, call, calls, crossed, clean>>
  BY DEF GetInterface
<1>2. session' \in [Callers -> {"up", "broken"}] /\ faults' \in 0..MaxFaults
  BY RpcType DEF GetInterface
<1>3. CASE /\ ifc' = [ifc EXCEPT ![p] = InterfaceOf[Tunnel(p)]]
           /\ Goto(p, next) /\ UNCHANGED <<missed, trouble>>
  <2>1. InterfaceOf[Tunnel(p)] \in Interfaces
    BY KindType, InterfaceType
  <2>2. ifc' \in [Callers -> Interfaces \cup {NoInterface}] /\ ifc'[p] = InterfaceOf[Tunnel(p)]
        /\ \A q \in Callers \ {p} : ifc'[q] = ifc[q]
    BY <1>3, <2>1 DEF TypeOK
  <2>3. \A q \in Callers : UsesFound(q)'
    BY <1>1, <1>3, <2>2, GotoType, FoundStep
  <2>4. QED
    BY <1>1, <1>2, <1>3, <2>2, <2>3, GotoType DEF TypeOK
<1>4. CASE Miss(p) /\ UNCHANGED ifc
  <2>1. \A q \in Callers : UsesFound(q)'
    BY <1>1, <1>4, MissType, FoundStep
  <2>2. QED
    BY <1>1, <1>2, <1>4, <2>1, MissType DEF TypeOK
<1>5. QED
  BY <1>3, <1>4 DEF GetInterface

LEMMA GetMembersType ==
    ASSUME TypeOK, NEW p \in Callers, GetMembers(p)
    PROVE  TypeOK'
<1>1. UNCHANGED <<running, candidate, call, ifc, calls, crossed, clean, trouble>>
  BY DEF GetMembers
<1>2. session' \in [Callers -> {"up", "broken"}] /\ faults' \in 0..MaxFaults
  BY RpcType DEF GetMembers
<1>3. missed' \in [Callers -> BOOLEAN]
  BY DEF GetMembers, TypeOK
<1>4. pc[p] = "list" /\ (Goto(p, "si") \/ Goto(p, "commit"))
  BY DEF GetMembers
<1>5. ifc[p] = InterfaceOf[Tunnel(p)]
  BY <1>4 DEF TypeOK, UsesFound
<1>6. {"si", "commit"} \subseteq Steps
  BY DEF Steps
<1>7. /\ pc' \in [Callers -> Steps] /\ reply' = reply
      /\ pc'[p] \in {"si", "commit"} /\ \A q \in Callers \ {p} : pc'[q] = pc[q]
  BY <1>4, <1>6, GotoType
<1>8. \A q \in Callers : UsesFound(q)'
  BY <1>1, <1>5, <1>7, FoundStep
<1>9. QED
  BY <1>1, <1>2, <1>3, <1>7, <1>8 DEF TypeOK

LEMMA EditMembershipType ==
    ASSUME TypeOK, NEW p \in Callers, EditMembership(p) \/ EditMonitoring(p)
    PROVE  TypeOK'
<1>1. ifc[p] = InterfaceOf[Tunnel(p)]
  BY DEF EditMembership, EditMonitoring, TypeOK, UsesFound
<1>2. ifc[p] \in Interfaces /\ candidate \in Config /\ Tunnels # {}
  BY <1>1, KindType, InterfaceType, TunnelAssumption DEF TypeOK
<1>3. {"monitoring", "commit"} \subseteq Steps \ {"edit"}
  BY DEF Steps, Asleep
<1>4. /\ [candidate EXCEPT !.si = @ \cup {ifc[p]}] \in Config
      /\ [candidate EXCEPT !.si = @ \ {ifc[p]}] \in Config
      /\ [candidate EXCEPT !.monitored = @ \cup {ifc[p]}] \in Config
      /\ [candidate EXCEPT !.monitored = @ \ {ifc[p]}] \in Config
  BY <1>2, ConfigType
<1>5. \/ AddSiInterface(p, "monitoring") \/ DeleteSiInterface(p, "monitoring")
      \/ AddInterfaceFlowMonitoring(p, "commit") \/ DeleteInterfaceFlowMonitoring(p, "commit")
  BY DEF EditMembership, EditMonitoring
<1>6. CASE AddSiInterface(p, "monitoring")
  BY <1>6, <1>1, <1>3, <1>4, EditType DEF AddSiInterface
<1>7. CASE DeleteSiInterface(p, "monitoring")
  <2> DEFINE allowed == ifc[p] \in candidate.si
             new == [candidate EXCEPT !.si = @ \ {ifc[p]}]
  <2>1. allowed \in BOOLEAN /\ new \in Config /\ Edit(p, new, allowed, "monitoring")
    BY <1>7, <1>4 DEF DeleteSiInterface
  <2> HIDE DEF allowed, new
  <2>2. QED
    BY <2>1, <1>1, <1>3, EditType
<1>8. CASE AddInterfaceFlowMonitoring(p, "commit")
  BY <1>8, <1>1, <1>3, <1>4, EditType DEF AddInterfaceFlowMonitoring
<1>9. CASE DeleteInterfaceFlowMonitoring(p, "commit")
  <2> DEFINE allowed == ifc[p] \in candidate.monitored
             new == [candidate EXCEPT !.monitored = @ \ {ifc[p]}]
  <2>1. allowed \in BOOLEAN /\ new \in Config /\ Edit(p, new, allowed, "commit")
    BY <1>9, <1>4 DEF DeleteInterfaceFlowMonitoring
  <2> HIDE DEF allowed, new
  <2>2. QED
    BY <2>1, <1>1, <1>3, EditType
<1>10. QED
  BY <1>5, <1>6, <1>7, <1>8, <1>9

LEMMA CommitType ==
    ASSUME TypeOK, NEW p \in Callers, Commit(p)
    PROVE  TypeOK'
<1>1. UNCHANGED <<candidate, call, ifc, calls, missed, crossed, clean>>
  BY DEF Commit
<1>2. session' \in [Callers -> {"up", "broken"}] /\ faults' \in 0..MaxFaults
  BY RpcType DEF Commit
<1>3. running' \in Config
  BY DEF Commit, TypeOK
<1>4. trouble' \in BOOLEAN
  BY Zenon DEF Commit
<1>5. Return(p, "nil") \/ Return(p, "error")
  BY DEF Commit
<1>6. /\ pc' \in [Callers -> Steps] /\ reply' \in [Callers -> {"none", "nil", "error"}]
      /\ pc'[p] = "idle" /\ \A q \in Callers \ {p} : pc'[q] = pc[q]
  BY <1>5, ReturnType
<1>7. \A q \in Callers : UsesFound(q)'
  BY <1>1, <1>6, FoundStep
<1>8. QED
  BY <1>1, <1>2, <1>3, <1>4, <1>6, <1>7 DEF TypeOK

LEMMA StepType ==
    ASSUME TypeOK, NEW p \in Callers, Step(p)
    PROVE  TypeOK'
<1>1. {"si", "list", "edit"} \subseteq Steps
  BY DEF Steps
<1>2. CASE GetInterfaceConnectedTo(p)
  <2>1. AfterInterface(p) \in Steps
    BY <1>1 DEF AfterInterface
  <2>2. QED
    BY <1>2, <2>1, GetInterfaceType DEF GetInterfaceConnectedTo
<1>3. CASE GetInterfaceByDescription(p)
  BY <1>1, <1>3, GetInterfaceType DEF GetInterfaceByDescription
<1>4. QED
  BY <1>2, <1>3, SwitchType, EditTunnelType, GetExplicitPathType, GetMembersType,
     EditMembershipType, CommitType DEF Step

LEMMA NextType == TypeOK /\ [Next]_vars => TypeOK'
<1>1. SUFFICES ASSUME TypeOK, [Next]_vars PROVE TypeOK'
  OBVIOUS
<1>2. CASE Next
  BY <1>1, <1>2, StartType, StepType DEF Next
<1>3. CASE UNCHANGED vars
  <2>1. \A p \in Callers : UsesFound(p)'
    BY <1>1, <1>3, FoundStep DEF vars, TypeOK, UsesFound, Kind, Tunnel
  <2>2. QED
    BY <1>1, <1>3, <2>1 DEF vars, TypeOK
<1>4. QED
  BY <1>1, <1>2, <1>3

LEMMA InitType == Init => TypeOK
<1>1. SUFFICES ASSUME Init PROVE TypeOK
  OBVIOUS
<1>2. InitialConfig \in Config /\ MaxFaults \in Nat /\ MaxCalls \in Nat
  BY TunnelAssumption
<1>3. call \in [Callers -> [op : Operations, tunnel : Tunnels]]
  <2>1. PICK t \in Tunnels : call \in [Callers -> [op : {"add"}, tunnel : {t}]]
    <3>1. (CHOOSE t \in Tunnels : TRUE) \in Tunnels
      BY TunnelAssumption
    <3>2. QED
      BY <1>1, <3>1 DEF Init
  <2>2. \A c \in [op : {"add"}, tunnel : {t}] : c \in [op : Operations, tunnel : Tunnels]
    BY <2>1 DEF Operations
  <2>3. QED
    BY <2>1, <2>2
<1>4. pc \in [Callers -> Steps] /\ \A p \in Callers : pc[p] = "idle"
  <2>1. "idle" \in Steps
    BY DEF Steps, Asleep
  <2>2. QED
    BY <1>1, <2>1 DEF Init
<1>5. \A p \in Callers : UsesFound(p)
  BY <1>4 DEF UsesFound
<1>6. faults \in 0..MaxFaults /\ calls \in 0..MaxCalls
  BY <1>1, <1>2 DEF Init
<1>7. /\ running \in Config /\ candidate \in Config
      /\ ifc \in [Callers -> Interfaces \cup {NoInterface}]
      /\ reply \in [Callers -> {"none", "nil", "error"}]
      /\ session \in [Callers -> {"up", "broken"}]
      /\ missed \in [Callers -> BOOLEAN] /\ crossed \in [Callers -> BOOLEAN]
      /\ clean \in [Callers -> BOOLEAN] /\ trouble \in BOOLEAN
  BY <1>1, <1>2 DEF Init
<1>8. QED
  BY <1>3, <1>4, <1>5, <1>6, <1>7 DEF TypeOK

\* Every reachable state is well-typed, and whatever the processes do to each other and
\* whichever RPCs fail, the service instance, flow monitoring and a VXLAN are only
\* edited for the interface of the tunnel in hand.
THEOREM TunnelTypeCorrect == Spec => []TypeOK
<1>1. QED
  BY InitType, NextType, PTL DEF Spec

--------------------------------------------------------------------------------
(* What the candidate holds of the tunnel of a call that missed nothing    *)
(* and that nobody crossed.                                                *)

Undisturbed(p) == Busy(p) /\ ~ missed[p] /\ ~ crossed[p]

Path(p) == InterfaceOf[Tunnel(p)]

Configured(p) ==
    /\ Kind(p) = "rsvp" => Tunnel(p) \in candidate.tunnels
    /\ Kind(p) = "vxlan" => Path(p) \in candidate.enabled

\* Each edit of AddTunnel is in the candidate from its step to the commit.
AddInv(p) ==
    Undisturbed(p) /\ call[p].op = "add" =>
        /\ pc[p] # "list"
        /\ pc[p] \in {"path", "addresses", "si", "monitoring", "commit"} => Configured(p)
        /\ pc[p] \in {"monitoring", "commit"} => Path(p) \in candidate.si
        /\ pc[p] = "commit" => Path(p) \in candidate.monitored

\* Until DeleteTunnel has looked for the membership, what it finds in running is what
\* the candidate holds; then the membership is gone, as the tunnel is from its edit on.
DeleteInv(p) ==
    Undisturbed(p) /\ clean[p] /\ call[p].op = "delete" =>
        /\ pc[p] \in {"type", "edit", "path", "addresses", "description", "list"}
             => (Path(p) \in candidate.si <=> Path(p) \in running.si)
        /\ pc[p] \in {"path", "addresses", "list", "si", "monitoring", "commit"}
             => (Kind(p) = "rsvp" => Tunnel(p) \notin candidate.tunnels)
        /\ pc[p] \in {"monitoring", "commit"} => Path(p) \notin candidate.si

CallInv == \A p \in Callers : AddInv(p) /\ DeleteInv(p)

LEMMA SameCall ==
    ASSUME call' = call
    PROVE  \A p : Tunnel(p)' = Tunnel(p) /\ Kind(p)' = Kind(p) /\ Path(p)' = Path(p)
BY DEF Tunnel, Kind, Path

--------------------------------------------------------------------------------
(* The steps of a process leave the calls of others alone.                 *)

\* What a step of q may do to another process: edit the candidate elsewhere or commit it.
Spared(p) ==
    /\ pc'[p] = pc[p] /\ call'[p] = call[p] /\ reply'[p] = reply[p]
    /\ missed'[p] = missed[p] /\ clean'[p] = clean[p]
    /\ ~ crossed'[p] => ~ crossed[p]
    /\ Busy(p) /\ ~ crossed'[p] =>
          PartsOf(candidate', Tunnel(p)) = PartsOf(candidate, Tunnel(p))
    /\ running' = running \/ (running' = candidate /\ candidate' = candidate)

LEMMA NoticeSpares ==
    ASSUME NEW q \in Callers, Notice(q), NEW p \in Callers
    PROVE  /\ ~ crossed'[p] => ~ crossed[p]
           /\ p # q /\ Busy(p) /\ ~ crossed'[p] => ~ Shares(Tunnel(q), Tunnel(p))
BY Zenon DEF Notice

\* No edit of q reaches the parts of a tunnel that shares nothing with that of q.
LEMMA NewParts ==
    ASSUME TypeOK, NEW q \in Callers, NEW t \in Tunnels, ~ Shares(Tunnel(q), t)
    PROVE  /\ pc[q] = "edit" => /\ PartsOf(TunnelAdded(q), t) = PartsOf(candidate, t)
                                /\ PartsOf(TunnelDeleted(q), t) = PartsOf(candidate, t)
           /\ pc[q] \in {"si", "monitoring"} =>
                 /\ PartsOf([candidate EXCEPT !.si = @ \cup {ifc[q]}], t) = PartsOf(candidate, t)
                 /\ PartsOf([candidate EXCEPT !.si = @ \ {ifc[q]}], t) = PartsOf(candidate, t)
                 /\ PartsOf([candidate EXCEPT !.monitored = @ \cup {ifc[q]}], t)
                       = PartsOf(candidate, t)
                 /\ PartsOf([candidate EXCEPT !.monitored = @ \ {ifc[q]}], t)
                       = PartsOf(candidate, t)
<1>1. t # Tunnel(q) /\ InterfaceOf[t] # InterfaceOf[Tunnel(q)] /\ candidate \in Config
  BY DEF Shares, TypeOK
<1>2. pc[q] \in {"si", "monitoring"} => ifc[q] # InterfaceOf[t]
  BY <1>1 DEF TypeOK, UsesFound
<1>3. pc[q] = "edit" /\ Kind(q) # "rsvp" => ifc[q] # InterfaceOf[t]
  BY <1>1 DEF TypeOK, UsesFound
<1>4. ASSUME pc[q] = "edit"
      PROVE  /\ PartsOf(TunnelAdded(q), t) = PartsOf(candidate, t)
             /\ PartsOf(TunnelDeleted(q), t) = PartsOf(candidate, t)
  BY <1>1, <1>3, <1>4 DEF PartsOf, TunnelAdded, TunnelDeleted, Config
<1>5. QED
  BY <1>1, <1>2, <1>4 DEF PartsOf, Config

LEMMA EditSpares ==
    ASSUME TypeOK, NEW q \in Callers, NEW p \in Callers \ {q},
           NEW new, NEW allowed, NEW next, Edit(q, new, allowed, next),
           ~ Shares(Tunnel(q), Tunnel(p)) => PartsOf(new, Tunnel(p)) = PartsOf(candidate, Tunnel(p))
    PROVE  Spared(p)
<1>1. UNCHANGED <<running, call, missed, clean>> /\ Notice(q) /\ candidate' \in {candidate, new}
  BY DEF Edit
<1>2. pc'[p] = pc[p] /\ reply'[p] = reply[p]
  BY DEF Edit, GiveUp, Fail, Goto, Return, TypeOK
<1>3. ~ crossed'[p] => ~ crossed[p]
  BY <1>1, NoticeSpares
<1>4. Busy(p) /\ ~ crossed'[p] => PartsOf(candidate', Tunnel(p)) = PartsOf(candidate, Tunnel(p))
  BY <1>1, NoticeSpares
<1>5. QED
  BY <1>1, <1>2, <1>3, <1>4 DEF Spared

LEMMA OtherEditSpares ==
    ASSUME TypeOK, NEW q \in Callers, NEW p \in Callers \ {q},
           EditTunnel(q) \/ EditMembership(q) \/ EditMonitoring(q)
    PROVE  Spared(p)
<1>1. Tunnel(p) \in Tunnels
  BY KindType
<1>2. CASE EditTunnel(q)
  <2> DEFINE new == IF call[q].op = "add" THEN TunnelAdded(q) ELSE TunnelDeleted(q)
             allowed == Kind(q) = "rsvp" /\ call[q].op = "delete"
                           => Tunnel(q) \in candidate.tunnels
             next == IF Kind(q) = "rsvp" THEN "path" ELSE AfterInterface(q)
  <2>1. pc[q] = "edit" /\ Edit(q, new, allowed, next)
    BY <1>2 DEF EditTunnel
  <2>2. ~ Shares(Tunnel(q), Tunnel(p)) => PartsOf(new, Tunnel(p)) = PartsOf(candidate, Tunnel(p))
    BY <1>1, <2>1, NewParts
  <2> HIDE DEF new, allowed, next
  <2>3. QED
    BY <2>1, <2>2, EditSpares
<1>3. CASE EditMembership(q)
  <2>1. pc[q] = "si" /\ \E next : AddSiInterface(q, next) \/ DeleteSiInterface(q, next)
    BY <1>3 DEF EditMembership
  <2>2. PICK next : AddSiInterface(q, next) \/ DeleteSiInterface(q, next)
    BY <2>1
  <2>3. CASE AddSiInterface(q, next)
    BY <1>1, <2>1, <2>3, NewParts, EditSpares DEF AddSiInterface
  <2>4. CASE DeleteSiInterface(q, next)
    BY <1>1, <2>1, <2>4, NewParts, EditSpares DEF DeleteSiInterface
  <2>5. QED
    BY <2>2, <2>3, <2>4
<1>4. CASE EditMonitoring(q)
  <2>1. pc[q] = "monitoring" /\ \E next : \/ AddInterfaceFlowMonitoring(q, next)
                                          \/ DeleteInterfaceFlowMonitoring(q, next)
    BY <1>4 DEF EditMonitoring
  <2>2. PICK next : AddInterfaceFlowMonitoring(q, next) \/ DeleteInterfaceFlowMonitoring(q, next)
    BY <2>1
  <2>3. CASE AddInterfaceFlowMonitoring(q, next)
    BY <1>1, <2>1, <2>3, NewParts, EditSpares DEF AddInterfaceFlowMonitoring
  <2>4. CASE DeleteInterfaceFlowMonitoring(q, next)
    BY <1>1, <2>1, <2>4, NewParts, EditSpares DEF DeleteInterfaceFlowMonitoring
  <2>5. QED
    BY <2>2, <2>3, <2>4
<1>5. QED
  BY <1>2, <1>3, <1>4

LEMMA OtherStepSpares ==
    ASSUME TypeOK, NEW q \in Callers, NEW p \in Callers \ {q},
           Step(q) \/ \E op \in Operations, t \in Tunnels : Start(q, op, t)
    PROVE  Spared(p)
<1>1. CASE EditTunnel(q) \/ EditMembership(q) \/ EditMonitoring(q)
  BY <1>1, OtherEditSpares
<1>2. CASE Commit(q)
  <2>1. /\ UNCHANGED <<candidate, call, missed, crossed, clean>>
        /\ running' = running \/ running' = candidate
    BY <1>2 DEF Commit
  <2>2. pc'[p] = pc[p] /\ reply'[p] = reply[p]
    BY <1>2 DEF Commit, Return, TypeOK
  <2>3. QED
    BY <2>1, <2>2 DEF Spared
<1>3. ASSUME UNCHANGED <<running, candidate, clean>>, call'[p] = call[p],
             pc'[p] = pc[p], reply'[p] = reply[p], missed'[p] = missed[p],
             crossed'[p] = crossed[p]
      PROVE  Spared(p)
  BY <1>3 DEF Spared
<1>4. CASE \E op \in Operations, t \in Tunnels : Start(q, op, t)
  BY <1>4 DEF Start, Spared, TypeOK
<1>5. CASE Switch(q)
  BY <1>3, <1>5 DEF Switch, Goto, Return, TypeOK
<1>6. CASE GetExplicitPath(q)
  BY <1>3, <1>6 DEF GetExplicitPath, Miss, Fail, Goto, Return, TypeOK
<1>7. CASE NoExplicitPath(q)
  BY <1>3, <1>7 DEF NoExplicitPath, TypeOK
<1>8. CASE GetInterfaceConnectedTo(q) \/ GetInterfaceByDescription(q)
  BY <1>3, <1>8 DEF GetInterfaceConnectedTo, GetInterfaceByDescription, GetInterface,
                    Miss, Fail, Goto, Return, TypeOK
<1>9. CASE GetMembers(q)
  BY <1>3, <1>9 DEF GetMembers, Goto, TypeOK
<1>10. QED
  BY <1>1, <1>2, <1>4, <1>5, <1>6, <1>7, <1>8, <1>9 DEF Step

LEMMA SparedInv ==
    ASSUME TypeOK, NEW p \in Callers, Spared(p), AddInv(p), DeleteInv(p)
    PROVE  AddInv(p)' /\ DeleteInv(p)'
<1>1. Tunnel(p)' = Tunnel(p) /\ Kind(p)' = Kind(p) /\ Path(p)' = Path(p)
  BY DEF Spared, Tunnel, Kind, Path
<1>2. Undisturbed(p)' => Undisturbed(p)
  BY DEF Spared, Undisturbed, Busy
<1>3. Undisturbed(p)' => /\ Tunnel(p) \in candidate'.tunnels <=> Tunnel(p) \in candidate.tunnels
                         /\ Path(p) \in candidate'.enabled <=> Path(p) \in candidate.enabled
                         /\ Path(p) \in candidate'.si <=> Path(p) \in candidate.si
                         /\ Path(p) \in candidate'.monitored <=> Path(p) \in candidate.monitored
  BY <1>2 DEF Spared, Undisturbed, PartsOf, Path
<1>4. pc'[p] = pc[p] /\ call'[p] = call[p] /\ clean'[p] = clean[p]
  BY DEF Spared
<1>5. AddInv(p)'
  BY <1>1, <1>2, <1>3, <1>4 DEF AddInv, Configured
<1>6. running' = running \/ (running' = candidate /\ candidate' = candidate)
  BY DEF Spared
<1>7. Undisturbed(p)' /\ (Path(p) \in candidate.si <=> Path(p) \in running.si)
         => (Path(p) \in candidate'.si <=> Path(p) \in running'.si)
  BY <1>3, <1>6
<1>8. DeleteInv(p)'
  BY <1>1, <1>2, <1>3, <1>4, <1>7 DEF DeleteInv
<1>9. QED
  BY <1>5, <1>8

--------------------------------------------------------------------------------
(* The steps of a process itself.                                          *)

LEMMA EditDone ==
    ASSUME TypeOK, NEW p \in Callers, NEW new, NEW allowed, NEW next,
           Edit(p, new, allowed, next), Undisturbed(p)'
    PROVE  /\ pc'[p] = next /\ candidate' = new
           /\ UNCHANGED <<running, call, ifc, missed, clean>>
           /\ ~ missed[p] /\ ~ crossed[p]
<1>1. UNCHANGED <<running, call, ifc, missed, clean>> /\ Notice(p)
  BY DEF Edit
<1>2. ~ missed[p] /\ ~ crossed[p]
  BY <1>1, NoticeSpares DEF Undisturbed
<1>3. pc'[p] # "idle"
  BY DEF Undisturbed, Busy, Asleep
<1>4. QED
  BY <1>1, <1>2, <1>3 DEF Edit, GiveUp, Fail, Return, Goto, TypeOK

LEMMA OwnStart ==
    ASSUME TypeOK, NEW p \in Callers, NEW op \in Operations, NEW t \in Tunnels, Start(p, op, t)
    PROVE  AddInv(p)' /\ DeleteInv(p)'
<1>1. /\ pc'[p] = "type" /\ UNCHANGED <<running, candidate>>
      /\ clean'[p] = (PartsOf(candidate, t) = PartsOf(running, t))
      /\ Path(p)' = InterfaceOf[t]
  BY DEF Start, TypeOK, Path, Tunnel
<1>2. clean'[p] => (InterfaceOf[t] \in candidate.si <=> InterfaceOf[t] \in running.si)
  BY <1>1 DEF PartsOf
<1>3. QED
  BY <1>1, <1>2 DEF AddInv, DeleteInv

LEMMA OwnSwitch ==
    ASSUME TypeOK, NEW p \in Callers, AddInv(p), DeleteInv(p), Switch(p)
    PROVE  AddInv(p)' /\ DeleteInv(p)'
<1>1. UNCHANGED <<running, candidate, call, missed, crossed, clean>> /\ pc[p] = "type"
  BY DEF Switch
<1>2. pc'[p] \in {"edit", "description", "idle"}
  BY DEF Switch, Goto, Return, TypeOK
<1>3. Undisturbed(p)' => Undisturbed(p)
  BY <1>1 DEF Undisturbed, Busy, Asleep
<1>4. QED
  BY <1>1, <1>2, <1>3, SameCall DEF AddInv, DeleteInv, Undisturbed, Busy, Asleep

LEMMA OwnEditTunnel ==
    ASSUME TypeOK, NEW p \in Callers, AddInv(p), DeleteInv(p), EditTunnel(p)
    PROVE  AddInv(p)' /\ DeleteInv(p)'
<1> SUFFICES ASSUME Undisturbed(p)' PROVE AddInv(p)' /\ DeleteInv(p)'
  BY DEF AddInv, DeleteInv
<1> DEFINE new == IF call[p].op = "add" THEN TunnelAdded(p) ELSE TunnelDeleted(p)
           allowed == Kind(p) = "rsvp" /\ call[p].op = "delete" => Tunnel(p) \in candidate.tunnels
           next == IF Kind(p) = "rsvp" THEN "path" ELSE AfterInterface(p)
<1>1. pc[p] = "edit" /\ Edit(p, new, allowed, next)
  BY DEF EditTunnel
<1>2. /\ pc'[p] = next /\ candidate' = new /\ UNCHANGED <<running, call, missed, clean>>
      /\ Undisturbed(p)
  <2> HIDE DEF new, allowed, next
  <2>1. QED
    BY <1>1, EditDone DEF Undisturbed, Busy, Asleep
<1>3. candidate \in Config /\ (Kind(p) # "rsvp" => ifc[p] = Path(p))
  BY <1>1 DEF TypeOK, UsesFound, Path
<1>4. CASE call[p].op = "add"
  <2>1. pc'[p] \in {"path", "si"}
    BY <1>2, <1>4 DEF AfterInterface
  <2>2. Configured(p)'
    BY <1>2, <1>3, <1>4, SameCall DEF Configured, TunnelAdded, Config
  <2>3. QED
    BY <1>2, <1>4, <2>1, <2>2 DEF AddInv, DeleteInv
<1>5. CASE call[p].op = "delete"
  <2>1. pc'[p] \in {"path", "list"}
    BY <1>2, <1>5 DEF AfterInterface
  <2>2. candidate'.si = candidate.si /\ (Kind(p) = "rsvp" => Tunnel(p) \notin candidate'.tunnels)
    BY <1>2, <1>3, <1>5 DEF TunnelDeleted, Config
  <2>3. QED
    BY <1>1, <1>2, <1>5, <2>1, <2>2, SameCall DEF AddInv, DeleteInv
<1>6. QED
  BY <1>4, <1>5 DEF TypeOK, Operations

\* Lookups change no configuration.
LEMMA OwnLookup ==
    ASSUME TypeOK, NEW p \in Callers, AddInv(p), DeleteInv(p),
           GetExplicitPath(p) \/ NoExplicitPath(p) \/ GetInterfaceConnectedTo(p)
              \/ GetInterfaceByDescription(p)
    PROVE  AddInv(p)' /\ DeleteInv(p)'
<1> SUFFICES ASSUME Undisturbed(p)' PROVE AddInv(p)' /\ DeleteInv(p)'
  BY DEF AddInv, DeleteInv
<1>1. UNCHANGED <<running, candidate, call, crossed, clean>>
  BY DEF GetExplicitPath, NoExplicitPath, GetInterfaceConnectedTo, GetInterfaceByDescription,
         GetInterface
<1>2. ~ Miss(p)
  BY DEF Miss, Undisturbed, TypeOK
<1>3. missed'[p] = missed[p] /\ \/ pc[p] = "path" /\ pc'[p] = "addresses"
                                \/ pc[p] = "addresses" /\ pc'[p] = AfterInterface(p)
                                \/ pc[p] = "description" /\ pc'[p] = "edit"
  BY <1>2 DEF GetExplicitPath, NoExplicitPath, GetInterfaceConnectedTo,
              GetInterfaceByDescription, GetInterface, Goto, TypeOK, Undisturbed, Busy, Asleep
<1>4. Undisturbed(p)
  BY <1>1, <1>3 DEF Undisturbed, Busy, Asleep
<1>5. Configured(p)' <=> Configured(p)
  BY <1>1, SameCall DEF Configured
<1>6. AddInv(p)'
  BY <1>1, <1>3, <1>4, <1>5, SameCall DEF AddInv, AfterInterface
<1>7. DeleteInv(p)'
  BY <1>1, <1>3, <1>4, SameCall DEF DeleteInv, AfterInterface
<1>8. QED
  BY <1>6, <1>7

LEMMA OwnGetMembers ==
    ASSUME TypeOK, NEW p \in Callers, AddInv(p), DeleteInv(p), GetMembers(p)
    PROVE  AddInv(p)' /\ DeleteInv(p)'
<1> SUFFICES ASSUME Undisturbed(p)' PROVE AddInv(p)' /\ DeleteInv(p)'
  BY DEF AddInv, DeleteInv
<1>1. UNCHANGED <<running, candidate, call, crossed, clean>> /\ pc[p] = "list"
  BY DEF GetMembers
<1>2. ifc[p] = Path(p)
  BY <1>1 DEF TypeOK, UsesFound, Path
<1>3. missed'[p] = missed[p] /\ pc'[p] = IF Path(p) \in running.si THEN "si" ELSE "commit"
  BY <1>2 DEF GetMembers, IsMember, Goto, TypeOK, Undisturbed
<1>4. Undisturbed(p)
  BY <1>1, <1>3 DEF Undisturbed, Busy, Asleep
<1>5. call[p].op # "add"
  BY <1>1, <1>4 DEF AddInv
<1>6. DeleteInv(p)'
  BY <1>1, <1>3, <1>4, SameCall DEF DeleteInv
<1>7. QED
  BY <1>1, <1>5, <1>6 DEF AddInv

LEMMA OwnEditMembership ==
    ASSUME TypeOK, NEW p \in Callers, AddInv(p), DeleteInv(p), EditMembership(p)
    PROVE  AddInv(p)' /\ DeleteInv(p)'
<1> SUFFICES ASSUME Undisturbed(p)' PROVE AddInv(p)' /\ DeleteInv(p)'
  BY DEF AddInv, DeleteInv
<1>1. pc[p] = "si" /\ ifc[p] = Path(p) /\ candidate \in Config
  BY DEF EditMembership, TypeOK, UsesFound, Path
<1>2. CASE call[p].op = "add"
  <2>1. Edit(p, [candidate EXCEPT !.si = @ \cup {ifc[p]}], TRUE, "monitoring")
    BY <1>2 DEF EditMembership, AddSiInterface
  <2>2. /\ pc'[p] = "monitoring" /\ candidate' = [candidate EXCEPT !.si = @ \cup {ifc[p]}]
        /\ UNCHANGED <<call, missed, clean>> /\ Undisturbed(p)
    BY <1>1, <2>1, EditDone DEF Undisturbed, Busy, Asleep
  <2>3. Configured(p)' /\ Path(p) \in candidate'.si
    BY <1>1, <1>2, <2>2, SameCall DEF AddInv, Configured, Config
  <2>4. QED
    BY <1>2, <2>2, <2>3, SameCall DEF AddInv, DeleteInv
<1>3. CASE call[p].op = "delete"
  <2> DEFINE new == [candidate EXCEPT !.si = @ \ {ifc[p]}]
             allowed == ifc[p] \in candidate.si
  <2>1. Edit(p, new, allowed, "monitoring")
    BY <1>3 DEF EditMembership, DeleteSiInterface
  <2>2. /\ pc'[p] = "monitoring" /\ candidate' = new
        /\ UNCHANGED <<call, missed, clean>> /\ Undisturbed(p)
    <3> HIDE DEF new, allowed
    <3>1. QED
      BY <1>1, <2>1, EditDone DEF Undisturbed, Busy, Asleep
  <2>3. candidate'.tunnels = candidate.tunnels /\ Path(p) \notin candidate'.si
    BY <1>1, <2>2 DEF Config
  <2>4. QED
    BY <1>1, <1>3, <2>2, <2>3, SameCall DEF AddInv, DeleteInv
<1>4. QED
  BY <1>2, <1>3 DEF TypeOK, Operations

LEMMA OwnEditMonitoring ==
    ASSUME TypeOK, NEW p \in Callers, AddInv(p), DeleteInv(p), EditMonitoring(p)
    PROVE  AddInv(p)' /\ DeleteInv(p)'
<1> SUFFICES ASSUME Undisturbed(p)' PROVE AddInv(p)' /\ DeleteInv(p)'
  BY DEF AddInv, DeleteInv
<1>1. pc[p] = "monitoring" /\ ifc[p] = Path(p) /\ candidate \in Config
  BY DEF EditMonitoring, TypeOK, UsesFound, Path
<1>2. CASE call[p].op = "add"
  <2>1. Edit(p, [candidate EXCEPT !.monitored = @ \cup {ifc[p]}], TRUE, "commit")
    BY <1>2 DEF EditMonitoring, AddInterfaceFlowMonitoring
  <2>2. /\ pc'[p] = "commit" /\ candidate' = [candidate EXCEPT !.monitored = @ \cup {ifc[p]}]
        /\ UNCHANGED <<call, missed, clean>> /\ Undisturbed(p)
    BY <1>1, <2>1, EditDone DEF Undisturbed, Busy, Asleep
  <2>3. Configured(p)' /\ Path(p) \in candidate'.si /\ Path(p) \in candidate'.monitored
    BY <1>1, <1>2, <2>2, SameCall DEF AddInv, Configured, Config
  <2>4. QED
    BY <1>2, <2>2, <2>3, SameCall DEF AddInv, DeleteInv
<1>3. CASE call[p].op = "delete"
  <2> DEFINE new == [candidate EXCEPT !.monitored = @ \ {ifc[p]}]
             allowed == ifc[p] \in candidate.monitored
  <2>1. Edit(p, new, allowed, "commit")
    BY <1>3 DEF EditMonitoring, DeleteInterfaceFlowMonitoring
  <2>2. /\ pc'[p] = "commit" /\ candidate' = new
        /\ UNCHANGED <<call, missed, clean>> /\ Undisturbed(p)
    <3> HIDE DEF new, allowed
    <3>1. QED
      BY <1>1, <2>1, EditDone DEF Undisturbed, Busy, Asleep
  <2>3. candidate'.tunnels = candidate.tunnels /\ candidate'.si = candidate.si
    BY <1>1, <2>2 DEF Config
  <2>4. QED
    BY <1>1, <1>3, <2>2, <2>3, SameCall DEF AddInv, DeleteInv
<1>4. QED
  BY <1>2, <1>3 DEF TypeOK, Operations

LEMMA OwnStep ==
    ASSUME TypeOK, NEW p \in Callers, AddInv(p), DeleteInv(p),
           Step(p) \/ \E op \in Operations, t \in Tunnels : Start(p, op, t)
    PROVE  AddInv(p)' /\ DeleteInv(p)'
<1>1. CASE Commit(p)
  <2>1. pc'[p] = "idle"
    BY <1>1 DEF Commit, Return, TypeOK
  <2>2. QED
    BY <2>1 DEF AddInv, DeleteInv, Undisturbed, Busy, Asleep
<1>2. QED
  BY <1>1, OwnStart, OwnSwitch, OwnEditTunnel, OwnLookup, OwnGetMembers, OwnEditMembership,
     OwnEditMonitoring DEF Step

--------------------------------------------------------------------------------
(* What a nil return promises.                                             *)

LEMMA NextInv == TypeOK /\ CallInv /\ [Next]_vars => CallInv'
<1>1. SUFFICES ASSUME TypeOK, CallInv, [Next]_vars, NEW p \in Callers
               PROVE  AddInv(p)' /\ DeleteInv(p)'
  BY DEF CallInv
<1>2. AddInv(p) /\ DeleteInv(p)
  BY <1>1 DEF CallInv
<1>3. ASSUME NEW q \in Callers, Step(q) \/ \E op \in Operations, t \in Tunnels : Start(q, op, t)
      PROVE  AddInv(p)' /\ DeleteInv(p)'
  <2>1. CASE q = p
    BY <1>1, <1>2, <1>3, <2>1, OwnStep
  <2>2. CASE q # p
    BY <1>1, <1>2, <1>3, <2>2, OtherStepSpares, SparedInv
  <2>3. QED
    BY <2>1, <2>2
<1>4. CASE UNCHANGED vars
  BY <1>2, <1>4, SameCall DEF vars, AddInv, DeleteInv, Undisturbed, Busy, Configured
<1>5. QED
  BY <1>1, <1>3, <1>4 DEF Next

LEMMA InitInv == Init => CallInv
BY DEF Init, CallInv, AddInv, DeleteInv, Undisturbed, Busy, Asleep

\* A call only returns nil from its own commit.
LEMMA NilReturn ==
    ASSUME TypeOK, [Next]_vars, NEW p \in Callers, NEW op, Returned(p, op, "nil")
    PROVE  pc[p] = "commit" /\ running' = candidate /\ call[p].op = op
<1>1. Busy(p) /\ reply[p] = "none" /\ reply'[p] = "nil" /\ call[p].op = op
  BY DEF Returned
<1>2. PICK q \in Callers : Step(q) \/ \E o \in Operations, t \in Tunnels : Start(q, o, t)
  BY <1>1 DEF Next, vars
<1>3. q = p
  BY <1>1, <1>2, OtherStepSpares DEF Spared
<1>4. ~ \E o \in Operations, t \in Tunnels : Start(p, o, t)
  BY <1>1 DEF Start
<1>5. Commit(p)
  BY <1>1, <1>2, <1>3, <1>4
  DEF Step, Switch, EditTunnel, GetExplicitPath, NoExplicitPath, GetInterfaceConnectedTo,
      GetInterfaceByDescription, GetInterface, GetMembers, EditMembership, EditMonitoring,
      AddSiInterface, DeleteSiInterface, AddInterfaceFlowMonitoring,
      DeleteInterfaceFlowMonitoring, Edit, GiveUp, Miss, Fail, Goto, Return, TypeOK
<1>6. QED
  BY <1>1, <1>5 DEF Commit, Return, TypeOK

\* AddTunnel never reports success for a tunnel, a membership or flow monitoring that is
\* not running, however many processes edit and commit the shared candidate and whichever
\* RPCs fail, unless a lookup of its own failed or another process edited the same tunnel
\* or interface.
THEOREM AddTunnelComplete == Spec => AddComplete
<1>1. ASSUME TypeOK, CallInv, [Next]_vars, NEW p \in Callers,
             Returned(p, "add", "nil"), ~ missed[p], ~ crossed[p]
      PROVE  /\ Kind(p) = "rsvp" => Tunnel(p) \in running'.tunnels
             /\ Kind(p) = "vxlan" => InterfaceOf[Tunnel(p)] \in running'.enabled
             /\ InterfaceOf[Tunnel(p)] \in running'.si \cap running'.monitored
  <2>1. pc[p] = "commit" /\ running' = candidate /\ call[p].op = "add"
    BY <1>1, NilReturn
  <2>2. Undisturbed(p)
    BY <1>1 DEF Undisturbed, Returned
  <2>3. QED
    BY <1>1, <2>1, <2>2 DEF CallInv, AddInv, Configured, Path
<1>2. TypeOK /\ CallInv /\ [Next]_vars
         => [\A p \in Callers :
                Returned(p, "add", "nil") /\ ~ missed[p] /\ ~ crossed[p] =>
                   /\ Kind(p) = "rsvp" => Tunnel(p) \in running'.tunnels
                   /\ Kind(p) = "vxlan" => InterfaceOf[Tunnel(p)] \in running'.enabled
                   /\ InterfaceOf[Tunnel(p)] \in running'.si \cap running'.monitored]_vars
  BY <1>1
<1>3. QED
  BY <1>2, InitType, NextType, InitInv, NextInv, PTL DEF Spec, AddComplete

\* DeleteTunnel never reports success for an RSVP tunnel or a membership that is still
\* running, under the same conditions and if no failed call had left anything of the
\* tunnel in the candidate.
THEOREM DeleteTunnelComplete == Spec => DeleteComplete
<1>1. ASSUME TypeOK, CallInv, [Next]_vars, NEW p \in Callers,
             Returned(p, "delete", "nil"), ~ missed[p], ~ crossed[p], clean[p]
      PROVE  /\ Kind(p) = "rsvp" => Tunnel(p) \notin running'.tunnels
             /\ InterfaceOf[Tunnel(p)] \notin running'.si
  <2>1. pc[p] = "commit" /\ running' = candidate /\ call[p].op = "delete"
    BY <1>1, NilReturn
  <2>2. Undisturbed(p)
    BY <1>1 DEF Undisturbed, Returned
  <2>3. QED
    BY <1>1, <2>1, <2>2 DEF CallInv, DeleteInv, Path
<1>2. TypeOK /\ CallInv /\ [Next]_vars
         => [\A p \in Callers :
                Returned(p, "delete", "nil") /\ ~ missed[p] /\ ~ crossed[p] /\ clean[p] =>
                   /\ Kind(p) = "rsvp" => Tunnel(p) \notin running'.tunnels
                   /\ InterfaceOf[Tunnel(p)] \notin running'.si]_vars
  BY <1>1
<1>3. QED
  BY <1>2, InitType, NextType, InitInv, NextInv, PTL DEF Spec, DeleteComplete

--------------------------------------------------------------------------------
(* What a DeleteTunnel that failed leaves.                                 *)

\* Does a call of process p edit the tunnel itself?
AtTunnel(p, t) == Kind(p) = "rsvp" /\ Tunnel(p) = t

\* A process that is not yet editing starts to with the tunnel, and is refused if the
\* candidate does not have what it deletes.
LEMMA EditTunnelRefused ==
    ASSUME TypeOK, NEW q \in Callers, NEW t \in Tunnels, t \notin candidate.tunnels,
           EditTunnel(q), AtTunnel(q, t), call[q].op # "add"
    PROVE  pc'[q] = "idle" /\ candidate' = candidate
<1>1. /\ TunnelDeleted(q) = [candidate EXCEPT !.tunnels = @ \ {t}]
      /\ ~ (Tunnel(q) \in candidate.tunnels)
  BY DEF AtTunnel, TunnelDeleted
<1>2. call[q].op = "delete"
  BY DEF TypeOK, Operations
<1>3. Edit(q, TunnelDeleted(q), FALSE, "path")
  BY <1>1, <1>2 DEF EditTunnel, AtTunnel
<1>4. QED
  BY <1>3 DEF Edit, GiveUp, Fail, Return, TypeOK

LEMMA StrandedCandidate ==
    ASSUME TypeOK, NEW q \in Callers, NEW t \in Tunnels, t \notin candidate.tunnels,
           Step(q), AtTunnel(q, t) => call[q].op # "add"
    PROVE  t \notin candidate'.tunnels
<1>1. candidate \in Config
  BY DEF TypeOK
<1>2. CASE EditTunnel(q)
  <2>1. PICK new \in {TunnelAdded(q), TunnelDeleted(q)} :
           candidate' \in {candidate, new} /\ (new = TunnelAdded(q) \/ call[q].op # "add")
                                         /\ (new = TunnelDeleted(q) \/ call[q].op = "add")
    BY <1>2 DEF EditTunnel, Edit
  <2>2. t \notin TunnelDeleted(q).tunnels
    BY <1>1 DEF TunnelDeleted, Config
  <2>3. call[q].op = "add" => t \notin TunnelAdded(q).tunnels
    BY <1>1 DEF TunnelAdded, Config, AtTunnel
  <2>4. QED
    BY <2>1, <2>2, <2>3
<1>3. CASE EditMembership(q) \/ EditMonitoring(q)
  BY <1>1, <1>3 DEF EditMembership, EditMonitoring, AddSiInterface, DeleteSiInterface,
     AddInterfaceFlowMonitoring, DeleteInterfaceFlowMonitoring, Edit, Config
<1>4. CASE ~ (EditTunnel(q) \/ EditMembership(q) \/ EditMonitoring(q))
  BY <1>4 DEF Step, Switch, GetExplicitPath, NoExplicitPath, GetInterfaceConnectedTo,
     GetInterfaceByDescription, GetInterface, GetMembers, Commit
<1>5. QED
  BY <1>2, <1>3, <1>4

\* Only the interface of a VXLAN is looked up by its description.
DescriptionInv == \A p \in Callers : pc[p] = "description" => Kind(p) = "vxlan"

LEMMA DescriptionNext == TypeOK /\ DescriptionInv /\ [Next]_vars => DescriptionInv'
<1>1. ASSUME TypeOK, DescriptionInv, NEW q \in Callers, Step(q) PROVE DescriptionInv'
  <2>1. call' = call
    BY <1>1 DEF Step, Switch, EditTunnel, GetExplicitPath, NoExplicitPath, GetInterface,
       GetInterfaceConnectedTo, GetInterfaceByDescription, GetMembers, EditMembership,
       EditMonitoring, AddSiInterface, DeleteSiInterface, AddInterfaceFlowMonitoring,
       DeleteInterfaceFlowMonitoring, Edit, Commit
  <2>2. ASSUME NEW p \in Callers PROVE pc'[p] = "description" => Kind(p) = "vxlan"
    <3>1. CASE p = q
      <4>1. CASE Switch(q)
        BY <1>1, <3>1, <4>1 DEF Switch, Goto, Return, TypeOK
      <4>2. CASE ~ Switch(q)
        BY <1>1, <3>1, <4>2 DEF Step, EditTunnel, GetExplicitPath, NoExplicitPath,
           GetInterface, GetInterfaceConnectedTo, GetInterfaceByDescription, GetMembers,
           EditMembership, EditMonitoring, AddSiInterface, DeleteSiInterface,
           AddInterfaceFlowMonitoring, DeleteInterfaceFlowMonitoring, AfterInterface, Edit,
           GiveUp, Miss, Fail, Commit, Goto, Return, TypeOK
      <4>3. QED
        BY <4>1, <4>2
    <3>2. CASE p # q
      BY <1>1, <3>2, OtherStepSpares DEF Spared, DescriptionInv
    <3>3. QED
      BY <3>1, <3>2
  <2>3. QED
    BY <2>1, <2>2, SameCall DEF DescriptionInv
<1>2. ASSUME TypeOK, DescriptionInv, NEW q \in Callers, NEW op \in Operations, NEW t \in Tunnels,
             Start(q, op, t)
      PROVE  DescriptionInv'
  BY <1>2 DEF Start, DescriptionInv, Kind, Tunnel, TypeOK
<1>3. ASSUME DescriptionInv, UNCHANGED vars PROVE DescriptionInv'
  BY <1>3, SameCall DEF vars, DescriptionInv
<1>4. QED
  BY <1>1, <1>2, <1>3 DEF Next

\* Who begins to edit does so with EditTunnel.
LEMMA EditingBegins ==
    ASSUME TypeOK, DescriptionInv, NEW q \in Callers, Step(q), Editing(q)'
    PROVE  Editing(q) \/ EditTunnel(q)
<1>1. CASE Switch(q)
  BY <1>1 DEF Switch, Goto, Return, TypeOK, Editing
<1>2. CASE GetInterfaceByDescription(q)
  <2>1. Kind(q) = "vxlan"
    BY <1>2 DEF GetInterfaceByDescription, DescriptionInv
  <2>2. pc'[q] \in {"edit", "idle"}
    BY <1>2, <2>1 DEF GetInterfaceByDescription, GetInterface, Miss, Fail, Goto, Return, TypeOK
  <2>3. QED
    BY <2>2 DEF Editing
<1>3. CASE GetExplicitPath(q) \/ NoExplicitPath(q) \/ GetInterfaceConnectedTo(q)
           \/ GetMembers(q) \/ EditMembership(q) \/ EditMonitoring(q) \/ Commit(q)
  BY <1>3 DEF GetExplicitPath, NoExplicitPath, GetInterfaceConnectedTo, GetMembers,
              EditMembership, EditMonitoring, Commit, Editing
<1>4. QED
  BY <1>1, <1>2, <1>3 DEF Step

LEMMA StrandedStep ==
    ASSUME TypeOK, DescriptionInv, NEW q \in Callers, Step(q), NEW t \in Tunnels, Stranded(t),
           ~ (pc[q] = "commit" /\ pc'[q] # "commit"),
           ~ (Busy(q) /\ call[q] = [op |-> "add", tunnel |-> t])
    PROVE  Stranded(t)'
<1>1. t \in running.tunnels /\ t \notin candidate.tunnels /\ KindOf[t] = "rsvp"
  BY DEF Stranded
<1>2. ~ Commit(q)
  BY DEF Commit, Return, TypeOK
<1>3. UNCHANGED <<running, call>>
  BY <1>2 DEF Step, Switch, EditTunnel, GetExplicitPath, NoExplicitPath, GetInterface,
       GetInterfaceConnectedTo, GetInterfaceByDescription, GetMembers, EditMembership,
       EditMonitoring, AddSiInterface, DeleteSiInterface, AddInterfaceFlowMonitoring,
       DeleteInterfaceFlowMonitoring, Edit
<1>4. Busy(q)
  BY DEF Step, Switch, EditTunnel, GetExplicitPath, NoExplicitPath, GetInterface,
       GetInterfaceConnectedTo, GetInterfaceByDescription, GetMembers, EditMembership,
       EditMonitoring, Commit, Busy, Asleep
<1>5. AtTunnel(q, t) => call[q].op # "add"
  BY <1>4 DEF AtTunnel, Tunnel, TypeOK
<1>6. t \notin candidate'.tunnels
  BY <1>1, <1>5, StrandedCandidate
<1>7. ASSUME NEW p \in Callers, Editing(p)' PROVE ~ AtTunnel(p, t)
  <2>1. CASE Editing(p)
    BY <2>1 DEF Stranded, AtTunnel
  <2>2. CASE ~ Editing(p)
    <3>1. p = q
      BY <1>7, <2>2, OtherStepSpares DEF Spared, Editing
    <3>2. EditTunnel(q)
      BY <1>7, <2>2, <3>1, EditingBegins
    <3>3. pc'[q] # "idle"
      BY <1>7, <3>1 DEF Editing
    <3>4. QED
      BY <1>1, <1>5, <3>1, <3>2, <3>3, EditTunnelRefused
  <2>3. QED
    BY <2>1, <2>2
<1>8. QED
  BY <1>1, <1>3, <1>6, <1>7, SameCall DEF Stranded, AtTunnel

\* For any number of processes, tunnels and failures: a deletion that was edited and not
\* committed stays unpublished, and the tunnel running, through every retry, until another
\* operation commits or AddTunnel is called for the tunnel.
THEOREM RetriesRefused == Spec => StrandedStays
<1>1. Init => DescriptionInv
  BY DEF Init, DescriptionInv
<1>2. ASSUME TypeOK, DescriptionInv, Next, NEW t \in Tunnels, Stranded(t)
      PROVE  \/ Stranded(t)'
             \/ \E p \in Callers : pc[p] = "commit" /\ pc'[p] # "commit"
             \/ \E p \in Callers : Busy(p) /\ call[p] = [op |-> "add", tunnel |-> t]
  <2>1. CASE \E q \in Callers : Step(q)
    BY <1>2, <2>1, StrandedStep
  <2>2. ASSUME NEW q \in Callers, NEW op \in Operations, NEW u \in Tunnels, Start(q, op, u)
        PROVE  Stranded(t)'
    <3>1. UNCHANGED <<running, candidate>> /\ ~ Editing(q)'
      BY <1>2, <2>2 DEF Start, Editing, TypeOK
    <3>2. \A p \in Callers \ {q} : /\ Editing(p)' = Editing(p) /\ Tunnel(p)' = Tunnel(p)
                                   /\ Kind(p)' = Kind(p)
      BY <1>2, <2>2 DEF Start, Editing, Tunnel, Kind, TypeOK
    <3>3. QED
      BY <1>2, <3>1, <3>2 DEF Stranded
  <2>3. QED
    BY <1>2, <2>1, <2>2 DEF Next
<1>3. TypeOK /\ DescriptionInv /\ [Next]_vars
        => [\A t \in Tunnels :
              Stranded(t) => \/ Stranded(t)'
                             \/ \E p \in Callers : pc[p] = "commit" /\ pc'[p] # "commit"
                             \/ \E p \in Callers :
                                   Busy(p) /\ call[p] = [op |-> "add", tunnel |-> t]]_vars
  BY <1>2
<1>4. QED
  BY <1>1, <1>3, InitType, NextType, DescriptionNext, PTL DEF Spec, StrandedStays

--------------------------------------------------------------------------------
(* A tunnel runs with all its parts or none.                               *)

Alone(t) == \A u \in Tunnels \ {t} : ~ Shares(t, u)

\* A configuration in which each tunnel that has its interface to itself has all its
\* parts or none.
Together(c) == \A t \in Tunnels : Alone(t) =>
    /\ InterfaceOf[t] \in c.si <=> InterfaceOf[t] \in c.monitored
    /\ InterfaceOf[t] \in c.si => t \in c.tunnels \/ InterfaceOf[t] \in c.enabled
    /\ t \in c.tunnels => InterfaceOf[t] \in c.si

OnlyRsvp(c) == \A t \in c.tunnels : KindOf[t] = "rsvp"

\* Where a call is tells what it is at.
PlaceOK(p) ==
    /\ ~ trouble /\ pc[p] \notin Asleep \cup {"type"} =>
          Kind(p) = KindOf[Tunnel(p)] /\ Kind(p) \in {"rsvp", "vxlan"}
    /\ pc[p] \in {"path", "addresses"} => Kind(p) = "rsvp"
    /\ pc[p] = "description" => Kind(p) = "vxlan"
    /\ call[p].op = "add" => pc[p] # "list"

SameMembership(p) ==
    /\ Path(p) \in candidate.si <=> Path(p) \in running.si
    /\ Path(p) \in candidate.monitored <=> Path(p) \in running.monitored

\* What the candidate holds when p alone has edits in it: p's tunnel apart, what is
\* running, and of p's tunnel what p has come to.  The commit publishes membership and
\* monitoring together because what is not edited was the same in running.
OwnEdits(p) ==
    /\ \A u \in Tunnels : ~ Shares(Tunnel(p), u) => PartsOf(candidate, u) = PartsOf(running, u)
    /\ Kind(p) = "rsvp" => (Tunnel(p) \in candidate.tunnels <=> call[p].op = "add")
    /\ Kind(p) = "vxlan" /\ call[p].op = "add" => Path(p) \in candidate.enabled
    /\ pc[p] \in {"path", "addresses", "list", "si"} => SameMembership(p)
    /\ pc[p] = "monitoring" => (Path(p) \in candidate.si <=> call[p].op = "add")
    /\ pc[p] = "commit" /\ ~ missed[p] =>
          /\ Path(p) \in candidate.si <=> call[p].op = "add"
          /\ Alone(Tunnel(p)) => (Path(p) \in candidate.monitored <=> Path(p) \in candidate.si)

PlaceInv == \A p \in Callers : PlaceOK(p)

PartsInv == ~ trouble =>
    /\ OnlyRsvp(running) /\ OnlyRsvp(candidate) /\ Together(running)
    /\ (\A p \in Callers : ~ Editing(p)) => candidate = running
    /\ \A p \in Callers : Editing(p) /\ ~ OthersEditing(p) => OwnEdits(p)

LEMMA TroubleStays == ASSUME [Next]_vars, trouble PROVE trouble'
<1>1. CASE UNCHANGED vars
  BY <1>1 DEF vars
<1>2. ASSUME NEW p, Abandon(p) \/ UNCHANGED trouble PROVE trouble'
  BY <1>2, Zenon DEF Abandon
<1>3. ASSUME NEW p, NEW new, NEW allowed, NEW next, Edit(p, new, allowed, next) PROVE trouble'
  BY <1>2, <1>3, Zenon DEF Edit, GiveUp, Fail
<1>4. ASSUME NEW p, Miss(p) PROVE trouble'
  BY <1>2, <1>4, Zenon DEF Miss, Fail
<1>5. ASSUME NEW p, Switch(p) \/ Commit(p) PROVE trouble'
  BY <1>5, Zenon DEF Switch, Commit
<1>6. ASSUME NEW p, EditTunnel(p) \/ EditMembership(p) \/ EditMonitoring(p) PROVE trouble'
  BY <1>3, <1>6, Zenon DEF EditTunnel, EditMembership, EditMonitoring, AddSiInterface,
     DeleteSiInterface, AddInterfaceFlowMonitoring, DeleteInterfaceFlowMonitoring
<1>7. ASSUME NEW p, \/ GetExplicitPath(p) \/ NoExplicitPath(p) \/ GetMembers(p)
                    \/ GetInterfaceConnectedTo(p) \/ GetInterfaceByDescription(p)
      PROVE  trouble'
  BY <1>2, <1>4, <1>7, Zenon DEF GetExplicitPath, NoExplicitPath, GetMembers,
     GetInterfaceConnectedTo, GetInterfaceByDescription, GetInterface
<1>8. ASSUME NEW p, NEW op, NEW t, Start(p, op, t) PROVE trouble'
  BY <1>8 DEF Start
<1>9. QED
  BY <1>1, <1>5, <1>6, <1>7, <1>8 DEF Next, Step

\* Where a step takes the process.
LEMMA Moves ==
    ASSUME TypeOK, NEW p \in Callers, Step(p)
    PROVE  /\ call' = call
           /\ Switch(p) => \/ pc'[p] = "idle"
                           \/ pc'[p] = "edit" /\ Kind(p) = "rsvp"
                           \/ pc'[p] = "description" /\ Kind(p) = "vxlan"
           /\ EditTunnel(p) => pc'[p] = "idle" \/ IF Kind(p) = "rsvp"
                                                  THEN pc'[p] = "path"
                                                  ELSE pc'[p] = AfterInterface(p)
           /\ GetExplicitPath(p) => pc'[p] \in {"addresses", "commit", "idle"}
           /\ NoExplicitPath(p) => pc'[p] = "panicked"
           /\ GetInterfaceConnectedTo(p) => pc'[p] \in {AfterInterface(p), "commit", "idle"}
           /\ GetInterfaceByDescription(p) => \/ pc'[p] \in {"edit", "idle"}
                                              \/ pc'[p] = "commit" /\ Kind(p) = "rsvp"
           /\ GetMembers(p) => pc'[p] \in {"si", "commit"}
           /\ EditMembership(p) => pc'[p] \in {"monitoring", "idle"}
           /\ EditMonitoring(p) => pc'[p] \in {"commit", "idle"}
           /\ Commit(p) => pc'[p] = "idle"
<1>1. EditTunnel(p) => /\ call' = call
                       /\ pc'[p] = "idle" \/ IF Kind(p) = "rsvp"
                                             THEN pc'[p] = "path"
                                             ELSE pc'[p] = AfterInterface(p)
  BY DEF EditTunnel, Edit, GiveUp, Fail, Goto, Return, TypeOK
<1>2. /\ EditMembership(p) => call' = call /\ pc'[p] \in {"monitoring", "idle"}
      /\ EditMonitoring(p) => call' = call /\ pc'[p] \in {"commit", "idle"}
  BY DEF EditMembership, EditMonitoring, AddSiInterface, DeleteSiInterface,
     AddInterfaceFlowMonitoring, DeleteInterfaceFlowMonitoring, Edit, GiveUp, Fail, Goto,
     Return, TypeOK
<1>3. Switch(p) => /\ call' = call
                   /\ \/ pc'[p] = "idle"
                      \/ pc'[p] = "edit" /\ Kind(p) = "rsvp"
                      \/ pc'[p] = "description" /\ Kind(p) = "vxlan"
  BY DEF Switch, Goto, Return, TypeOK
<1>4. ASSUME Miss(p) PROVE pc'[p] = "idle" \/ (pc'[p] = "commit" /\ Kind(p) = "rsvp")
  BY <1>4 DEF Miss, Fail, Goto, Return, TypeOK
<1>5. ASSUME NEW next, GetInterface(p, next)
      PROVE  call' = call /\ \/ pc'[p] \in {next, "idle"}
                             \/ pc'[p] = "commit" /\ Kind(p) = "rsvp"
  BY <1>4, <1>5 DEF GetInterface, Goto, TypeOK
<1>6. /\ GetExplicitPath(p) => call' = call /\ pc'[p] \in {"addresses", "commit", "idle"}
      /\ NoExplicitPath(p) => call' = call /\ pc'[p] = "panicked"
  BY <1>4 DEF GetExplicitPath, NoExplicitPath, Goto, TypeOK
<1>7. /\ GetInterfaceConnectedTo(p)
           => call' = call /\ pc'[p] \in {AfterInterface(p), "commit", "idle"}
      /\ GetInterfaceByDescription(p)
           => call' = call /\ \/ pc'[p] \in {"edit", "idle"}
                              \/ pc'[p] = "commit" /\ Kind(p) = "rsvp"
  BY <1>5 DEF GetInterfaceConnectedTo, GetInterfaceByDescription
<1>8. /\ GetMembers(p) => call' = call /\ pc'[p] \in {"si", "commit"}
      /\ Commit(p) => call' = call /\ pc'[p] = "idle"
  BY DEF GetMembers, Commit, Goto, Return, TypeOK
<1>9. QED
  BY <1>1, <1>2, <1>3, <1>6, <1>7, <1>8 DEF Step

LEMMA PlaceNext == TypeOK /\ PlaceInv /\ [Next]_vars => PlaceInv'
<1>1. SUFFICES ASSUME TypeOK, PlaceInv, [Next]_vars, NEW p \in Callers PROVE PlaceOK(p)'
  BY DEF PlaceInv
<1>2. PlaceOK(p) /\ (~ trouble' => ~ trouble)
  BY <1>1, TroubleStays DEF PlaceInv
<1>3. CASE Step(p)
  <2>1. Tunnel(p)' = Tunnel(p) /\ Kind(p)' = Kind(p) /\ call'[p] = call[p]
    BY <1>1, <1>3, Moves, SameCall
  <2>2. CASE Switch(p)
    <3>1. ~ trouble' => Kind(p) = KindOf[Tunnel(p)]
      BY <2>2, Zenon DEF Switch
    <3>2. QED
      BY <1>1, <1>3, <2>1, <2>2, <3>1, Moves DEF PlaceOK, Asleep
  <2>3. CASE EditTunnel(p) \/ GetInterfaceConnectedTo(p) \/ GetInterfaceByDescription(p)
    <3>1. pc[p] \in {"edit", "addresses", "description"}
      BY <2>3 DEF EditTunnel, GetInterfaceConnectedTo, GetInterfaceByDescription
    <3>2. QED
      BY <1>1, <1>2, <1>3, <2>1, <2>3, <3>1, Moves DEF PlaceOK, Asleep, AfterInterface
  <2>4. CASE GetExplicitPath(p) \/ NoExplicitPath(p)
    BY <1>1, <1>2, <1>3, <2>1, <2>4, Moves
    DEF PlaceOK, Asleep, GetExplicitPath, NoExplicitPath
  <2>5. CASE GetMembers(p) \/ EditMembership(p) \/ EditMonitoring(p) \/ Commit(p)
    <3>1. pc[p] \in {"list", "si", "monitoring", "commit"}
      BY <2>5 DEF GetMembers, EditMembership, EditMonitoring, Commit
    <3>2. pc'[p] \in {"si", "monitoring", "commit", "idle"}
      BY <1>1, <1>3, <2>5, Moves
    <3>3. QED
      BY <1>2, <2>1, <3>1, <3>2 DEF PlaceOK, Asleep
  <2>6. QED
    BY <1>3, <2>2, <2>3, <2>4, <2>5 DEF Step
<1>4. ASSUME NEW op \in Operations, NEW t \in Tunnels, Start(p, op, t) PROVE PlaceOK(p)'
  BY <1>1, <1>4 DEF Start, PlaceOK, TypeOK
<1>5. ASSUME NEW q \in Callers \ {p},
             Step(q) \/ \E op \in Operations, t \in Tunnels : Start(q, op, t)
      PROVE  PlaceOK(p)'
  <2>1. pc'[p] = pc[p] /\ call'[p] = call[p]
    BY <1>1, <1>5, OtherStepSpares DEF Spared
  <2>2. QED
    BY <1>2, <2>1 DEF PlaceOK, Kind, Tunnel
<1>6. CASE UNCHANGED vars
  BY <1>2, <1>6 DEF vars, PlaceOK, Kind, Tunnel
<1>7. QED
  BY <1>1, <1>3, <1>4, <1>5, <1>6 DEF Next

\* An edit after which the call goes on is in the candidate.
LEMMA EditGoesOn ==
    ASSUME TypeOK, NEW p \in Callers, NEW new, NEW allowed, NEW next,
           Edit(p, new, allowed, next), pc'[p] # "idle"
    PROVE  pc'[p] = next /\ candidate' = new /\ UNCHANGED <<running, missed>>
BY DEF Edit, GiveUp, Fail, Return, Goto, TypeOK

\* Whoever stops editing without trouble was alone and leaves the candidate published.
LEMMA EditingEnds ==
    ASSUME TypeOK, NEW q \in Callers, Step(q), Editing(q) \/ EditTunnel(q), ~ Editing(q)',
           ~ trouble'
    PROVE  candidate' = running' /\ ~ OthersEditing(q)
<1>1. pc'[q] \notin {"path", "addresses", "list", "si", "monitoring", "commit"}
  BY DEF Editing
<1>2. ASSUME Abandon(q), running' = running PROVE candidate' = running' /\ ~ OthersEditing(q)
  <2>1. candidate' = running /\ ~ OthersEditing(q)
    BY <1>2, Zenon DEF Abandon
  <2>2. QED
    BY <1>2, <2>1
<1>3. CASE Commit(q)
  <2>1. running' = candidate /\ ~ OthersEditing(q)
    BY <1>3, Zenon DEF Commit
  <2>2. QED
    BY <1>3, <2>1 DEF Commit
<1>4. CASE EditTunnel(q) \/ EditMembership(q) \/ EditMonitoring(q)
  <2>1. Abandon(q) /\ running' = running
    <3>1. CASE EditTunnel(q)
      BY <1>1, <3>1 DEF EditTunnel, AfterInterface, Edit, GiveUp, Fail, Goto, TypeOK
    <3>2. CASE EditMembership(q)
      BY <1>1, <3>2
      DEF EditMembership, AddSiInterface, DeleteSiInterface, Edit, GiveUp, Fail, Goto, TypeOK
    <3>3. CASE EditMonitoring(q)
      BY <1>1, <3>3 DEF EditMonitoring, AddInterfaceFlowMonitoring,
         DeleteInterfaceFlowMonitoring, Edit, GiveUp, Fail, Goto, TypeOK
    <3>4. QED
      BY <1>4, <3>1, <3>2, <3>3
  <2>2. QED
    BY <1>2, <2>1
<1>5. CASE GetExplicitPath(q) \/ NoExplicitPath(q) \/ GetInterfaceConnectedTo(q)
  <2>1. Abandon(q) /\ running' = running
    BY <1>1, <1>5 DEF GetExplicitPath, NoExplicitPath, GetInterfaceConnectedTo, GetInterface,
       AfterInterface, Miss, Fail, Goto, TypeOK
  <2>2. QED
    BY <1>2, <2>1
<1>6. CASE GetMembers(q)
  BY <1>1, <1>6, Moves
<1>7. ~ (Switch(q) \/ GetInterfaceByDescription(q))
  BY DEF Switch, GetInterfaceByDescription, EditTunnel, Editing
<1>8. QED
  BY <1>3, <1>4, <1>5, <1>6, <1>7 DEF Step

\* Who is not at its edits leaves the configurations alone.
LEMMA NotEditing ==
    ASSUME NEW q \in Callers, Step(q), ~ Editing(q), ~ EditTunnel(q)
    PROVE  UNCHANGED <<running, candidate>>
BY DEF Step, Switch, GetExplicitPath, NoExplicitPath, GetInterfaceConnectedTo,
       GetInterfaceByDescription, GetInterface, GetMembers, EditMembership, EditMonitoring,
       Commit, Editing

LEMMA EditTunnelOwn ==
    ASSUME TypeOK, NEW p \in Callers, candidate = running, EditTunnel(p), Editing(p)'
    PROVE  OwnEdits(p)'
<1> DEFINE new == IF call[p].op = "add" THEN TunnelAdded(p) ELSE TunnelDeleted(p)
           allowed == Kind(p) = "rsvp" /\ call[p].op = "delete" => Tunnel(p) \in candidate.tunnels
           next == IF Kind(p) = "rsvp" THEN "path" ELSE AfterInterface(p)
<1>1. pc[p] = "edit" /\ Edit(p, new, allowed, next)
  BY DEF EditTunnel
<1>2. pc'[p] = next /\ candidate' = new /\ UNCHANGED <<running, missed>> /\ call' = call
  <2>1. pc'[p] # "idle" /\ call' = call
    BY DEF Editing, EditTunnel, Edit
  <2> HIDE DEF new, allowed, next
  <2>2. QED
    BY <1>1, <2>1, EditGoesOn
<1>3. candidate \in Config /\ (Kind(p) # "rsvp" => ifc[p] = Path(p))
  BY <1>1 DEF TypeOK, UsesFound, Path
<1>4. pc'[p] \notin {"monitoring", "commit"}
  BY <1>2 DEF AfterInterface
<1>5. ASSUME NEW u \in Tunnels, ~ Shares(Tunnel(p), u)
      PROVE  PartsOf(candidate', u) = PartsOf(running', u)
  <2>1. PartsOf(new, u) = PartsOf(candidate, u)
    BY <1>1, <1>5, NewParts
  <2>2. QED
    BY <1>2, <2>1
<1>6. candidate'.si = candidate.si /\ candidate'.monitored = candidate.monitored
  BY <1>2, <1>3 DEF TunnelAdded, TunnelDeleted, Config
<1>7. /\ Kind(p) = "rsvp" => (Tunnel(p) \in candidate'.tunnels <=> call[p].op = "add")
      /\ Kind(p) = "vxlan" /\ call[p].op = "add" => Path(p) \in candidate'.enabled
  BY <1>2, <1>3 DEF TunnelAdded, TunnelDeleted, Config
<1>8. SameMembership(p)'
  BY <1>2, <1>6, SameCall DEF SameMembership
<1>9. QED
  BY <1>2, <1>4, <1>5, <1>7, <1>8, SameCall DEF OwnEdits

\* Lookups leave the candidate, and an RSVP tunnel whose interface is missing is known.
LEMMA LookupOwn ==
    ASSUME TypeOK, NEW p \in Callers, OwnEdits(p), Editing(p)',
           GetExplicitPath(p) \/ GetInterfaceConnectedTo(p)
    PROVE  OwnEdits(p)'
<1>1. UNCHANGED <<running, candidate, call>> /\ pc[p] \in {"path", "addresses"}
  BY DEF GetExplicitPath, GetInterfaceConnectedTo, GetInterface
<1>2. SameMembership(p)
  BY <1>1 DEF OwnEdits
<1>3. (pc'[p] = "commit" /\ missed'[p]) \/ pc'[p] \in {"addresses", "list", "si"}
  BY DEF GetExplicitPath, GetInterfaceConnectedTo, GetInterface, AfterInterface, Miss, Fail,
         Goto, Return, Editing, TypeOK
<1>4. SameMembership(p)'
  BY <1>1, <1>2, SameCall DEF SameMembership
<1>5. QED
  BY <1>1, <1>3, <1>4, SameCall DEF OwnEdits

LEMMA GetMembersOwn ==
    ASSUME TypeOK, NEW p \in Callers, OwnEdits(p), PlaceOK(p), Together(running), GetMembers(p)
    PROVE  OwnEdits(p)'
<1>1. UNCHANGED <<running, candidate, call>> /\ pc[p] = "list"
  BY DEF GetMembers
<1>2. SameMembership(p) /\ ifc[p] = Path(p) /\ call[p].op # "add" /\ Tunnel(p) \in Tunnels
  BY <1>1, KindType DEF OwnEdits, PlaceOK, TypeOK, UsesFound, Path
<1>3. \/ pc'[p] = "si"
      \/ pc'[p] = "commit" /\ missed'[p]
      \/ pc'[p] = "commit" /\ Path(p) \notin running.si
  BY <1>2 DEF GetMembers, IsMember, Goto, TypeOK
<1>4. SameMembership(p)'
  BY <1>1, <1>2, SameCall DEF SameMembership
<1>5. ASSUME pc'[p] = "commit", ~ missed'[p]
      PROVE  /\ Path(p) \in candidate.si <=> call[p].op = "add"
             /\ Alone(Tunnel(p)) => (Path(p) \in candidate.monitored <=> Path(p) \in candidate.si)
  <2>1. Path(p) \notin running.si /\ Path(p) \notin candidate.si
    BY <1>2, <1>3, <1>5 DEF SameMembership
  <2>2. Alone(Tunnel(p)) => Path(p) \notin running.monitored
    BY <1>2, <2>1 DEF Together, Path
  <2>3. QED
    BY <1>2, <2>1, <2>2 DEF SameMembership
<1>6. QED
  BY <1>1, <1>3, <1>4, <1>5, SameCall DEF OwnEdits

LEMMA EditMembershipOwn ==
    ASSUME TypeOK, NEW p \in Callers, OwnEdits(p), EditMembership(p), Editing(p)'
    PROVE  OwnEdits(p)'
<1>1. pc[p] = "si" /\ ifc[p] = Path(p) /\ candidate \in Config /\ call[p].op \in Operations
  BY DEF EditMembership, TypeOK, UsesFound, Path
<1>2. pc'[p] # "idle" /\ call' = call
  BY DEF Editing, EditMembership, AddSiInterface, DeleteSiInterface, Edit
<1>3. PICK new \in {[candidate EXCEPT !.si = @ \cup {ifc[p]}],
                    [candidate EXCEPT !.si = @ \ {ifc[p]}]} :
         /\ \E allowed : Edit(p, new, allowed, "monitoring")
         /\ new = IF call[p].op = "add" THEN [candidate EXCEPT !.si = @ \cup {ifc[p]}]
                                        ELSE [candidate EXCEPT !.si = @ \ {ifc[p]}]
  BY DEF EditMembership, AddSiInterface, DeleteSiInterface
<1>4. pc'[p] = "monitoring" /\ candidate' = new /\ UNCHANGED <<running, missed>>
  BY <1>2, <1>3, EditGoesOn
<1>5. ASSUME NEW u \in Tunnels, ~ Shares(Tunnel(p), u)
      PROVE  PartsOf(candidate', u) = PartsOf(running', u)
  BY <1>1, <1>3, <1>4, <1>5, NewParts DEF OwnEdits
<1>6. /\ candidate'.tunnels = candidate.tunnels /\ candidate'.enabled = candidate.enabled
      /\ Path(p) \in candidate'.si <=> call[p].op = "add"
  BY <1>1, <1>3, <1>4 DEF Config
<1>7. QED
  BY <1>2, <1>4, <1>5, <1>6, SameCall DEF OwnEdits

LEMMA EditMonitoringOwn ==
    ASSUME TypeOK, NEW p \in Callers, OwnEdits(p), EditMonitoring(p), Editing(p)'
    PROVE  OwnEdits(p)'
<1>1. pc[p] = "monitoring" /\ ifc[p] = Path(p) /\ candidate \in Config
  BY DEF EditMonitoring, TypeOK, UsesFound, Path
<1>2. pc'[p] # "idle" /\ call' = call
  BY DEF Editing, EditMonitoring, AddInterfaceFlowMonitoring, DeleteInterfaceFlowMonitoring, Edit
<1>3. PICK new \in {[candidate EXCEPT !.monitored = @ \cup {ifc[p]}],
                    [candidate EXCEPT !.monitored = @ \ {ifc[p]}]} :
         /\ \E allowed : Edit(p, new, allowed, "commit")
         /\ new = IF call[p].op = "add" THEN [candidate EXCEPT !.monitored = @ \cup {ifc[p]}]
                                        ELSE [candidate EXCEPT !.monitored = @ \ {ifc[p]}]
  BY DEF EditMonitoring, AddInterfaceFlowMonitoring, DeleteInterfaceFlowMonitoring
<1>4. pc'[p] = "commit" /\ candidate' = new /\ UNCHANGED <<running, missed>>
  BY <1>2, <1>3, EditGoesOn
<1>5. ASSUME NEW u \in Tunnels, ~ Shares(Tunnel(p), u)
      PROVE  PartsOf(candidate', u) = PartsOf(running', u)
  BY <1>1, <1>3, <1>4, <1>5, NewParts DEF OwnEdits
<1>6. /\ candidate'.tunnels = candidate.tunnels /\ candidate'.enabled = candidate.enabled
      /\ candidate'.si = candidate.si
      /\ Path(p) \in candidate'.monitored <=> call[p].op = "add"
  BY <1>1, <1>3, <1>4 DEF Config
<1>7. Path(p) \in candidate.si <=> call[p].op = "add"
  BY <1>1 DEF OwnEdits
<1>8. QED
  BY <1>2, <1>4, <1>5, <1>6, <1>7, SameCall DEF OwnEdits

\* What a process publishes that alone has edits and missed nothing.
LEMMA CommitTogether ==
    ASSUME TypeOK, NEW p \in Callers, pc[p] = "commit", ~ missed[p], ~ trouble, PlaceOK(p),
           OwnEdits(p), OnlyRsvp(candidate), Together(running)
    PROVE  Together(candidate)
<1>1. Tunnel(p) \in Tunnels /\ Kind(p) = KindOf[Tunnel(p)] /\ Kind(p) \in {"rsvp", "vxlan"}
  BY KindType DEF PlaceOK, Asleep
<1>2. ASSUME NEW t \in Tunnels, Alone(t), t # Tunnel(p)
      PROVE  /\ InterfaceOf[t] \in candidate.si <=> InterfaceOf[t] \in candidate.monitored
             /\ InterfaceOf[t] \in candidate.si
                  => t \in candidate.tunnels \/ InterfaceOf[t] \in candidate.enabled
             /\ t \in candidate.tunnels => InterfaceOf[t] \in candidate.si
  <2>1. ~ Shares(Tunnel(p), t)
    BY <1>1, <1>2 DEF Alone, Shares
  <2>2. PartsOf(candidate, t) = PartsOf(running, t)
    BY <2>1 DEF OwnEdits
  <2>3. QED
    BY <1>2, <2>2 DEF PartsOf, Together
<1>3. ASSUME NEW t, t = Tunnel(p), Alone(t)
      PROVE  /\ InterfaceOf[t] \in candidate.si <=> InterfaceOf[t] \in candidate.monitored
             /\ InterfaceOf[t] \in candidate.si
                  => t \in candidate.tunnels \/ InterfaceOf[t] \in candidate.enabled
             /\ t \in candidate.tunnels => InterfaceOf[t] \in candidate.si
  <2>1. /\ InterfaceOf[t] \in candidate.si <=> call[p].op = "add"
        /\ InterfaceOf[t] \in candidate.monitored <=> InterfaceOf[t] \in candidate.si
        /\ Kind(p) = "rsvp" => (t \in candidate.tunnels <=> call[p].op = "add")
        /\ Kind(p) = "vxlan" /\ call[p].op = "add" => InterfaceOf[t] \in candidate.enabled
    BY <1>3 DEF OwnEdits, Path
  <2>2. t \in candidate.tunnels => Kind(p) = "rsvp"
    BY <1>1, <1>3 DEF OnlyRsvp
  <2>3. QED
    BY <1>1, <2>1, <2>2
<1>4. QED
  BY <1>2, <1>3 DEF Together

LEMMA OwnEditsStep ==
    ASSUME TypeOK, DescriptionInv, PlaceInv, PartsInv, NEW p \in Callers, Step(p), ~ trouble,
           Editing(p)', \A q \in Callers \ {p} : ~ Editing(q)
    PROVE  OwnEdits(p)'
<1>1. Editing(p) \/ EditTunnel(p)
  BY EditingBegins
<1>2. CASE EditTunnel(p)
  <2>1. candidate = running
    BY <1>2 DEF PartsInv, EditTunnel, Editing
  <2>2. QED
    BY <1>2, <2>1, EditTunnelOwn
<1>3. CASE Editing(p) /\ ~ EditTunnel(p)
  <2>1. OwnEdits(p) /\ PlaceOK(p) /\ Together(running)
    BY <1>3 DEF PartsInv, PlaceInv, OthersEditing
  <2>2. ~ (Switch(p) \/ GetInterfaceByDescription(p))
    BY <1>3 DEF Switch, GetInterfaceByDescription, Editing
  <2>3. ~ (NoExplicitPath(p) \/ Commit(p))
    BY Moves DEF Editing
  <2>4. QED
    BY <1>3, <2>1, <2>2, <2>3, LookupOwn, GetMembersOwn, EditMembershipOwn, EditMonitoringOwn
    DEF Step
<1>4. QED
  BY <1>1, <1>2, <1>3

LEMMA RsvpStep ==
    ASSUME TypeOK, PlaceInv, OnlyRsvp(running), OnlyRsvp(candidate), ~ trouble,
           NEW p \in Callers, Step(p)
    PROVE  OnlyRsvp(running') /\ OnlyRsvp(candidate')
<1>1. running' \in {running, candidate}
  BY DEF Step, Switch, EditTunnel, GetExplicitPath, NoExplicitPath, GetInterfaceConnectedTo,
         GetInterfaceByDescription, GetInterface, GetMembers, EditMembership, EditMonitoring,
         AddSiInterface, DeleteSiInterface, AddInterfaceFlowMonitoring,
         DeleteInterfaceFlowMonitoring, Edit, Commit
<1>2. candidate \in Config
  BY DEF TypeOK
<1>3. CASE EditTunnel(p)
  <2>1. pc[p] = "edit" /\ candidate' \in {candidate, TunnelAdded(p), TunnelDeleted(p)}
    BY <1>3 DEF EditTunnel, Edit
  <2>2. Kind(p) = KindOf[Tunnel(p)]
    BY <2>1 DEF PlaceInv, PlaceOK, Asleep
  <2>3. OnlyRsvp(TunnelAdded(p)) /\ OnlyRsvp(TunnelDeleted(p))
    BY <1>2, <2>2 DEF OnlyRsvp, TunnelAdded, TunnelDeleted, Config
  <2>4. QED
    BY <1>1, <2>1, <2>3
<1>4. CASE EditMembership(p) \/ EditMonitoring(p)
  <2>1. candidate'.tunnels = candidate.tunnels
    BY <1>2, <1>4 DEF EditMembership, EditMonitoring, AddSiInterface, DeleteSiInterface,
       AddInterfaceFlowMonitoring, DeleteInterfaceFlowMonitoring, Edit, Config
  <2>2. QED
    BY <1>1, <2>1 DEF OnlyRsvp
<1>5. CASE ~ (EditTunnel(p) \/ EditMembership(p) \/ EditMonitoring(p))
  <2>1. candidate' = candidate
    BY <1>5 DEF Step, Switch, GetExplicitPath, NoExplicitPath, GetInterfaceConnectedTo,
       GetInterfaceByDescription, GetInterface, GetMembers, Commit
  <2>2. QED
    BY <1>1, <2>1
<1>6. QED
  BY <1>3, <1>4, <1>5

LEMMA TogetherStep ==
    ASSUME TypeOK, PlaceInv, PartsInv, ~ trouble, ~ trouble', NEW p \in Callers, Step(p)
    PROVE  Together(running')
<1>1. Together(running) /\ OnlyRsvp(candidate)
  BY DEF PartsInv
<1>2. CASE Commit(p)
  <2>1. running' = candidate /\ ~ missed[p] /\ ~ OthersEditing(p)
    BY <1>2, Zenon DEF Commit
  <2>2. OwnEdits(p) /\ PlaceOK(p) /\ pc[p] = "commit"
    BY <1>2, <2>1 DEF PartsInv, PlaceInv, Commit, Editing
  <2>3. QED
    BY <1>1, <2>1, <2>2, CommitTogether
<1>3. CASE ~ Commit(p)
  <2>1. running' = running
    BY <1>3 DEF Step, Switch, EditTunnel, GetExplicitPath, NoExplicitPath,
       GetInterfaceConnectedTo, GetInterfaceByDescription, GetInterface, GetMembers,
       EditMembership, EditMonitoring, AddSiInterface, DeleteSiInterface,
       AddInterfaceFlowMonitoring, DeleteInterfaceFlowMonitoring, Edit
  <2>2. QED
    BY <1>1, <2>1
<1>4. QED
  BY <1>2, <1>3

\* The configurations of another process that alone has edits are left alone.
LEMMA OwnEditsStay ==
    ASSUME NEW p, OwnEdits(p), UNCHANGED <<running, candidate>>,
           pc'[p] = pc[p], call'[p] = call[p], missed'[p] = missed[p]
    PROVE  OwnEdits(p)'
<1>1. Tunnel(p)' = Tunnel(p) /\ Kind(p)' = Kind(p) /\ Path(p)' = Path(p)
  BY DEF Tunnel, Kind, Path
<1>2. SameMembership(p)' <=> SameMembership(p)
  BY <1>1 DEF SameMembership
<1>3. QED
  BY <1>1, <1>2 DEF OwnEdits

LEMMA PartsStep ==
    ASSUME TypeOK, DescriptionInv, PlaceInv, PartsInv, NEW q \in Callers, Step(q),
           ~ trouble, ~ trouble'
    PROVE  PartsInv'
<1>1. /\ OnlyRsvp(running) /\ OnlyRsvp(candidate)
      /\ (\A p \in Callers : ~ Editing(p)) => candidate = running
      /\ \A p \in Callers : Editing(p) /\ ~ OthersEditing(p) => OwnEdits(p)
  BY DEF PartsInv
<1>2. \A p \in Callers \ {q} : /\ pc'[p] = pc[p] /\ call'[p] = call[p]
                               /\ missed'[p] = missed[p] /\ Editing(p)' = Editing(p)
  BY OtherStepSpares DEF Spared, Editing
<1>3. OnlyRsvp(running') /\ OnlyRsvp(candidate') /\ Together(running')
  BY <1>1, RsvpStep, TogetherStep
<1>4. ASSUME \A p \in Callers : ~ Editing(p)' PROVE candidate' = running'
  <2>1. CASE Editing(q) \/ EditTunnel(q)
    BY <1>4, <2>1, EditingEnds
  <2>2. CASE ~ (Editing(q) \/ EditTunnel(q))
    BY <1>1, <1>2, <1>4, <2>2, NotEditing
  <2>3. QED
    BY <2>1, <2>2
<1>5. ASSUME NEW p \in Callers, Editing(p)', ~ OthersEditing(p)' PROVE OwnEdits(p)'
  <2>1. \A r \in Callers \ {p} : ~ Editing(r)'
    BY <1>5 DEF OthersEditing
  <2>2. CASE p = q
    BY <1>2, <1>5, <2>1, <2>2, OwnEditsStep
  <2>3. CASE p # q
    <3>1. Editing(p) /\ ~ Editing(q)'
      BY <1>2, <1>5, <2>1, <2>3
    <3>2. ~ (Editing(q) \/ EditTunnel(q))
      BY <2>3, <3>1, EditingEnds DEF OthersEditing
    <3>3. UNCHANGED <<running, candidate>> /\ ~ OthersEditing(p)
      BY <1>2, <2>1, <3>2, NotEditing DEF OthersEditing
    <3>4. OwnEdits(p)
      BY <1>1, <3>1, <3>3
    <3>5. QED
      BY <1>2, <2>3, <3>3, <3>4, OwnEditsStay
  <2>4. QED
    BY <2>2, <2>3
<1>6. QED
  BY <1>3, <1>4, <1>5 DEF PartsInv, OnlyRsvp, Together

LEMMA PartsNext == TypeOK /\ DescriptionInv /\ PlaceInv /\ PartsInv /\ [Next]_vars => PartsInv'
<1>1. SUFFICES ASSUME TypeOK, DescriptionInv, PlaceInv, PartsInv, [Next]_vars, ~ trouble'
               PROVE  PartsInv'
  BY DEF PartsInv
<1>2. ~ trouble
  BY <1>1, TroubleStays
<1>3. ASSUME NEW q \in Callers, Step(q) PROVE PartsInv'
  BY <1>1, <1>2, <1>3, PartsStep
<1>4. ASSUME NEW q \in Callers, NEW op \in Operations, NEW t \in Tunnels, Start(q, op, t)
      PROVE  PartsInv'
  <2>1. UNCHANGED <<running, candidate>> /\ ~ Editing(q) /\ ~ Editing(q)'
    BY <1>1, <1>4 DEF Start, Editing, Busy, Asleep, TypeOK
  <2>2. \A p \in Callers \ {q} : /\ pc'[p] = pc[p] /\ call'[p] = call[p]
                                 /\ missed'[p] = missed[p] /\ Editing(p)' = Editing(p)
    BY <1>1, <1>4 DEF Start, Editing, TypeOK
  <2>3. ASSUME NEW p \in Callers, Editing(p)', ~ OthersEditing(p)' PROVE OwnEdits(p)'
    <3>1. p # q /\ Editing(p) /\ ~ OthersEditing(p)
      BY <2>1, <2>2, <2>3 DEF OthersEditing
    <3>2. OwnEdits(p)
      BY <1>1, <1>2, <3>1 DEF PartsInv
    <3>3. QED
      BY <2>1, <2>2, <3>1, <3>2, OwnEditsStay
  <2>4. (\A p \in Callers : ~ Editing(p)') => candidate' = running'
    BY <1>1, <1>2, <2>1, <2>2 DEF PartsInv
  <2>5. OnlyRsvp(running') /\ OnlyRsvp(candidate') /\ Together(running')
    BY <1>1, <1>2, <2>1 DEF PartsInv
  <2>6. QED
    BY <2>3, <2>4, <2>5 DEF PartsInv, OnlyRsvp, Together
<1>5. CASE UNCHANGED vars
  <2>1. \A p \in Callers : Editing(p)' = Editing(p) /\ OthersEditing(p)' = OthersEditing(p)
    BY <1>5 DEF vars, Editing, OthersEditing
  <2>2. ASSUME NEW p \in Callers, Editing(p)', ~ OthersEditing(p)' PROVE OwnEdits(p)'
    <3>1. OwnEdits(p)
      BY <1>1, <1>2, <2>1, <2>2 DEF PartsInv
    <3>2. QED
      BY <1>5, <3>1, OwnEditsStay DEF vars
  <2>3. (\A p \in Callers : ~ Editing(p)') => candidate' = running'
    BY <1>1, <1>2, <1>5, <2>1 DEF PartsInv, vars
  <2>4. OnlyRsvp(running') /\ OnlyRsvp(candidate') /\ Together(running')
    BY <1>1, <1>2, <1>5 DEF PartsInv, vars
  <2>5. QED
    BY <2>2, <2>3, <2>4 DEF PartsInv, OnlyRsvp, Together
<1>6. QED
  BY <1>1, <1>3, <1>4, <1>5 DEF Next

\* A router that starts with RSVP tunnels only, each that has its interface to itself with
\* all its parts or none, keeps them so: as long as no call fails between its edits, no
\* commit publishes the edits of another process and no tunnel is taken for one of another
\* type, no commit of any number of processes runs half a tunnel.
THEOREM PartsStayTogether ==
    ASSUME OnlyRsvp(InitialConfig), Together(InitialConfig)
    PROVE  Spec => []PartsTogether
<1>1. Init => DescriptionInv /\ PlaceInv /\ PartsInv
  <2>1. SUFFICES ASSUME Init PROVE DescriptionInv /\ PlaceInv /\ PartsInv
    OBVIOUS
  <2>2. \A p \in Callers : pc[p] = "idle" /\ ~ Editing(p)
    <3>1. pc = [p \in Callers |-> "idle"]
      BY <2>1 DEF Init
    <3>2. QED
      BY <3>1 DEF Editing
  <2>3. running = InitialConfig /\ candidate = InitialConfig
    BY <2>1 DEF Init
  <2>4. DescriptionInv /\ PlaceInv
    BY <2>2 DEF DescriptionInv, PlaceInv, PlaceOK, Asleep
  <2>5. OnlyRsvp(running) /\ OnlyRsvp(candidate) /\ Together(running)
    BY <2>3
  <2>6. QED
    BY <2>2, <2>3, <2>4, <2>5 DEF PartsInv
<1>2. PartsInv => PartsTogether
  BY DEF PartsInv, PartsTogether, Together, Alone
<1>3. QED
  BY <1>1, <1>2, InitType, NextType, DescriptionNext, PlaceNext, PartsNext, PTL DEF Spec
=============================================================================
