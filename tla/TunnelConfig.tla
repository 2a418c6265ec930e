------------------------------ MODULE TunnelConfig ------------------------------
(***************************************************************************)
(* AddTunnel and DeleteTunnel (pkg/hal/hal.go 1276-1442): the RPCs with    *)
(* which a process configures a tunnel, the membership of its interface in *)
(* the service instance "halo" and flow monitoring on it, in the candidate *)
(* that all processes share, and then commits.                             *)
(*                                                                         *)
(* The router is external and assumed to follow RFC 6241.  All edits ask   *)
(* for rollback-on-error, so one that is refused leaves nothing behind;    *)
(* deleting what is not there is refused; under default-operation "none"   *)
(* elements without an operation of their own change nothing.  Which       *)
(* interface a tunnel has is configured elsewhere, and may be missing.     *)
(***************************************************************************)
EXTENDS Naturals

CONSTANTS
    Callers,       \* processes that use the library
    Clients,       \* those that are runs of hal-client
    Tunnels,       \* names
    KindOf,        \* the type that a caller asks for
    InterfaceOf,   \* the interface that is looked up
    NoInterface,   \* ""
    InitialConfig, \* what the router starts with
    MaxFaults,     \* bound: RPCs that fail although the session was up
    MaxCalls       \* bound: calls

Kinds      == {"rsvp", "vxlan", "other"}
Interfaces == {InterfaceOf[t] : t \in Tunnels}

\* RSVP tunnels, enabled interfaces, interfaces of the service instance, those with
\* flow monitoring.
Config == [tunnels : SUBSET Tunnels, enabled : SUBSET Interfaces,
           si : SUBSET Interfaces, monitored : SUBSET Interfaces]

ASSUME TunnelAssumption ==
    /\ Clients \subseteq Callers /\ Tunnels # {}
    /\ KindOf \in [Tunnels -> Kinds]
    /\ DOMAIN InterfaceOf = Tunnels /\ NoInterface \notin Interfaces
    /\ InitialConfig \in Config
    /\ MaxFaults \in Nat /\ MaxCalls \in Nat

VARIABLES
    running, candidate,
    pc,        \* where each process is
    call,      \* operation and tunnel it was last asked for
    ifc,       \* the interface that was found
    reply,     \* what it returned, "none" while it runs
    session,   \* netconfSession, dialled once
    faults, calls,
    \* Of each call: did a lookup fail, did another process edit the same tunnel, and
    \* had candidate and running the same of it at the start?
    missed, crossed, clean,
    trouble    \* did a call fail between edits, its own or others, did a commit publish
               \* those of others, or was a tunnel taken for one of another type?

vars == <<running, candidate, pc, call, ifc, reply, session, faults, calls,
          missed, crossed, clean, trouble>>

Operations == {"add", "delete"}
Asleep     == {"idle", "panicked"}

Busy(p)    == pc[p] \notin Asleep
Tunnel(p)  == call[p].tunnel

\* handleTunnelAdd and handleTunnelDelete check the type and then pass VXLAN.
Kind(p) == IF p \in Clients /\ KindOf[Tunnel(p)] # "other" THEN "vxlan" ELSE KindOf[Tunnel(p)]

\* May the process have edits in the candidate?
Editing(p) == pc[p] \in {"path", "addresses", "list", "si", "monitoring", "commit"}

OthersEditing(p) == \E q \in Callers \ {p} : Editing(q)

Shares(t, u) == t = u \/ InterfaceOf[t] = InterfaceOf[u]

PartsOf(c, t) == <<t \in c.tunnels, InterfaceOf[t] \in c.enabled, InterfaceOf[t] \in c.si,
                   InterfaceOf[t] \in c.monitored>>

Init ==
    /\ running = InitialConfig /\ candidate = InitialConfig
    /\ pc = [p \in Callers |-> "idle"]
    /\ call \in [Callers -> [op : {"add"}, tunnel : {CHOOSE t \in Tunnels : TRUE}]]
    /\ ifc = [p \in Callers |-> NoInterface]
    /\ reply = [p \in Callers |-> "none"]
    /\ session = [p \in Callers |-> "up"]
    /\ faults = 0 /\ calls = 0
    /\ missed = [p \in Callers |-> FALSE] /\ crossed = [p \in Callers |-> FALSE]
    /\ clean = [p \in Callers |-> TRUE]
    /\ trouble = FALSE

--------------------------------------------------------------------------------
(* RPCs.                                                                   *)

SessionUp(p) == session[p] = "up"

Answered(p) == SessionUp(p) /\ UNCHANGED <<session, faults>>

\* A broken session fails every RPC; else the router reports an error or the
\* transport breaks.
RpcFails(p) ==
    \/ session[p] = "broken" /\ UNCHANGED <<session, faults>>
    \/ /\ SessionUp(p) /\ faults < MaxFaults
       /\ faults' = faults + 1
       /\ \E s \in {"up", "broken"} : session' = [session EXCEPT ![p] = s]

\* Did the transport break in this step, so that the router may have done its part?
Breaks(p) == SessionUp(p) /\ session'[p] = "broken"

Goto(p, next) ==
    /\ pc' = [pc EXCEPT ![p] = next]
    /\ UNCHANGED reply

Return(p, r) ==
    /\ pc' = [pc EXCEPT ![p] = "idle"]
    /\ reply' = [reply EXCEPT ![p] = r]

\* Whoever stops without a commit leaves its edits in the candidate.
Abandon(p) == trouble' = (trouble \/ candidate' # running \/ OthersEditing(p))

Fail(p) == Return(p, "error") /\ Abandon(p)

\* Mutant of GiveUp: the error of an edit is only logged.
GiveUpNever(p, next) == Goto(p, next) /\ UNCHANGED trouble

\* What an operation does when an edit in front of step next failed.
GiveUp(p, next) == Fail(p)

Notice(p) == crossed' = [q \in Callers |->
    crossed[q] \/ (q # p /\ Busy(q) /\ Shares(Tunnel(p), Tunnel(q)))]

\* An edit that makes the candidate new, if the router allows it.
Edit(p, new, allowed, next) ==
    /\ \/ /\ Answered(p) /\ allowed
          /\ candidate' = new
          /\ Goto(p, next) /\ UNCHANGED trouble
       \/ /\ Answered(p) /\ ~ allowed
          /\ UNCHANGED candidate
          /\ GiveUp(p, next)
       \/ /\ RpcFails(p)
          /\ candidate' \in {candidate} \cup IF Breaks(p) /\ allowed THEN {new} ELSE {}
          /\ GiveUp(p, next)
    /\ Notice(p)
    /\ UNCHANGED <<running, call, ifc, calls, missed, clean>>

--------------------------------------------------------------------------------
(* The steps of both operations.                                           *)

\* A run of hal-client, and a process that panicked, starts with a new session.
Start(p, op, t) ==
    /\ ~ Busy(p) /\ calls < MaxCalls
    /\ call' = [call EXCEPT ![p] = [op |-> op, tunnel |-> t]]
    /\ pc' = [pc EXCEPT ![p] = "type"]
    /\ session' = [session EXCEPT ![p] = IF p \in Clients \/ pc[p] = "panicked" THEN "up" ELSE @]
    /\ ifc' = [ifc EXCEPT ![p] = NoInterface]
    /\ reply' = [reply EXCEPT ![p] = "none"]
    /\ calls' = calls + 1
    /\ missed' = [missed EXCEPT ![p] = FALSE] /\ crossed' = [crossed EXCEPT ![p] = FALSE]
    /\ clean' = [clean EXCEPT ![p] = PartsOf(candidate, t) = PartsOf(running, t)]
    /\ UNCHANGED <<running, candidate, faults, trouble>>

Switch(p) ==
    /\ pc[p] = "type"
    /\ \/ Kind(p) = "rsvp" /\ Goto(p, "edit")
       \/ Kind(p) = "vxlan" /\ Goto(p, "description")
       \/ Kind(p) = "other" /\ Return(p, "error")
    /\ trouble' = (trouble \/ Kind(p) # KindOf[Tunnel(p)])
    /\ UNCHANGED <<running, candidate, call, ifc, session, faults, calls, missed, crossed,
                   clean>>

\* MethodRsvpTunnelAdd and MethodVxLanTunnelAdd.
TunnelAdded(p) ==
    IF Kind(p) = "rsvp" THEN [candidate EXCEPT !.tunnels = @ \cup {Tunnel(p)}]
                        ELSE [candidate EXCEPT !.enabled = @ \cup {ifc[p]}]

\* MethodRsvpTunnelDelete and MethodVxLanTunnelDelete, which writes enabled = false
\* under default-operation "none".
TunnelDeleted(p) ==
    IF Kind(p) = "rsvp" THEN [candidate EXCEPT !.tunnels = @ \ {Tunnel(p)}] ELSE candidate

AfterInterface(p) == IF call[p].op = "add" THEN "si" ELSE "list"

EditTunnel(p) ==
    /\ pc[p] = "edit"
    /\ Edit(p, IF call[p].op = "add" THEN TunnelAdded(p) ELSE TunnelDeleted(p),
            Kind(p) = "rsvp" /\ call[p].op = "delete" => Tunnel(p) \in candidate.tunnels,
            IF Kind(p) = "rsvp" THEN "path" ELSE AfterInterface(p))

\* AddTunnel goes on without the interface of an RSVP tunnel.
Miss(p) ==
    /\ missed' = [missed EXCEPT ![p] = TRUE]
    /\ IF Kind(p) = "rsvp" /\ call[p].op = "add"
       THEN Goto(p, "commit") /\ UNCHANGED trouble
       ELSE Fail(p)

\* GetRsvpTunnelInterface: the explicit path.  If the reply holds no address, the
\* index into the result of FindStringSubmatch panics.
GetExplicitPath(p) ==
    /\ pc[p] = "path"
    /\ UNCHANGED <<running, candidate, call, ifc, calls, crossed, clean>>
    /\ \/ Answered(p) /\ Goto(p, "addresses") /\ UNCHANGED <<missed, trouble>>
       \/ RpcFails(p) /\ Miss(p)

NoExplicitPath(p) ==
    /\ pc[p] = "path" /\ Answered(p)
    /\ UNCHANGED <<running, candidate, call, ifc, reply, calls, missed, crossed, clean>>
    /\ pc' = [pc EXCEPT ![p] = "panicked"]
    /\ Abandon(p)

\* The interface is in the reply or not.
GetInterface(p, next) ==
    /\ UNCHANGED <<running, candidate, call, calls, crossed, clean>>
    /\ \/ /\ Answered(p)
          /\ ifc' = [ifc EXCEPT ![p] = InterfaceOf[Tunnel(p)]]
          /\ Goto(p, next) /\ UNCHANGED <<missed, trouble>>
       \/ (Answered(p) \/ RpcFails(p)) /\ Miss(p) /\ UNCHANGED ifc

GetInterfaceConnectedTo(p)   == pc[p] = "addresses" /\ GetInterface(p, AfterInterface(p))
GetInterfaceByDescription(p) == pc[p] = "description" /\ GetInterface(p, "edit")

\* Mutant of IsMember: the name of the tunnel is compared with those of the interfaces.
IsMemberByName(p) == Tunnel(p) \in running.si

IsMember(p) == ifc[p] \in running.si

\* GetServiceInstanceInterfaces; if it fails, DeleteTunnel skips the service instance.
GetMembers(p) ==
    /\ pc[p] = "list"
    /\ \/ Answered(p) /\ Goto(p, IF IsMember(p) THEN "si" ELSE "commit") /\ UNCHANGED missed
       \/ /\ Answered(p) \/ RpcFails(p)
          /\ missed' = [missed EXCEPT ![p] = TRUE]
          /\ Goto(p, "commit")
    /\ UNCHANGED <<running, candidate, call, ifc, calls, crossed, clean, trouble>>

AddSiInterface(p, next) ==
    Edit(p, [candidate EXCEPT !.si = @ \cup {ifc[p]}], TRUE, next)
DeleteSiInterface(p, next) ==
    Edit(p, [candidate EXCEPT !.si = @ \ {ifc[p]}], ifc[p] \in candidate.si, next)
AddInterfaceFlowMonitoring(p, next) ==
    Edit(p, [candidate EXCEPT !.monitored = @ \cup {ifc[p]}], TRUE, next)
DeleteInterfaceFlowMonitoring(p, next) ==
    Edit(p, [candidate EXCEPT !.monitored = @ \ {ifc[p]}], ifc[p] \in candidate.monitored, next)

\* Mutant of EditMembership: DeleteTunnel leaves flow monitoring alone.
EditMembershipOnly(p) ==
    /\ pc[p] = "si"
    /\ IF call[p].op = "add" THEN AddSiInterface(p, "monitoring")
                             ELSE DeleteSiInterface(p, "commit")

EditMembership(p) ==
    /\ pc[p] = "si"
    /\ IF call[p].op = "add" THEN AddSiInterface(p, "monitoring")
                             ELSE DeleteSiInterface(p, "monitoring")

EditMonitoring(p) ==
    /\ pc[p] = "monitoring"
    /\ IF call[p].op = "add" THEN AddInterfaceFlowMonitoring(p, "commit")
                             ELSE DeleteInterfaceFlowMonitoring(p, "commit")

\* commitChanges; a commit of nothing is refused by the router and counts as success.
Commit(p) ==
    /\ pc[p] = "commit"
    /\ \/ /\ Answered(p)
          /\ running' = candidate
          /\ Return(p, "nil")
          /\ trouble' = (trouble \/ missed[p] \/ OthersEditing(p))
       \/ /\ RpcFails(p)
          /\ running' \in {running} \cup IF Breaks(p) THEN {candidate} ELSE {}
          /\ Return(p, "error")
          /\ trouble' = TRUE
    /\ UNCHANGED <<candidate, call, ifc, calls, missed, crossed, clean>>

--------------------------------------------------------------------------------
(* Specification                                                           *)

Step(p) ==
    \/ Switch(p) \/ EditTunnel(p) \/ GetExplicitPath(p) \/ NoExplicitPath(p)
    \/ GetInterfaceConnectedTo(p) \/ GetInterfaceByDescription(p) \/ GetMembers(p)
    \/ EditMembership(p) \/ EditMonitoring(p) \/ Commit(p)

Next == \E p \in Callers : (\E op \in Operations, t \in Tunnels : Start(p, op, t)) \/ Step(p)

Spec == Init /\ [][Next]_vars

--------------------------------------------------------------------------------
(* Properties                                                              *)

Steps == Asleep \cup {"type", "edit", "path", "addresses", "description", "list", "si",
                      "monitoring", "commit"}

UsesFound(p) ==
    pc[p] \in {"list", "si", "monitoring"} \/ (pc[p] = "edit" /\ Kind(p) # "rsvp")
       => ifc[p] = InterfaceOf[Tunnel(p)]

\* Types, and that the service instance, flow monitoring and a VXLAN are only
\* edited for an interface that was found.
TypeOK ==
    /\ running \in Config /\ candidate \in Config
    /\ pc \in [Callers -> Steps]
    /\ call \in [Callers -> [op : Operations, tunnel : Tunnels]]
    /\ ifc \in [Callers -> Interfaces \cup {NoInterface}]
    /\ reply \in [Callers -> {"none", "nil", "error"}]
    /\ session \in [Callers -> {"up", "broken"}]
    /\ faults \in 0..MaxFaults /\ calls \in 0..MaxCalls
    /\ missed \in [Callers -> BOOLEAN] /\ crossed \in [Callers -> BOOLEAN]
    /\ clean \in [Callers -> BOOLEAN] /\ trouble \in BOOLEAN
    /\ \A p \in Callers : UsesFound(p)

Returned(p, op, r) == Busy(p) /\ call[p].op = op /\ reply[p] = "none" /\ reply'[p] = r

\* AddTunnel returns nil only when all it configures is running, whatever was in the
\* candidate before, unless the interface of an RSVP tunnel was not found (the error of
\* line 1290 is dropped) or another process edited the same tunnel meanwhile.
AddComplete == [][\A p \in Callers :
    Returned(p, "add", "nil") /\ ~ missed[p] /\ ~ crossed[p] =>
        /\ Kind(p) = "rsvp" => Tunnel(p) \in running'.tunnels
        /\ Kind(p) = "vxlan" => InterfaceOf[Tunnel(p)] \in running'.enabled
        /\ InterfaceOf[Tunnel(p)] \in running'.si \cap running'.monitored]_vars

\* DeleteTunnel returns nil only when the tunnel and its membership are gone, under
\* the same conditions and if it began with nothing of the tunnel left in the
\* candidate by a call that failed: it looks for the membership in the running
\* configuration and publishes the candidate.
DeleteComplete == [][\A p \in Callers :
    Returned(p, "delete", "nil") /\ ~ missed[p] /\ ~ crossed[p] /\ clean[p] =>
        /\ Kind(p) = "rsvp" => Tunnel(p) \notin running'.tunnels
        /\ InterfaceOf[Tunnel(p)] \notin running'.si]_vars

\* The tunnel is gone from the candidate, is still running, and no call is at it.
Stranded(t) ==
    /\ KindOf[t] = "rsvp" /\ t \in running.tunnels \ candidate.tunnels
    /\ \A p \in Callers : Editing(p) => Tunnel(p) # t \/ Kind(p) # "rsvp"

\* What a DeleteTunnel that failed after its first edit leaves, no retry finishes: the
\* edit is refused (hal.go:1398-1401) until the commit of another operation publishes the
\* deletion, or AddTunnel configures the tunnel again.
StrandedStays == [][\A t \in Tunnels :
    Stranded(t) => \/ Stranded(t)'
                   \/ \E p \in Callers : pc[p] = "commit" /\ pc'[p] # "commit"
                   \/ \E p \in Callers : Busy(p) /\ call[p] = [op |-> "add", tunnel |-> t]]_vars

\* As long as no call failed between its edits, no commit published the edits of
\* another and hal-client took no RSVP tunnel for a VXLAN, a tunnel that shares its
\* interface with no other is running with all its parts or none.
PartsTogether ==
    ~ trouble => \A t \in Tunnels :
        LET i == InterfaceOf[t]
        IN  (\A u \in Tunnels \ {t} : ~ Shares(t, u)) =>
               /\ i \in running.si <=> i \in running.monitored
               /\ i \in running.si => t \in running.tunnels \/ i \in running.enabled
               /\ t \in running.tunnels => i \in running.si

================================================================================
