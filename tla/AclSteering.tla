------------------------------ MODULE AclSteering ------------------------------
(***************************************************************************)
(* Flow steering: how the HAL keeps one rule per steered flow in the       *)
(* access list "Steering" of a DNOS router (pkg/hal/hal.go).               *)
(*                                                                         *)
(* A process (a program linked with pkg/hal, or one run of hal-client)     *)
(* holds a NETCONF session, a cache of the rules it believes the router    *)
(* has (hal.aclRules) and the next free rule id (accessListID).  The       *)
(* router holds a running and a candidate configuration; every process     *)
(* edits the same candidate, nobody locks it, and a commit publishes       *)
(* whatever is in it.                                                      *)
(*                                                                         *)
(* The router is external to the code.  It is assumed to follow RFC 6241:  *)
(* one shared candidate, an edit that fails may have been applied in part  *)
(* (error-option stop-on-error), a commit is atomic, deleting what is not  *)
(* there is refused.  Of several rules that match a packet the one with    *)
(* the lowest id decides.                                                  *)
(***************************************************************************)
EXTENDS Naturals, Sequences, Functions

CONSTANTS
    Procs,          \* processes that use the library
    Flows,          \* flow keys (protocol, addresses, ports)
    AnyFlow,        \* what the default rule matches: any protocol, any address
    Hops,           \* next hops a caller may name (upper interface names)
    NoHop,          \* the empty next-hop name ""
    WanHops,        \* the WAN interfaces a process has in NextHop2Interface
    AddrOf,         \* the next-hop address of each hop
    NoAddr,         \* the nil address
    DefaultRuleId,  \* 65434 in the code
    Batches,        \* sequences of items that Steer is called with
    RemoveSets,     \* sets of flows that RemoveSteer is called with
    InitialConfigs, \* access lists the router may start with
    FlushOptions,   \* values of the configuration option FlushSteer
    SortedReply,    \* does the router list rules by ascending id?
    MayCrash,       \* may a process die between two RPCs?
    MaxFaults,      \* bound: RPCs that fail although the session was up
    MaxStarts,      \* bound: process starts
    MaxRuleId       \* bound: rule ids that can be allocated

FirstRuleId == 10
RuleIdStep  == 10

Addrs == {AddrOf[h] : h \in Hops} \cup {NoAddr}
Item  == [flow : Flows, hop : Hops \cup {NoHop}]
Rule  == [flow : Flows \cup {AnyFlow}, addr : Addrs]

\* An access list: a partial function from rule ids to rules.
IsAcl(c) == DOMAIN c \subseteq Nat /\ c \in [DOMAIN c -> Rule]

ASSUME ValueAssumption ==
    /\ AnyFlow \notin Flows
    /\ NoHop \notin Hops
    /\ WanHops \subseteq Hops
    /\ DOMAIN AddrOf = Hops
    /\ NoAddr \notin {AddrOf[h] : h \in Hops}

\* The marks for "no entry" and "no rule matches" are no hop and no address.
ASSUME MarkAssumption ==
    /\ "absent" \notin Hops \cup {NoHop}
    /\ "unmatched" \notin Addrs

ASSUME InputAssumption ==
    /\ Batches \subseteq Seq(Item)
    /\ RemoveSets \subseteq SUBSET Flows
    /\ \A c \in InitialConfigs : IsAcl(c)
    /\ FlushOptions \subseteq BOOLEAN
    /\ SortedReply \in BOOLEAN /\ MayCrash \in BOOLEAN

ASSUME BoundAssumption ==
    /\ DefaultRuleId \in Nat
    /\ MaxFaults \in Nat /\ MaxStarts \in Nat /\ MaxRuleId \in Nat

VARIABLES
    running,    \* the router's running access list
    candidate,  \* the router's candidate access list
    pc,         \* where each process is
    cache,      \* hal.aclRules: rule id -> flow
    nextId,     \* accessListID
    session,    \* netconfSession, dialled once and then kept
    call,       \* the last operation the process was asked for
    reply,      \* what that operation returned, "none" while it runs
    todo,       \* items of the batch the Steer loop has not reached
    edits,      \* ruleIdxMap and rulesList: rule id -> rule to configure
    dels,       \* rulesToRemove: ids of the rules to delete
    faults, starts

device == <<running, candidate>>
locals == <<todo, edits, dels>>
bounds == <<faults, starts>>
vars   == <<running, candidate, pc, cache, nextId, session, call, reply,
            todo, edits, dels, faults, starts>>

NoCall  == [op |-> "none"]
NoRules == [i \in {} |-> NoCall]

\* The configuration base with the entries of top written over it.
Overlay(base, top) ==
    [i \in DOMAIN base \cup DOMAIN top |-> IF i \in DOMAIN top THEN top[i] ELSE base[i]]

\* base without the entries in ids.
Without(base, ids) == Restrict(base, DOMAIN base \ ids)

DefaultRule == [flow |-> AnyFlow, addr |-> NoAddr]

\* The rules of an access list that the library would load into its cache.
SteeringIds(acl) == {i \in DOMAIN acl : i # DefaultRuleId /\ acl[i].flow \in Flows}

Init ==
    /\ running \in InitialConfigs
    /\ candidate = running
    /\ pc = [p \in Procs |-> "down"]
    /\ cache = [p \in Procs |-> NoRules]
    /\ nextId = [p \in Procs |-> FirstRuleId]
    /\ session = [p \in Procs |-> "up"]
    /\ call = [p \in Procs |-> NoCall]
    /\ reply = [p \in Procs |-> "none"]
    /\ todo = [p \in Procs |-> <<>>]
    /\ edits = [p \in Procs |-> NoRules]
    /\ dels = [p \in Procs |-> {}]
    /\ faults = 0
    /\ starts = 0

--------------------------------------------------------------------------------
(* What an RPC can do, whatever it carries.                                *)

SessionUp(p) == session[p] = "up"

\* The RPC fails.  The code never dials again, so a broken session fails
\* every RPC; otherwise the router reports an error or the transport breaks.
RpcFails(p) ==
    \/ /\ session[p] = "broken"
       /\ UNCHANGED <<session, faults>>
    \/ /\ SessionUp(p)
       /\ faults < MaxFaults
       /\ faults' = faults + 1
       /\ \E s \in {"up", "broken"} : session' = [session EXCEPT ![p] = s]

\* The operation returns r and the process is idle again.
Return(p, r) ==
    /\ pc' = [pc EXCEPT ![p] = "idle"]
    /\ reply' = [reply EXCEPT ![p] = r]
    /\ todo' = [todo EXCEPT ![p] = <<>>]
    /\ edits' = [edits EXCEPT ![p] = NoRules]
    /\ dels' = [dels EXCEPT ![p] = {}]

\* The process goes on to step next of the same operation.
Continue(p, next) ==
    /\ pc' = [pc EXCEPT ![p] = next]
    /\ UNCHANGED <<call, reply>>

\* The process ends; only the router's state survives it.
Exit(p) ==
    /\ pc' = [pc EXCEPT ![p] = "down"]
    /\ cache' = [cache EXCEPT ![p] = NoRules]
    /\ nextId' = [nextId EXCEPT ![p] = FirstRuleId]
    /\ session' = [session EXCEPT ![p] = "up"]
    /\ call' = [call EXCEPT ![p] = NoCall]
    /\ reply' = [reply EXCEPT ![p] = "none"]
    /\ todo' = [todo EXCEPT ![p] = <<>>]
    /\ edits' = [edits EXCEPT ![p] = NoRules]
    /\ dels' = [dels EXCEPT ![p] = {}]

\* commitChanges: the router publishes the candidate; or it has nothing to publish
\* and says "Commit failed: empty commit"; or the commit is refused, or its answer
\* is lost with the transport and the router may have carried it out.
CommitErrors == {"none", "empty", "failed"}
CommitAnswer(p, err) ==
    \/ /\ err = "none"
       /\ SessionUp(p) /\ candidate # running
       /\ running' = candidate
       /\ UNCHANGED <<session, faults>>
    \/ /\ err = "empty"
       /\ SessionUp(p) /\ candidate = running
       /\ UNCHANGED <<running, session, faults>>
    \/ /\ err = "failed"
       /\ RpcFails(p)
       /\ \/ running' = running
          \/ SessionUp(p) /\ session'[p] = "broken" /\ running' = candidate

\* Mutant of IsSuccess: an empty commit is taken for a failure.
IsSuccessStrict(err) == err = "none"

\* An empty commit is logged and taken for success.
IsSuccess(err) == err \in {"none", "empty"}

\* The edit of process p as the router applies it, in full or up to an error.
EditApplies(p)  == SessionUp(p) /\ candidate' = Overlay(candidate, edits[p])
DeleteApplies(p) == /\ SessionUp(p)
                    /\ dels[p] \subseteq DOMAIN candidate
                    /\ candidate' = Without(candidate, dels[p])

\* What the router may have applied of an edit of ids that failed: not all of it
\* if it reported an error, anything if the transport broke meanwhile.
AppliedParts(p, ids) == IF ~SessionUp(p) THEN {{}}
                        ELSE IF session'[p] = "up" THEN SUBSET ids \ {ids}
                        ELSE SUBSET ids

EditFails(p) ==
    /\ RpcFails(p)
    /\ \E part \in AppliedParts(p, DOMAIN edits[p]) :
          candidate' = Overlay(candidate, Restrict(edits[p], part))

DeleteFails(p) ==
    /\ \/ RpcFails(p)
       \/ /\ SessionUp(p)
          /\ ~ (dels[p] \subseteq DOMAIN candidate)
          /\ UNCHANGED <<session, faults>>
    /\ \E part \in AppliedParts(p, dels[p]) : candidate' = Without(candidate, part)

--------------------------------------------------------------------------------
(* Process start: Init, SteeringAclCleanup, InitNetConf.                   *)

Start(p) ==
    /\ pc[p] = "down"
    /\ starts < MaxStarts
    /\ starts' = starts + 1
    /\ \E flush \in FlushOptions :
          /\ pc' = [pc EXCEPT ![p] = IF flush THEN "flushDelete" ELSE "load"]
          /\ call' = [call EXCEPT ![p] = [op |-> "init", flush |-> flush]]
    /\ UNCHANGED <<device, cache, nextId, session, reply, locals, faults>>

\* Delete every rule.  An error of any step of the cleanup is only logged.
FlushDelete(p) ==
    /\ pc[p] = "flushDelete"
    /\ \/ /\ SessionUp(p)
          /\ candidate # NoRules
          /\ candidate' = NoRules
          /\ Continue(p, "flushDefault")
          /\ UNCHANGED <<session, faults>>
       \/ /\ \/ RpcFails(p)
             \/ SessionUp(p) /\ candidate = NoRules /\ UNCHANGED <<session, faults>>
          /\ \/ UNCHANGED candidate
             \/ SessionUp(p) /\ session'[p] = "broken" /\ candidate' = NoRules
          /\ Continue(p, "load")
    /\ UNCHANGED <<running, cache, nextId, locals, starts>>

\* Mutant of FlushDefault: the default rule is not put back.
FlushDefaultSkipped(p) ==
    /\ pc[p] = "flushDefault"
    /\ Continue(p, "flushCommit")
    /\ UNCHANGED <<device, cache, nextId, session, locals, bounds>>

FlushDefault(p) ==
    /\ pc[p] = "flushDefault"
    /\ LET withDefault == Overlay(candidate, [i \in {DefaultRuleId} |-> DefaultRule])
       IN  \/ /\ SessionUp(p)
              /\ candidate' = withDefault
              /\ Continue(p, "flushCommit")
              /\ UNCHANGED <<session, faults>>
           \/ /\ RpcFails(p)
              /\ \/ UNCHANGED candidate
                 \/ SessionUp(p) /\ session'[p] = "broken" /\ candidate' = withDefault
              /\ Continue(p, "load")
    /\ UNCHANGED <<running, cache, nextId, locals, starts>>

FlushCommit(p) ==
    /\ pc[p] = "flushCommit"
    /\ \E err \in CommitErrors : CommitAnswer(p, err)
    /\ Continue(p, "load")
    /\ UNCHANGED <<candidate, cache, nextId, locals, starts>>

\* Mutant of LoadedNextId: accessListID is not moved past the loaded rules.
LoadedNextIdUnmoved(n) == n = FirstRuleId

\* The id InitNetConf leaves in accessListID.  maxID keeps the value accessListID
\* had before the loop, so of the rules above it the last one listed decides.
LoadedNextId(n) ==
    LET above == {i \in SteeringIds(running) : i > FirstRuleId}
    IN  IF above = {}
        THEN n = FirstRuleId
        ELSE \E i \in above : /\ SortedReply => \A j \in above : j <= i
                              /\ n = i + RuleIdStep

\* InitNetConf: read the running configuration into the cache.
Load(p) ==
    /\ pc[p] = "load"
    /\ SessionUp(p)
    /\ cache' = [cache EXCEPT ![p] = [i \in SteeringIds(running) |-> running[i].flow]]
    /\ \E n \in {FirstRuleId} \cup {i + RuleIdStep : i \in DOMAIN running} :
          LoadedNextId(n) /\ nextId' = [nextId EXCEPT ![p] = n]
    /\ Return(p, "nil")
    /\ UNCHANGED <<device, session, call, bounds>>

\* A failed read at start, or in GetSteerInterface, is a panic.
LoadPanics(p) ==
    /\ pc[p] = "load"
    /\ session[p] = "broken" \/ faults < MaxFaults
    /\ faults' = IF SessionUp(p) THEN faults + 1 ELSE faults
    /\ Exit(p)
    /\ UNCHANGED <<device, starts>>

--------------------------------------------------------------------------------
(* Steer                                                                   *)

Steer(p, batch) ==
    /\ pc[p] = "idle"
    /\ nextId[p] + Len(batch) * RuleIdStep <= MaxRuleId
    /\ pc' = [pc EXCEPT ![p] = "steering"]
    /\ call' = [call EXCEPT ![p] = [op |-> "steer", items |-> batch]]
    /\ reply' = [reply EXCEPT ![p] = "none"]
    /\ todo' = [todo EXCEPT ![p] = batch]
    /\ UNCHANGED <<device, cache, nextId, session, edits, dels, bounds>>

\* Ids the cache holds for a flow: the code takes the first one a Go map yields.
CachedIds(p, f) == {i \in DOMAIN cache[p] : cache[p][i] = f}
\* Mutant of IsKnownHop: the next hop is not looked up.
IsKnownHopUnchecked(h) == TRUE

IsKnownHop(h)   == h \in WanHops \cup {NoHop}
HopAddr(h)      == IF h = NoHop THEN NoAddr ELSE AddrOf[h]

\* The rule id for flow f: the cached one, else a new one.
ChosenId(p, f, id) == IF CachedIds(p, f) # {} THEN id \in CachedIds(p, f)
                                              ELSE id = nextId[p]
\* Mutant of IdAfter: accessListID is not advanced.
IdAfterUnadvanced(p, f) == nextId[p]

IdAfter(p, f) == IF CachedIds(p, f) # {} THEN nextId[p] ELSE nextId[p] + RuleIdStep

\* One iteration of the loop over the batch.
SteerItem(p) ==
    /\ pc[p] = "steering"
    /\ todo[p] # <<>>
    /\ LET item == Head(todo[p])
       IN  /\ IsKnownHop(item.hop)
           /\ \E id \in DOMAIN cache[p] \cup {nextId[p]} :
                 /\ ChosenId(p, item.flow, id)
                 /\ edits' = [edits EXCEPT ![p] = Overlay(@,
                       [i \in {id} |-> [flow |-> item.flow, addr |-> HopAddr(item.hop)]])]
           /\ nextId' = [nextId EXCEPT ![p] = IdAfter(p, item.flow)]
    /\ todo' = [todo EXCEPT ![p] = Tail(@)]
    /\ UNCHANGED <<device, pc, cache, session, call, reply, dels, bounds>>

\* An unknown next hop ends Steer; ids given to earlier items stay used.
SteerUnknownHop(p) ==
    /\ pc[p] = "steering"
    /\ todo[p] # <<>> /\ ~IsKnownHop(Head(todo[p]).hop)
    /\ Return(p, "error")
    /\ UNCHANGED <<device, cache, nextId, session, call, bounds>>

SteerNothing(p) ==
    /\ pc[p] = "steering"
    /\ todo[p] = <<>> /\ edits[p] = NoRules
    /\ Return(p, "nil")
    /\ UNCHANGED <<device, cache, nextId, session, call, bounds>>

\* Mutant of SteerEdit: the error of the edit is ignored.
SteerEditUnchecked(p) ==
    /\ pc[p] = "steering"
    /\ todo[p] = <<>> /\ edits[p] # NoRules
    /\ \/ EditApplies(p) /\ UNCHANGED <<session, faults>>
       \/ EditFails(p)
    /\ Continue(p, "steerCommit")
    /\ UNCHANGED <<running, cache, nextId, locals, starts>>

SteerEdit(p) ==
    /\ pc[p] = "steering"
    /\ todo[p] = <<>> /\ edits[p] # NoRules
    /\ \/ /\ EditApplies(p)
          /\ Continue(p, "steerCommit")
          /\ UNCHANGED <<session, locals, faults>>
       \/ /\ EditFails(p)
          /\ Return(p, "error")
          /\ UNCHANGED call
    /\ UNCHANGED <<running, cache, nextId, starts>>

\* Mutant of SteeredFlows: the cache is not updated after the commit.
SteeredFlowsForgotten(p) == NoRules

\* The cache entries Steer writes once the commit was accepted.
SteeredFlows(p) == [i \in DOMAIN edits[p] |-> edits[p][i].flow]

SteerCommit(p) ==
    /\ pc[p] = "steerCommit"
    /\ \E err \in CommitErrors :
          /\ CommitAnswer(p, err)
          /\ \/ /\ IsSuccess(err)
                /\ cache' = [cache EXCEPT ![p] = Overlay(@, SteeredFlows(p))]
                /\ Return(p, "nil")
             \/ /\ ~IsSuccess(err)
                /\ Return(p, "error")
                /\ UNCHANGED cache
    /\ UNCHANGED <<candidate, nextId, call, starts>>

--------------------------------------------------------------------------------
(* RemoveSteer                                                             *)

\* Every cached rule of the named flows is to be deleted.
RemoveSteer(p, fs) ==
    /\ pc[p] = "idle"
    /\ LET ids == {i \in DOMAIN cache[p] : cache[p][i] \in fs}
       IN  /\ dels' = [dels EXCEPT ![p] = ids]
           /\ pc' = [pc EXCEPT ![p] = IF ids = {} THEN "idle" ELSE "removing"]
           /\ reply' = [reply EXCEPT ![p] = IF ids = {} THEN "nil" ELSE "none"]
    /\ call' = [call EXCEPT ![p] = [op |-> "remove", flows |-> fs]]
    /\ UNCHANGED <<device, cache, nextId, session, todo, edits, bounds>>

\* Mutant of RemoveEdit: the error of the edit is ignored.
RemoveEditUnchecked(p) ==
    /\ pc[p] = "removing"
    /\ \/ DeleteApplies(p) /\ UNCHANGED <<session, faults>>
       \/ DeleteFails(p)
    /\ Continue(p, "removeCommit")
    /\ UNCHANGED <<running, cache, nextId, locals, starts>>

RemoveEdit(p) ==
    /\ pc[p] = "removing"
    /\ \/ /\ DeleteApplies(p)
          /\ Continue(p, "removeCommit")
          /\ UNCHANGED <<session, locals, faults>>
       \/ /\ DeleteFails(p)
          /\ Return(p, "error")
          /\ UNCHANGED call
    /\ UNCHANGED <<running, cache, nextId, starts>>

RemoveCommit(p) ==
    /\ pc[p] = "removeCommit"
    /\ \E err \in CommitErrors :
          /\ CommitAnswer(p, err)
          /\ \/ /\ IsSuccess(err)
                /\ cache' = [cache EXCEPT ![p] = Without(@, dels[p])]
                /\ Return(p, "nil")
             \/ /\ ~IsSuccess(err)
                /\ Return(p, "error")
                /\ UNCHANGED cache
    /\ UNCHANGED <<candidate, nextId, call, starts>>

--------------------------------------------------------------------------------
(* GetSteerInterface                                                       *)

\* responseMap gives hop for flow f: rules are read in the order the router lists
\* them, a later rule of the same flow replaces an earlier one, and a rule whose
\* next hop no WAN interface has is passed over.
Reported(f, hop) ==
    \E i \in DOMAIN running :
        /\ running[i].flow = f
        /\ IsKnownHop(hop) /\ running[i].addr = HopAddr(hop)
        /\ SortedReply =>
              \A j \in DOMAIN running :
                  j > i /\ running[j].flow = f =>
                      \A h \in WanHops \cup {NoHop} : running[j].addr # HopAddr(h)

ReportedHops(f) == LET hops == {h \in Hops \cup {NoHop} : Reported(f, h)}
                   IN  IF hops = {} THEN {"absent"} ELSE hops

GetSteerInterface(p, batch) ==
    /\ pc[p] = "idle"
    /\ SessionUp(p)
    /\ LET asked == {batch[k].flow : k \in DOMAIN batch}
       IN  \E responseMap \in [asked -> UNION {ReportedHops(f) : f \in asked}] :
              /\ \A f \in asked : responseMap[f] \in ReportedHops(f)
              /\ reply' = [reply EXCEPT ![p] =
                    IF \A k \in DOMAIN batch : responseMap[batch[k].flow] = batch[k].hop
                    THEN "yes" ELSE "no"]
    /\ call' = [call EXCEPT ![p] = [op |-> "verify", items |-> batch]]
    /\ UNCHANGED <<device, pc, cache, nextId, session, locals, bounds>>

GetSteerInterfacePanics(p) ==
    /\ pc[p] = "idle"
    /\ session[p] = "broken" \/ faults < MaxFaults
    /\ faults' = IF SessionUp(p) THEN faults + 1 ELSE faults
    /\ Exit(p)
    /\ UNCHANGED <<device, starts>>

--------------------------------------------------------------------------------
\* The program ends, or dies between two steps of an operation.
Stop(p) ==
    /\ pc[p] = "idle" \/ (MayCrash /\ pc[p] # "down")
    /\ Exit(p)
    /\ UNCHANGED <<device, bounds>>

Step(p) ==
    \/ Start(p) \/ FlushDelete(p) \/ FlushDefault(p) \/ FlushCommit(p)
    \/ Load(p) \/ LoadPanics(p)
    \/ \E batch \in Batches : Steer(p, batch)
    \/ SteerItem(p) \/ SteerUnknownHop(p) \/ SteerNothing(p)
    \/ SteerEdit(p) \/ SteerCommit(p)
    \/ \E fs \in RemoveSets : RemoveSteer(p, fs)
    \/ RemoveEdit(p) \/ RemoveCommit(p)
    \/ \E batch \in Batches : GetSteerInterface(p, batch)
    \/ GetSteerInterfacePanics(p)
    \/ Stop(p)

Next == \E p \in Procs : Step(p)

Spec == Init /\ [][Next]_vars

--------------------------------------------------------------------------------
(* Properties                                                              *)

Steps == {"down", "flushDelete", "flushDefault", "flushCommit", "load", "idle",
          "steering", "steerCommit", "removing", "removeCommit"}

Calls == {NoCall}
    \cup [op : {"init"}, flush : BOOLEAN]
    \cup [op : {"steer", "verify"}, items : Batches]
    \cup [op : {"remove"}, flows : RemoveSets]

IsEdit(e)  == DOMAIN e \subseteq Nat /\ e \in [DOMAIN e -> [flow : Flows, addr : Addrs]]
IsCache(c) == DOMAIN c \subseteq Nat /\ c \in [DOMAIN c -> Flows]

\* The type of every variable: the caches hold only real flows, so that neither
\* the default rule nor an unparsable one is ever taken for a steered flow.
TypeOK ==
    /\ IsAcl(running) /\ IsAcl(candidate)
    /\ pc \in [Procs -> Steps]
    /\ cache = [p \in Procs |-> cache[p]] /\ \A p \in Procs : IsCache(cache[p])
    /\ nextId \in [Procs -> Nat]
    /\ session \in [Procs -> {"up", "broken"}]
    /\ call \in [Procs -> Calls]
    /\ reply \in [Procs -> {"none", "nil", "error", "yes", "no"}]
    /\ todo \in [Procs -> Seq(Item)]
    /\ edits = [p \in Procs |-> edits[p]] /\ \A p \in Procs : IsEdit(edits[p])
    /\ dels \in [Procs -> SUBSET Nat]
    /\ faults \in 0..MaxFaults
    /\ starts \in 0..MaxStarts

\* What the router does with a packet of flow f: the lowest matching rule decides.
Matching(acl, f) == {i \in DOMAIN acl : acl[i].flow \in {f, AnyFlow}}
Effective(acl, f) ==
    IF Matching(acl, f) = {} THEN "unmatched"
    ELSE acl[CHOOSE i \in Matching(acl, f) : \A j \in Matching(acl, f) : i <= j].addr

\* When Steer returns nil (hal.go:980) the router runs every rule of the batch,
\* with the id and the next hop the call chose, whatever failed before.
SteerAck ==
    [][\A p \in Procs : pc[p] = "steerCommit" /\ reply'[p] = "nil"
                           => IsRestriction(edits[p], running')]_vars

\* When RemoveSteer returns nil (hal.go:1029) no rule it was to delete is left.
RemoveAck ==
    [][\A p \in Procs : pc[p] = "removeCommit" /\ reply'[p] = "nil"
                           => dels[p] \cap DOMAIN running' = {}]_vars

\* Until a process is started again, a rule id the router runs is never given to
\* another flow: ids come from the cache entry of the same flow or from
\* accessListID, which starts above the ids the router had and only grows.
RuleIdentity ==
    [][starts <= 1 => \A i \in DOMAIN running \cap DOMAIN running' :
                         running'[i].flow = running[i].flow]_vars

\* The flows that the operation process p is about to commit may affect.
Named(p) == CASE pc[p] = "flushCommit"  -> Flows
              [] pc[p] = "steerCommit"  -> {call[p].items[k].flow : k \in DOMAIN call[p].items}
              [] pc[p] = "removeCommit" -> call[p].flows
              [] OTHER -> {}

\* Steering is a table from flows to addresses (mock.go:29): an operation changes
\* what the router does with the flows it names and with no other.
OthersUntouched ==
    [][\A f \in Flows : Effective(running', f) # Effective(running, f)
          => \E p \in Procs : pc'[p] # pc[p] /\ f \in Named(p)]_vars

\* The default rule that the cleanup adds (hal.go:1118) is never lost again, so
\* traffic that is not steered keeps flowing.
DefaultRuleStays ==
    [][(DefaultRuleId \in DOMAIN running) => (DefaultRuleId \in DOMAIN running')]_vars

OneRulePerFlow ==
    \A i, j \in SteeringIds(running) : running[i].flow = running[j].flow => i = j

\* Between operations the candidate holds nothing unpublished and the cache is exactly the
\* steering rules the router runs, so ids it gives out are free.  A flow always has one
\* rule, so changing or removing the cached one changes or removes everything the router
\* has for the flow (hal.go 924-937, 993-1012).
CacheCoherent ==
    /\ OneRulePerFlow
    /\ \A p \in Procs : pc[p] = "idle" =>
          /\ candidate = running
          /\ cache[p] = [i \in SteeringIds(running) |-> running[i].flow]

\* Steer reports an error only for an unknown next hop or a failed RPC: that
\* another process already published the edit (an empty commit) is no error.
SteerFailsOnlyByFault ==
    [][\A p \in Procs :
          pc[p] \in {"steering", "steerCommit"} /\ reply'[p] = "error"
          => \/ faults' # faults \/ session[p] = "broken"
             \/ todo[p] # <<>> /\ ~IsKnownHop(Head(todo[p]).hop)]_vars

\* Process p caches rule i, which the router has lost, and does nothing about it.
Stuck(p, i) ==
    /\ pc[p] \in {"idle", "steering", "steerCommit", "removing", "removeCommit"}
    /\ i \in DOMAIN cache[p] \ DOMAIN candidate
    /\ ~ (pc[p] = "removeCommit" /\ i \in dels[p])

\* A cached rule that another process, or a deletion that failed half way, took from the
\* router makes RemoveSteer fail (hal.go:993-1022), and goes on to do so however often it
\* is called: the entry leaves the cache only with the process, unless an edit of some
\* process puts the rule back.
RefusedForLife ==
    [][\A p \in Procs : \A i \in DOMAIN cache[p] :
          Stuck(p, i) => Stuck(p, i)' \/ i \in DOMAIN candidate' \/ pc'[p] = "down"]_vars

\* hal-client announces the check after Steer as "verifying rule ... has been
\* applied" (cmd/client/main.go:96): a positive answer means that the router
\* sends the flow to the next hop asked for.
VerifiedMeansEffective ==
    [][\A p \in Procs : pc'[p] = "idle" /\ reply'[p] = "yes" =>
          \A k \in DOMAIN call'[p].items :
              Effective(running', call'[p].items[k].flow) = HopAddr(call'[p].items[k].hop)]_vars

\* A single process whose RPCs succeed and that flushes at start implements the
\* abstract table: each operation takes effect at once, on the flows it names only,
\* and the answer of GetSteerInterface is what the router does.
Table == INSTANCE FlowSteeringTable
         WITH table <- [f \in Flows |-> Effective(running, f)]
ImplementsTable == Table!TableSpec
=============================================================================
