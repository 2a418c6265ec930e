--------------------------- MODULE AclSteering_proofs ---------------------------
(* Proofs about AclSteering, checked by TLAPS. *)
EXTENDS AclSteering, WellFoundedInduction, TLAPS

--------------------------------------------------------------------------------
(* Access lists and caches.                                                *)

LEMMA NoRulesType == IsAcl(NoRules) /\ IsCache(NoRules) /\ IsEdit(NoRules)
BY DEF IsAcl, IsCache, IsEdit, NoRules

LEMMA EditIsAcl == ASSUME NEW e, IsEdit(e) PROVE IsAcl(e)
BY DEF IsAcl, IsEdit, Rule

LEMMA OverlayType ==
    ASSUME NEW base, NEW top
    PROVE  /\ DOMAIN Overlay(base, top) = DOMAIN base \cup DOMAIN top
           /\ \A i \in DOMAIN top : Overlay(base, top)[i] = top[i]
           /\ \A i \in DOMAIN base \ DOMAIN top : Overlay(base, top)[i] = base[i]
           /\ IsAcl(base) /\ IsAcl(top) => IsAcl(Overlay(base, top))
           /\ IsCache(base) /\ IsCache(top) => IsCache(Overlay(base, top))
           /\ IsEdit(base) /\ IsEdit(top) => IsEdit(Overlay(base, top))
BY DEF Overlay, IsAcl, IsCache, IsEdit

LEMMA RestrictType ==
    ASSUME NEW base, NEW ids \in SUBSET DOMAIN base
    PROVE  /\ DOMAIN Restrict(base, ids) = ids
           /\ \A i \in ids : Restrict(base, ids)[i] = base[i]
           /\ IsAcl(base) => IsAcl(Restrict(base, ids))
           /\ IsCache(base) => IsCache(Restrict(base, ids))
BY DEF Restrict, IsAcl, IsCache

LEMMA WithoutType ==
    ASSUME NEW base, NEW ids
    PROVE  /\ DOMAIN Without(base, ids) = DOMAIN base \ ids
           /\ \A i \in DOMAIN base \ ids : Without(base, ids)[i] = base[i]
           /\ IsAcl(base) => IsAcl(Without(base, ids))
           /\ IsCache(base) => IsCache(Without(base, ids))
BY RestrictType DEF Without

LEMMA SingleRuleType ==
    ASSUME NEW id \in Nat, NEW rule \in Rule
    PROVE  IsAcl([i \in {id} |-> rule])
BY DEF IsAcl

LEMMA DefaultRuleType == DefaultRule \in Rule
BY DEF DefaultRule, Rule, Addrs

--------------------------------------------------------------------------------
(* Type correctness.                                                       *)

\* The part of the type invariant the operations of a process share.
LEMMA ReturnType ==
    ASSUME TypeOK, NEW p \in Procs, NEW r \in {"nil", "error"}, Return(p, r)
    PROVE  /\ pc' \in [Procs -> Steps]
           /\ reply' \in [Procs -> {"none", "nil", "error", "yes", "no"}]
           /\ todo' \in [Procs -> Seq(Item)]
           /\ edits' = [q \in Procs |-> edits'[q]] /\ \A q \in Procs : IsEdit(edits'[q])
           /\ dels' \in [Procs -> SUBSET Nat]
<1>1. \A q \in Procs : IsEdit(edits'[q])
  BY NoRulesType DEF Return, TypeOK
<1>2. edits' = [q \in Procs |-> edits'[q]]
  BY DEF Return, TypeOK
<1>3. QED
  BY <1>1, <1>2 DEF Return, TypeOK, Steps

LEMMA ExitType ==
    ASSUME TypeOK, NEW p \in Procs, Exit(p), UNCHANGED <<device, starts>>,
           faults' \in 0..MaxFaults
    PROVE  TypeOK'
<1>1. \A q \in Procs : IsEdit(edits'[q]) /\ IsCache(cache'[q])
  BY NoRulesType DEF Exit, TypeOK
<1>2. edits' = [q \in Procs |-> edits'[q]] /\ cache' = [q \in Procs |-> cache'[q]]
  BY DEF Exit, TypeOK
<1>3. NoCall \in Calls /\ FirstRuleId \in Nat /\ "down" \in Steps /\ <<>> \in Seq(Item)
  BY DEF Calls, FirstRuleId, Steps
<1>4. QED
  BY <1>1, <1>2, <1>3 DEF Exit, TypeOK, device

LEMMA RpcFailsType ==
    ASSUME TypeOK, NEW p \in Procs, RpcFails(p)
    PROVE  session' \in [Procs -> {"up", "broken"}] /\ faults' \in 0..MaxFaults
<1>1. /\ session \in [Procs -> {"up", "broken"}]
      /\ faults \in Nat /\ faults <= MaxFaults /\ MaxFaults \in Nat
  BY BoundAssumption DEF TypeOK
<1>2. faults' \in 0..MaxFaults
  BY <1>1, SMT DEF RpcFails
<1>3. session' \in [Procs -> {"up", "broken"}]
  BY <1>1 DEF RpcFails
<1>4. QED
  BY <1>2, <1>3

LEMMA CommitType ==
    ASSUME TypeOK, NEW p \in Procs, NEW err, CommitAnswer(p, err)
    PROVE  /\ IsAcl(running')
           /\ session' \in [Procs -> {"up", "broken"}] /\ faults' \in 0..MaxFaults
BY RpcFailsType DEF CommitAnswer, TypeOK

LEMMA InitType == Init => TypeOK
<1> SUFFICES ASSUME Init PROVE TypeOK
  OBVIOUS
<1>1. IsAcl(running) /\ IsAcl(candidate)
  BY InputAssumption DEF Init
<1>2. /\ NoCall \in Calls /\ FirstRuleId \in Nat /\ "down" \in Steps /\ <<>> \in Seq(Item)
      /\ 0 \in 0..MaxFaults /\ 0 \in 0..MaxStarts
  BY BoundAssumption DEF Calls, FirstRuleId, Steps
<1>3. \A q \in Procs : IsEdit(edits[q]) /\ IsCache(cache[q])
  BY NoRulesType DEF Init
<1>4. edits = [q \in Procs |-> edits[q]] /\ cache = [q \in Procs |-> cache[q]]
  BY DEF Init
<1>5. QED
  BY <1>1, <1>2, <1>3, <1>4 DEF Init, TypeOK

--------------------------------------------------------------------------------
(* One lemma per action of a process.                                      *)

LEMMA StartType == ASSUME TypeOK, NEW p \in Procs, Start(p) PROVE TypeOK'
<1>1. starts' \in 0..MaxStarts
  BY BoundAssumption, SMT DEF Start, TypeOK
<1>2. PICK flush \in FlushOptions :
          /\ pc' = [pc EXCEPT ![p] = IF flush THEN "flushDelete" ELSE "load"]
          /\ call' = [call EXCEPT ![p] = [op |-> "init", flush |-> flush]]
  BY DEF Start
<1>3. [op |-> "init", flush |-> flush] \in Calls
  BY InputAssumption DEF Calls
<1>4. pc' \in [Procs -> Steps] /\ call' \in [Procs -> Calls]
  BY <1>2, <1>3 DEF TypeOK, Steps
<1>5. QED
  BY <1>1, <1>4 DEF Start, TypeOK, device, locals

LEMMA FlushDeleteType == ASSUME TypeOK, NEW p \in Procs, FlushDelete(p) PROVE TypeOK'
<1>1. IsAcl(candidate')
  BY NoRulesType DEF FlushDelete, TypeOK
<1>2. session' \in [Procs -> {"up", "broken"}] /\ faults' \in 0..MaxFaults
  BY RpcFailsType DEF FlushDelete, TypeOK
<1>3. pc' \in [Procs -> Steps] /\ UNCHANGED <<call, reply>>
  BY DEF FlushDelete, Continue, TypeOK, Steps
<1>4. QED
  BY <1>1, <1>2, <1>3 DEF FlushDelete, TypeOK, locals

LEMMA FlushDefaultType == ASSUME TypeOK, NEW p \in Procs, FlushDefault(p) PROVE TypeOK'
<1> DEFINE withDefault == Overlay(candidate, [i \in {DefaultRuleId} |-> DefaultRule])
<1>1. IsAcl(withDefault)
  <2>1. IsAcl([i \in {DefaultRuleId} |-> DefaultRule])
    BY SingleRuleType, DefaultRuleType, BoundAssumption
  <2>2. IsAcl(candidate)
    BY DEF TypeOK
  <2> QED
    BY <2>1, <2>2, OverlayType
<1>2. IsAcl(candidate')
  <2>1. candidate' = withDefault \/ candidate' = candidate
    BY DEF FlushDefault
  <2> QED
    BY <1>1, <2>1 DEF TypeOK
<1>3. session' \in [Procs -> {"up", "broken"}] /\ faults' \in 0..MaxFaults
  BY RpcFailsType DEF FlushDefault, TypeOK
<1>4. pc' \in [Procs -> Steps] /\ UNCHANGED <<call, reply>>
  BY DEF FlushDefault, Continue, TypeOK, Steps
<1>5. QED
  BY <1>2, <1>3, <1>4 DEF FlushDefault, TypeOK, locals

LEMMA FlushCommitType == ASSUME TypeOK, NEW p \in Procs, FlushCommit(p) PROVE TypeOK'
<1>1. pc' \in [Procs -> Steps] /\ UNCHANGED <<call, reply>>
  BY DEF FlushCommit, Continue, TypeOK, Steps
<1>2. QED
  BY <1>1, CommitType DEF FlushCommit, TypeOK, locals

LEMMA LoadType == ASSUME TypeOK, NEW p \in Procs, Load(p) PROVE TypeOK'
<1>1. IsCache([i \in SteeringIds(running) |-> running[i].flow])
  BY DEF TypeOK, IsAcl, IsCache, SteeringIds
<1>2. /\ \A q \in Procs : IsCache(cache'[q])
      /\ cache' = [q \in Procs |-> cache'[q]]
  BY <1>1 DEF Load, TypeOK
<1>3. \A n \in {FirstRuleId} \cup {i + RuleIdStep : i \in DOMAIN running} : n \in Nat
  BY DEF FirstRuleId, RuleIdStep, TypeOK, IsAcl
<1>4. nextId' \in [Procs -> Nat]
  BY <1>3 DEF Load, TypeOK
<1>5. QED
  BY <1>2, <1>4, ReturnType DEF Load, TypeOK, device, bounds

LEMMA PanicType ==
    ASSUME TypeOK, NEW p \in Procs, LoadPanics(p) \/ GetSteerInterfacePanics(p)
    PROVE  TypeOK'
<1>1. /\ session[p] = "broken" \/ faults < MaxFaults
      /\ faults' = IF SessionUp(p) THEN faults + 1 ELSE faults
      /\ Exit(p) /\ UNCHANGED <<device, starts>>
  BY DEF LoadPanics, GetSteerInterfacePanics
<1>2. faults \in Nat /\ faults <= MaxFaults /\ MaxFaults \in Nat
  BY BoundAssumption DEF TypeOK
<1>3. faults' \in 0..MaxFaults
  BY <1>1, <1>2, SMT DEF SessionUp
<1>4. QED
  BY <1>1, <1>3, ExitType

LEMMA SteerType ==
    ASSUME TypeOK, NEW p \in Procs, NEW batch \in Batches, Steer(p, batch) PROVE TypeOK'
<1>1. [op |-> "steer", items |-> batch] \in Calls /\ batch \in Seq(Item)
  BY InputAssumption DEF Calls
<1>2. QED
  BY <1>1 DEF Steer, TypeOK, Steps, device, bounds

LEMMA SteerItemType == ASSUME TypeOK, NEW p \in Procs, SteerItem(p) PROVE TypeOK'
<1> DEFINE item == Head(todo[p])
<1>1. item \in Item /\ Tail(todo[p]) \in Seq(Item)
  BY DEF SteerItem, TypeOK
<1>2. HopAddr(item.hop) \in Addrs
  BY <1>1 DEF HopAddr, Addrs, Item
<1>3. [flow |-> item.flow, addr |-> HopAddr(item.hop)] \in [flow : Flows, addr : Addrs]
  BY <1>1, <1>2 DEF Item
<1>4. nextId' \in [Procs -> Nat]
  BY DEF SteerItem, IdAfter, RuleIdStep, TypeOK
<1>5. PICK id \in DOMAIN cache[p] \cup {nextId[p]} :
          edits' = [edits EXCEPT ![p] = Overlay(@,
                       [i \in {id} |-> [flow |-> item.flow, addr |-> HopAddr(item.hop)]])]
  BY DEF SteerItem
<1>6. id \in Nat
  BY DEF TypeOK, IsCache
<1>7. IsEdit([i \in {id} |-> [flow |-> item.flow, addr |-> HopAddr(item.hop)]])
  BY <1>3, <1>6 DEF IsEdit
<1>8. /\ \A q \in Procs : IsEdit(edits'[q])
      /\ edits' = [q \in Procs |-> edits'[q]]
  BY <1>5, <1>7, OverlayType DEF TypeOK
<1>9. todo' \in [Procs -> Seq(Item)]
  BY <1>1 DEF SteerItem, TypeOK
<1>10. QED
  BY <1>4, <1>8, <1>9 DEF SteerItem, TypeOK, device, bounds

LEMMA SteerEndsType ==
    ASSUME TypeOK, NEW p \in Procs, SteerUnknownHop(p) \/ SteerNothing(p)
    PROVE  TypeOK'
BY ReturnType DEF SteerUnknownHop, SteerNothing, TypeOK, device, bounds

LEMMA SteerEditType == ASSUME TypeOK, NEW p \in Procs, SteerEdit(p) PROVE TypeOK'
<1>1. CASE EditApplies(p) /\ Continue(p, "steerCommit") /\ UNCHANGED <<session, locals, faults>>
  <2>1. IsAcl(candidate')
    BY <1>1, EditIsAcl, OverlayType DEF EditApplies, TypeOK
  <2>2. QED
    BY <1>1, <2>1 DEF SteerEdit, Continue, TypeOK, Steps, locals
<1>2. CASE EditFails(p) /\ Return(p, "error") /\ UNCHANGED call
  <2>1. PICK part \in AppliedParts(p, DOMAIN edits[p]) :
            candidate' = Overlay(candidate, Restrict(edits[p], part))
    BY <1>2 DEF EditFails
  <2>2. part \in SUBSET DOMAIN edits[p]
    BY DEF AppliedParts
  <2>3. IsAcl(candidate')
    BY <2>1, <2>2, EditIsAcl, RestrictType, OverlayType DEF TypeOK
  <2>4. QED
    BY <1>2, <2>3, ReturnType, RpcFailsType DEF SteerEdit, EditFails, TypeOK
<1>3. QED
  BY <1>1, <1>2 DEF SteerEdit

\* The last step of Steer and of RemoveSteer, whatever it does to the cache.
LEMMA FinishType ==
    ASSUME TypeOK, NEW p \in Procs, NEW err, CommitAnswer(p, err),
           NEW c, IsCache(c),
           \/ cache' = [cache EXCEPT ![p] = c] /\ Return(p, "nil")
           \/ Return(p, "error") /\ UNCHANGED cache,
           UNCHANGED <<candidate, nextId, call, starts>>
    PROVE  TypeOK'
<1>1. (\A q \in Procs : IsCache(cache'[q])) /\ cache' = [q \in Procs |-> cache'[q]]
  BY DEF TypeOK
<1>2. PICK r \in {"nil", "error"} : Return(p, r)
  OBVIOUS
<1>3. QED
  BY <1>1, <1>2, ReturnType, CommitType DEF TypeOK

LEMMA SteerCommitType == ASSUME TypeOK, NEW p \in Procs, SteerCommit(p) PROVE TypeOK'
<1>1. IsCache(SteeredFlows(p))
  BY DEF SteeredFlows, TypeOK, IsEdit, IsCache
<1>2. IsCache(Overlay(cache[p], SteeredFlows(p)))
  BY <1>1, OverlayType DEF TypeOK
<1>3. QED
  BY <1>2, FinishType DEF SteerCommit, TypeOK

LEMMA RemoveSteerType ==
    ASSUME TypeOK, NEW p \in Procs, NEW fs \in RemoveSets, RemoveSteer(p, fs) PROVE TypeOK'
<1> DEFINE ids == {i \in DOMAIN cache[p] : cache[p][i] \in fs}
<1>1. ids \in SUBSET Nat
  BY DEF TypeOK, IsCache
<1>2. [op |-> "remove", flows |-> fs] \in Calls
  BY DEF Calls
<1>3. dels' \in [Procs -> SUBSET Nat] /\ call' \in [Procs -> Calls]
  BY <1>1, <1>2 DEF RemoveSteer, TypeOK
<1>4. /\ pc' \in [Procs -> Steps]
      /\ reply' \in [Procs -> {"none", "nil", "error", "yes", "no"}]
  BY DEF RemoveSteer, TypeOK, Steps
<1>5. QED
  BY <1>3, <1>4 DEF RemoveSteer, TypeOK, device, bounds

LEMMA RemoveEditType == ASSUME TypeOK, NEW p \in Procs, RemoveEdit(p) PROVE TypeOK'
<1>1. IsAcl(candidate')
  <2>1. \A ids : IsAcl(Without(candidate, ids))
    BY WithoutType DEF TypeOK
  <2>2. \E ids : candidate' = Without(candidate, ids)
    BY DEF RemoveEdit, DeleteApplies, DeleteFails
  <2>3. QED
    BY <2>1, <2>2
<1>2. CASE DeleteApplies(p) /\ Continue(p, "removeCommit") /\ UNCHANGED <<session, locals, faults>>
  BY <1>1, <1>2 DEF RemoveEdit, Continue, TypeOK, Steps, locals
<1>3. CASE DeleteFails(p) /\ Return(p, "error") /\ UNCHANGED call
  <2>1. session' \in [Procs -> {"up", "broken"}] /\ faults' \in 0..MaxFaults
    BY <1>3, RpcFailsType DEF DeleteFails, TypeOK
  <2>2. QED
    BY <1>1, <1>3, <2>1, ReturnType DEF RemoveEdit, TypeOK
<1>4. QED
  BY <1>2, <1>3 DEF RemoveEdit

LEMMA RemoveCommitType == ASSUME TypeOK, NEW p \in Procs, RemoveCommit(p) PROVE TypeOK'
<1>1. IsCache(Without(cache[p], dels[p]))
  BY WithoutType DEF TypeOK
<1>2. QED
  BY <1>1, FinishType DEF RemoveCommit, TypeOK

LEMMA GetSteerInterfaceType ==
    ASSUME TypeOK, NEW p \in Procs, NEW batch \in Batches, GetSteerInterface(p, batch)
    PROVE  TypeOK'
<1>1. [op |-> "verify", items |-> batch] \in Calls
  BY DEF Calls
<1>2. reply' \in [Procs -> {"none", "nil", "error", "yes", "no"}]
  BY DEF GetSteerInterface, TypeOK
<1>3. QED
  BY <1>1, <1>2 DEF GetSteerInterface, TypeOK, device, locals, bounds

LEMMA StopType == ASSUME TypeOK, NEW p \in Procs, Stop(p) PROVE TypeOK'
BY ExitType DEF Stop, bounds, TypeOK

LEMMA StutterType == ASSUME TypeOK, UNCHANGED vars PROVE TypeOK'
BY DEF TypeOK, vars

\* TypeOK holds in every behaviour, for every value of the constants: whatever the
\* router answers and whenever processes die, no cache ever holds the default rule.
THEOREM TypeCorrect == Spec => []TypeOK
<1>1. TypeOK /\ [Next]_vars => TypeOK'
  <2> SUFFICES ASSUME TypeOK, [Next]_vars PROVE TypeOK'
    OBVIOUS
  <2>1. ASSUME NEW p \in Procs, Step(p) PROVE TypeOK'
    BY <2>1, StartType, FlushDeleteType, FlushDefaultType, FlushCommitType, LoadType,
       PanicType, SteerType, SteerItemType, SteerEndsType, SteerEditType,
       SteerCommitType, RemoveSteerType, RemoveEditType, RemoveCommitType,
       GetSteerInterfaceType, StopType DEF Step
  <2>2. QED
    BY <2>1, StutterType DEF Next
<1>2. QED
  BY <1>1, InitType, PTL DEF Spec

--------------------------------------------------------------------------------
(* What a nil return means, for a process that has the router to itself.   *)

\* What makes the acknowledgements true: an edit that was accepted stays in the
\* candidate until the same process commits.
AckInv(q) ==
    /\ pc[q] = "steerCommit"  => IsRestriction(edits[q], candidate)
    /\ pc[q] = "removeCommit" => dels[q] \cap DOMAIN candidate = {}

LEMMA ReturnPc == ASSUME TypeOK, NEW p \in Procs, NEW r, Return(p, r)
                  PROVE  pc'[p] = "idle" /\ reply'[p] = r
BY DEF Return, TypeOK

LEMMA ContinuePc == ASSUME TypeOK, NEW p \in Procs, NEW s, Continue(p, s)
                    PROVE  pc'[p] = s /\ UNCHANGED <<call, reply>>
BY DEF Continue, TypeOK

LEMMA ExitPc == ASSUME TypeOK, NEW p \in Procs, Exit(p)
                PROVE  pc'[p] = "down" /\ reply'[p] = "none"
BY DEF Exit, TypeOK

\* Where each action leaves the program counter of its process.
LEMMA StepPc ==
    ASSUME TypeOK, NEW p \in Procs, Step(p)
    PROVE  \/ pc'[p] \notin {"steerCommit", "removeCommit"}
           \/ SteerEdit(p) /\ pc'[p] = "steerCommit"
           \/ RemoveEdit(p) /\ pc'[p] = "removeCommit"
<1>1. ASSUME Start(p) \/ FlushDelete(p) \/ FlushDefault(p) \/ FlushCommit(p)
      PROVE  pc'[p] \notin {"steerCommit", "removeCommit"}
  BY <1>1, ContinuePc DEF Start, FlushDelete, FlushDefault, FlushCommit, TypeOK
<1>2. ASSUME Load(p) \/ LoadPanics(p) \/ GetSteerInterfacePanics(p) \/ Stop(p)
      PROVE  pc'[p] \notin {"steerCommit", "removeCommit"}
  BY <1>2, ReturnPc, ExitPc DEF Load, LoadPanics, GetSteerInterfacePanics, Stop
<1>3. ASSUME \/ \E batch \in Batches : Steer(p, batch) \/ GetSteerInterface(p, batch)
             \/ SteerItem(p)
             \/ \E fs \in RemoveSets : RemoveSteer(p, fs)
      PROVE  pc'[p] \notin {"steerCommit", "removeCommit"}
  BY <1>3 DEF Steer, GetSteerInterface, SteerItem, RemoveSteer, TypeOK
<1>4. ASSUME SteerUnknownHop(p) \/ SteerNothing(p) \/ SteerCommit(p) \/ RemoveCommit(p)
      PROVE  pc'[p] \notin {"steerCommit", "removeCommit"}
  BY <1>4, ReturnPc DEF SteerUnknownHop, SteerNothing, SteerCommit, RemoveCommit
<1>5. ASSUME SteerEdit(p) PROVE pc'[p] \in {"idle", "steerCommit"}
  BY <1>5, ReturnPc, ContinuePc DEF SteerEdit
<1>6. ASSUME RemoveEdit(p) PROVE pc'[p] \in {"idle", "removeCommit"}
  BY <1>6, ReturnPc, ContinuePc DEF RemoveEdit
<1>7. QED
  BY <1>1, <1>2, <1>3, <1>4, <1>5, <1>6 DEF Step

LEMMA AckInvStep ==
    ASSUME NEW q, Procs = {q}, TypeOK, AckInv(q), [Next]_vars
    PROVE  AckInv(q)'
<1>1. ASSUME Step(q) PROVE AckInv(q)'
  <2>1. CASE pc'[q] \notin {"steerCommit", "removeCommit"}
    BY <2>1 DEF AckInv
  <2>2. CASE SteerEdit(q) /\ pc'[q] = "steerCommit"
    <3>1. EditApplies(q) /\ UNCHANGED edits
      <4>1. ~ Return(q, "error")
        BY <2>2, ReturnPc
      <4>2. QED
        BY <2>2, <4>1 DEF SteerEdit, locals
    <3>2. IsRestriction(edits[q], Overlay(candidate, edits[q]))
      BY DEF IsRestriction, Overlay
    <3>3. QED
      BY <2>2, <3>1, <3>2 DEF AckInv, EditApplies
  <2>3. CASE RemoveEdit(q) /\ pc'[q] = "removeCommit"
    <3>1. DeleteApplies(q) /\ UNCHANGED dels
      <4>1. ~ Return(q, "error")
        BY <2>3, ReturnPc
      <4>2. QED
        BY <2>3, <4>1 DEF RemoveEdit, locals
    <3>2. dels[q] \cap DOMAIN Without(candidate, dels[q]) = {}
      BY DEF Without, Restrict
    <3>3. QED
      BY <2>3, <3>1, <3>2 DEF AckInv, DeleteApplies
  <2>4. QED
    BY <1>1, <2>1, <2>2, <2>3, StepPc
<1>2. CASE UNCHANGED vars
  BY <1>2 DEF AckInv, vars
<1>3. QED
  BY <1>1, <1>2 DEF Next

\* A commit that counts as a success leaves the router running the candidate.
LEMMA SuccessPublishes ==
    ASSUME NEW p \in Procs, NEW err, CommitAnswer(p, err), IsSuccess(err)
    PROVE  running' = candidate
BY DEF CommitAnswer, IsSuccess

\* The only action that can make an operation return nil from a commit is the commit.
LEMMA NilFromCommit ==
    ASSUME TypeOK, NEW p \in Procs, Step(p), reply'[p] = "nil",
           pc[p] \in {"steerCommit", "removeCommit"}
    PROVE  running' = candidate
<1>1. SteerCommit(p) \/ RemoveCommit(p)
  <2>1. \/ SteerCommit(p) \/ RemoveCommit(p) \/ Stop(p)
    BY DEF Step, Start, FlushDelete, FlushDefault, FlushCommit, Load, LoadPanics, Steer,
       SteerItem, SteerUnknownHop, SteerNothing, SteerEdit, RemoveSteer, RemoveEdit,
       GetSteerInterface, GetSteerInterfacePanics
  <2>2. QED
    BY <2>1, ExitPc DEF Stop
<1>2. PICK err \in CommitErrors : CommitAnswer(p, err) /\ IsSuccess(err)
  BY <1>1, ReturnPc DEF SteerCommit, RemoveCommit
<1>3. QED
  BY <1>2, SuccessPublishes

\* When Steer returns nil to a process that has the router to itself, the router
\* runs every rule of the batch; when RemoveSteer does, it runs none of the rules
\* that were to be deleted.  This holds whatever RPC failed before, wherever earlier
\* processes died, for any router contents and in every order of calls.
THEOREM Acknowledged ==
    ASSUME NEW q, Procs = {q}
    PROVE  Spec => SteerAck /\ RemoveAck
<1>1. Init => AckInv(q)
  BY DEF Init, AckInv
<1>2. TypeOK /\ AckInv(q) /\ [Next]_vars => AckInv(q)'
  BY AckInvStep
<1>3. TypeOK /\ AckInv(q) /\ [Next]_vars =>
        [\A p \in Procs : pc[p] = "steerCommit" /\ reply'[p] = "nil"
                             => IsRestriction(edits[p], running')]_vars
  BY NilFromCommit DEF AckInv, Next
<1>4. TypeOK /\ AckInv(q) /\ [Next]_vars =>
        [\A p \in Procs : pc[p] = "removeCommit" /\ reply'[p] = "nil"
                             => dels[p] \cap DOMAIN running' = {}]_vars
  BY NilFromCommit DEF AckInv, Next
<1>5. QED
  BY <1>1, <1>2, <1>3, <1>4, TypeCorrect, PTL DEF Spec, SteerAck, RemoveAck

--------------------------------------------------------------------------------
(* A rule id belongs to one flow.                                          *)

\* A router configuration from which InitNetConf derives an unused id: every rule but
\* the default one is for a flow, and 10 is not the highest id.
WellNumbered(acl) ==
    /\ \A i \in DOMAIN acl \ {DefaultRuleId} : acl[i].flow \in Flows
    /\ DefaultRuleId \in DOMAIN acl => acl[DefaultRuleId].flow = AnyFlow
    /\ FirstRuleId \in DOMAIN acl \ {DefaultRuleId} =>
          \E i \in DOMAIN acl \ {DefaultRuleId} : i > FirstRuleId

\* Somewhere in the system id i stands for flow f.
Claims(q, i, f) ==
    \/ i \in DOMAIN running   /\ running[i].flow = f
    \/ i \in DOMAIN candidate /\ candidate[i].flow = f
    \/ i \in DOMAIN cache[q]  /\ cache[q][i] = f
    \/ i \in DOMAIN edits[q]  /\ edits[q][i].flow = f

Loading == {"flushDelete", "flushDefault", "flushCommit", "load"}

\* The router and the process before the cache is loaded.
Unloaded(q) ==
    /\ cache[q] = NoRules /\ edits[q] = NoRules
    /\ WellNumbered(running)
    /\ DOMAIN candidate \subseteq DOMAIN running \cup {DefaultRuleId}
    /\ pc[q] = "flushDefault" => candidate = NoRules
    /\ pc[q] = "flushCommit"  => DOMAIN candidate = {DefaultRuleId}

\* No two claims about an id differ, the default rule is nobody's, and the next id
\* is above all ids in use and below the default rule's.
IdInv(q) ==
    \/ pc[q] = "down" /\ starts = MaxStarts
    \/ /\ \A i, f, g : Claims(q, i, f) /\ Claims(q, i, g) => f = g
       /\ \A f : Claims(q, DefaultRuleId, f) => f = AnyFlow
       /\ pc[q] \in Loading \cup {"down"} => Unloaded(q)
       /\ pc[q] \notin Loading \cup {"down"} =>
             \A i, f : Claims(q, i, f) /\ i # DefaultRuleId => i < nextId[q]
       /\ pc[q] = "steering" => nextId[q] + Len(todo[q]) * RuleIdStep <= MaxRuleId

\* Whatever claims no more than before and is still numbered below nextId is harmless.
LEMMA NoNewClaims ==
    ASSUME NEW q,
           \A i, f, g : Claims(q, i, f) /\ Claims(q, i, g) => f = g,
           \A f : Claims(q, DefaultRuleId, f) => f = AnyFlow,
           \A i, f : Claims(q, i, f)' => Claims(q, i, f)
    PROVE  /\ \A i, f, g : Claims(q, i, f)' /\ Claims(q, i, g)' => f = g
           /\ \A f : Claims(q, DefaultRuleId, f)' => f = AnyFlow
OBVIOUS

\* A commit moves no id: what the router runs afterwards it ran or had as candidate.
LEMMA CommitClaims ==
    ASSUME NEW p, NEW err, CommitAnswer(p, err)
    PROVE  running' \in {running, candidate}
BY DEF CommitAnswer, RpcFails

\* What the theorem assumes: one process, started once, on a well-numbered router that
\* lists its rules in order, and fewer allocations than lead to the default rule's id.
OneLife(q) ==
    /\ Procs = {q} /\ MaxStarts = 1 /\ SortedReply
    /\ MaxRuleId <= DefaultRuleId
    /\ \A c \in InitialConfigs : WellNumbered(c)

\* The state of the system while the process is up and its cache is loaded.
Known(q) == \A i, f : Claims(q, i, f) /\ i # DefaultRuleId => i < nextId[q]

LEMMA IdInvInit == ASSUME NEW q, OneLife(q), Init PROVE IdInv(q)
<1>1. running = candidate /\ WellNumbered(running) /\ pc[q] = "down"
  BY DEF Init, OneLife
<1>2. cache[q] = NoRules /\ edits[q] = NoRules
  BY DEF Init, OneLife
<1>3. \A i, f : Claims(q, i, f) <=> i \in DOMAIN running /\ running[i].flow = f
  BY <1>1, <1>2 DEF Claims, NoRules
<1>4. Unloaded(q)
  BY <1>1, <1>2 DEF Unloaded
<1>5. QED
  BY <1>1, <1>3, <1>4 DEF IdInv, WellNumbered, Loading

\* Starting and flushing: nothing is in the cache and no id changes hands.
LEMMA IdInvLoading ==
    ASSUME NEW q, OneLife(q), TypeOK, IdInv(q),
           Start(q) \/ FlushDelete(q) \/ FlushDefault(q) \/ FlushCommit(q)
    PROVE  IdInv(q)'
<1>1. /\ q \in Procs /\ MaxStarts = 1 /\ starts \in Nat
      /\ ~ (pc[q] = "down" /\ starts = MaxStarts)
  BY BoundAssumption, SMT DEF OneLife, TypeOK, Start, FlushDelete, FlushDefault, FlushCommit
<1>2. /\ \A i, f, g : Claims(q, i, f) /\ Claims(q, i, g) => f = g
      /\ \A f : Claims(q, DefaultRuleId, f) => f = AnyFlow
      /\ Unloaded(q)
  BY <1>1 DEF IdInv, Loading, Start, FlushDelete, FlushDefault, FlushCommit
<1>3. pc'[q] \in Loading /\ UNCHANGED <<cache, edits>>
  BY <1>1, ContinuePc DEF Start, FlushDelete, FlushDefault, FlushCommit, Loading, TypeOK, locals
<1>4. CASE Start(q)
  <2>1. UNCHANGED <<running, candidate>> /\ pc'[q] \in {"flushDelete", "load"}
    BY <1>1, <1>4 DEF Start, device, TypeOK
  <2>2. Unloaded(q)'
    BY <1>2, <1>3, <2>1 DEF Unloaded
  <2>3. \A i, f : Claims(q, i, f)' => Claims(q, i, f)
    BY <1>3, <2>1 DEF Claims
  <2>4. QED
    BY <1>2, <1>3, <2>2, <2>3, NoNewClaims DEF IdInv, Loading
<1>5. CASE FlushDelete(q)
  <2>1. UNCHANGED running /\ candidate' \in {candidate, NoRules}
    BY <1>5 DEF FlushDelete
  <2>2. pc'[q] \in {"flushDefault", "load"} /\ (pc'[q] = "flushDefault" => candidate' = NoRules)
    BY <1>1, <1>5, ContinuePc DEF FlushDelete
  <2>3. Unloaded(q)'
    BY <1>2, <1>3, <2>1, <2>2 DEF Unloaded, NoRules
  <2>4. \A i, f : Claims(q, i, f)' => Claims(q, i, f)
    BY <1>3, <2>1 DEF Claims, NoRules
  <2>5. QED
    BY <1>2, <1>3, <2>3, <2>4, NoNewClaims DEF IdInv, Loading
<1>6. CASE FlushDefault(q)
  <2> DEFINE withDefault == Overlay(candidate, [i \in {DefaultRuleId} |-> DefaultRule])
  <2>1. candidate = NoRules
    BY <1>2, <1>6 DEF Unloaded, FlushDefault
  <2>2. UNCHANGED running /\ candidate' \in {NoRules, withDefault}
    BY <1>6, <2>1 DEF FlushDefault
  <2>3. DOMAIN withDefault = {DefaultRuleId} /\ withDefault[DefaultRuleId].flow = AnyFlow
    BY <2>1 DEF Overlay, NoRules, DefaultRule
  <2>4. /\ pc'[q] \in {"flushCommit", "load"}
        /\ pc'[q] = "flushCommit" => candidate' = withDefault
    BY <1>1, <1>6, ContinuePc DEF FlushDefault
  <2>5. Unloaded(q)'
    BY <1>2, <1>3, <2>2, <2>3, <2>4 DEF Unloaded, NoRules
  <2>6. \A i, f : Claims(q, i, f)' => Claims(q, i, f) \/ (i = DefaultRuleId /\ f = AnyFlow)
    BY <1>3, <2>2, <2>3 DEF Claims, NoRules
  <2>7. /\ \A i, f, g : Claims(q, i, f)' /\ Claims(q, i, g)' => f = g
        /\ \A f : Claims(q, DefaultRuleId, f)' => f = AnyFlow
    BY <1>2, <2>6
  <2>8. QED
    BY <1>3, <2>5, <2>7 DEF IdInv, Loading
<1>7. CASE FlushCommit(q)
  <2>1. UNCHANGED candidate /\ running' \in {running, candidate} /\ pc'[q] = "load"
    BY <1>1, <1>7, CommitClaims, ContinuePc DEF FlushCommit
  <2>2. DOMAIN candidate = {DefaultRuleId}
    BY <1>2, <1>7 DEF Unloaded, FlushCommit
  <2>3. WellNumbered(candidate)
    BY <1>2, <2>2 DEF WellNumbered, Claims
  <2>4. Unloaded(q)'
    BY <1>2, <1>3, <2>1, <2>2, <2>3 DEF Unloaded
  <2>5. \A i, f : Claims(q, i, f)' => Claims(q, i, f)
    BY <1>3, <2>1 DEF Claims
  <2>6. QED
    BY <1>2, <1>3, <2>4, <2>5, NoNewClaims DEF IdInv, Loading
<1>8. QED
  BY <1>4, <1>5, <1>6, <1>7

\* The first id the process will allocate is above everything the router has.
LEMMA IdInvLoad ==
    ASSUME NEW q, OneLife(q), TypeOK, IdInv(q), Load(q)
    PROVE  IdInv(q)'
<1>1. /\ q \in Procs /\ pc[q] = "load" /\ pc'[q] = "idle"
      /\ UNCHANGED <<running, candidate>>
  BY ReturnPc DEF OneLife, Load, device
<1>2. /\ \A i, f, g : Claims(q, i, f) /\ Claims(q, i, g) => f = g
      /\ \A f : Claims(q, DefaultRuleId, f) => f = AnyFlow
      /\ Unloaded(q)
  BY <1>1 DEF IdInv, Loading
<1>3. /\ cache'[q] = [i \in SteeringIds(running) |-> running[i].flow]
      /\ edits'[q] = NoRules
  BY <1>1 DEF Load, Return, TypeOK
<1>4. \A i, f : Claims(q, i, f)' => Claims(q, i, f)
  BY <1>1, <1>3 DEF Claims, SteeringIds, NoRules
<1>5. SteeringIds(running) = DOMAIN running \ {DefaultRuleId}
  BY <1>2 DEF SteeringIds, Unloaded, WellNumbered
<1>6. PICK n \in {FirstRuleId} \cup {i + RuleIdStep : i \in DOMAIN running} :
          LoadedNextId(n) /\ nextId'[q] = n
  BY <1>1 DEF Load, TypeOK
<1>7. DOMAIN running \subseteq Nat
  BY DEF TypeOK, IsAcl
<1>8. \A i \in DOMAIN running \ {DefaultRuleId} : i < n
  <2> DEFINE above == {i \in SteeringIds(running) : i > FirstRuleId}
  <2>1. CASE above = {}
    <3>1. n = FirstRuleId
      BY <1>6, <2>1 DEF LoadedNextId
    <3>2. FirstRuleId \notin DOMAIN running \ {DefaultRuleId}
      BY <1>2, <1>5, <2>1 DEF Unloaded, WellNumbered
    <3>3. QED
      BY <1>5, <1>7, <2>1, <3>1, <3>2 DEF FirstRuleId
  <2>2. CASE above # {}
    <3>1. PICK m \in above : (\A j \in above : j <= m) /\ n = m + RuleIdStep
      BY <1>6, <2>2 DEF LoadedNextId, OneLife
    <3>2. QED
      BY <1>5, <1>7, <3>1 DEF FirstRuleId, RuleIdStep
  <2>3. QED
    BY <2>1, <2>2
<1>9. \A i, f : Claims(q, i, f)' /\ i # DefaultRuleId => i \in DOMAIN running
  BY <1>1, <1>2, <1>3, <1>5 DEF Claims, Unloaded, NoRules
<1>10. Known(q)'
  BY <1>6, <1>8, <1>9 DEF Known
<1>11. QED
  BY <1>1, <1>2, <1>4, <1>10, NoNewClaims DEF IdInv, Known, Loading

\* An item of a batch: the cached id of its flow, or one that nothing else claims.
LEMMA IdInvSteerItem ==
    ASSUME NEW q, OneLife(q), TypeOK, IdInv(q), SteerItem(q)
    PROVE  IdInv(q)'
<1> DEFINE item == Head(todo[q])
<1>1. /\ q \in Procs /\ pc[q] = "steering" /\ UNCHANGED <<running, candidate, pc, cache>>
      /\ todo[q] \in Seq(Item) /\ todo[q] # <<>> /\ item \in Item
      /\ todo'[q] = Tail(todo[q])
  BY DEF OneLife, SteerItem, device, TypeOK
<1>2. /\ \A i, f, g : Claims(q, i, f) /\ Claims(q, i, g) => f = g
      /\ \A f : Claims(q, DefaultRuleId, f) => f = AnyFlow
      /\ Known(q)
      /\ nextId[q] + Len(todo[q]) * RuleIdStep <= MaxRuleId
  BY <1>1 DEF IdInv, Known, Loading
<1>3. PICK id \in DOMAIN cache[q] \cup {nextId[q]} :
          /\ ChosenId(q, item.flow, id)
          /\ edits'[q] = Overlay(edits[q],
                [i \in {id} |-> [flow |-> item.flow, addr |-> HopAddr(item.hop)]])
  BY <1>1 DEF SteerItem, TypeOK
<1>4. Len(todo[q]) \in Nat /\ Len(todo[q]) # 0 /\ Len(todo'[q]) = Len(todo[q]) - 1
  BY <1>1
<1>5. nextId[q] \in Nat /\ nextId'[q] \in {nextId[q], nextId[q] + RuleIdStep}
  BY <1>1 DEF SteerItem, IdAfter, TypeOK
<1>6. nextId[q] < DefaultRuleId
  BY <1>2, <1>4, <1>5, BoundAssumption, SMT DEF OneLife, RuleIdStep
<1>7. nextId'[q] + Len(todo'[q]) * RuleIdStep <= MaxRuleId
  BY <1>2, <1>4, <1>5, BoundAssumption, SMT DEF RuleIdStep
<1>8. \A i, f : Claims(q, i, f)' => Claims(q, i, f) \/ (i = id /\ f = item.flow)
  BY <1>1, <1>3 DEF Claims, Overlay
<1>9. CASE CachedIds(q, item.flow) # {}
  <2>1. Claims(q, id, item.flow) /\ nextId'[q] = nextId[q]
    BY <1>1, <1>3, <1>9 DEF ChosenId, CachedIds, Claims, SteerItem, IdAfter, TypeOK
  <2>2. \A i, f : Claims(q, i, f)' => Claims(q, i, f)
    BY <1>8, <2>1
  <2>3. Known(q)'
    BY <1>2, <2>1, <2>2 DEF Known
  <2>4. QED
    BY <1>1, <1>2, <1>7, <2>2, <2>3, NoNewClaims DEF IdInv, Known, Loading
<1>10. CASE CachedIds(q, item.flow) = {}
  <2>1. id = nextId[q] /\ nextId'[q] = nextId[q] + RuleIdStep
    BY <1>1, <1>3, <1>10 DEF ChosenId, SteerItem, IdAfter, TypeOK
  <2>2. id # DefaultRuleId /\ \A f : ~ Claims(q, id, f)
    BY <1>2, <1>5, <1>6, <2>1, BoundAssumption DEF Known
  <2>3. /\ \A i, f, g : Claims(q, i, f)' /\ Claims(q, i, g)' => f = g
        /\ \A f : Claims(q, DefaultRuleId, f)' => f = AnyFlow
    BY <1>2, <1>8, <2>2
  <2>4. \A i, f : Claims(q, i, f) => i \in Nat
    BY <1>1 DEF Claims, TypeOK, IsAcl, IsCache, IsEdit
  <2>5. Known(q)'
    <3> SUFFICES ASSUME NEW i, NEW f, Claims(q, i, f)', i # DefaultRuleId
                 PROVE  i < nextId'[q]
      BY DEF Known
    <3>1. CASE i = id
      BY <1>5, <2>1, <3>1 DEF RuleIdStep
    <3>2. CASE Claims(q, i, f)
      <4>1. i < nextId[q] /\ i \in Nat
        BY <1>2, <2>4, <3>2 DEF Known
      <4>2. QED
        BY <1>5, <2>1, <4>1 DEF RuleIdStep
    <3>3. QED
      BY <1>8, <3>1, <3>2
  <2>6. QED
    BY <1>1, <1>7, <2>3, <2>5 DEF IdInv, Known, Loading
<1>11. QED
  BY <1>9, <1>10

\* Everything else a loaded process does moves existing ids about.
LEMMA IdInvMoves ==
    ASSUME NEW q, OneLife(q), TypeOK, IdInv(q),
           pc[q] \notin Loading \cup {"down"}, pc'[q] \notin Loading \cup {"down"},
           pc'[q] = "steering" => nextId'[q] + Len(todo'[q]) * RuleIdStep <= MaxRuleId,
           nextId'[q] = nextId[q],
           \A i, f : Claims(q, i, f)' => Claims(q, i, f)
    PROVE  IdInv(q)'
<1>1. /\ \A i, f, g : Claims(q, i, f) /\ Claims(q, i, g) => f = g
      /\ \A f : Claims(q, DefaultRuleId, f) => f = AnyFlow
      /\ Known(q)
  BY DEF IdInv, Known, Loading
<1>2. Known(q)'
  BY <1>1 DEF Known
<1>3. QED
  BY <1>1, <1>2, NoNewClaims DEF IdInv, Known

LEMMA IdInvSteer ==
    ASSUME NEW q, OneLife(q), TypeOK, IdInv(q),
           (\E batch \in Batches : Steer(q, batch)) \/ SteerUnknownHop(q) \/ SteerNothing(q)
    PROVE  IdInv(q)'
<1>1. /\ q \in Procs /\ UNCHANGED <<running, candidate, cache, nextId>>
      /\ edits'[q] \in {edits[q], NoRules}
      /\ pc[q] \in {"idle", "steering"} /\ pc'[q] \in {"idle", "steering"}
  BY ReturnPc DEF OneLife, Steer, SteerUnknownHop, SteerNothing, Return, device, TypeOK
<1>2. \A i, f : Claims(q, i, f)' => Claims(q, i, f)
  BY <1>1 DEF Claims, NoRules
<1>3. pc'[q] = "steering" => nextId'[q] + Len(todo'[q]) * RuleIdStep <= MaxRuleId
  BY <1>1, ReturnPc DEF Steer, SteerUnknownHop, SteerNothing, TypeOK
<1>4. QED
  BY <1>1, <1>2, <1>3, IdInvMoves DEF Loading

LEMMA IdInvEdit ==
    ASSUME NEW q, OneLife(q), TypeOK, IdInv(q), SteerEdit(q) \/ RemoveEdit(q)
    PROVE  IdInv(q)'
<1>1. /\ q \in Procs /\ UNCHANGED <<running, cache, nextId>>
      /\ edits'[q] \in {edits[q], NoRules}
      /\ pc[q] \in {"steering", "removing"}
      /\ pc'[q] \in {"idle", "steerCommit", "removeCommit"}
  BY ReturnPc, ContinuePc DEF OneLife, SteerEdit, RemoveEdit, Return, locals, TypeOK
<1>2. \/ \E part \in SUBSET DOMAIN edits[q] :
             candidate' = Overlay(candidate, Restrict(edits[q], part))
      \/ \E ids : candidate' = Without(candidate, ids)
  <2>1. CASE SteerEdit(q) /\ EditApplies(q)
    BY <2>1 DEF EditApplies, Overlay, Restrict
  <2>2. CASE SteerEdit(q) /\ EditFails(q)
    BY <2>2 DEF EditFails, AppliedParts
  <2>3. CASE RemoveEdit(q)
    BY <2>3 DEF RemoveEdit, DeleteApplies, DeleteFails
  <2>4. QED
    BY <2>1, <2>2, <2>3 DEF SteerEdit
<1>3. \A i \in DOMAIN candidate' :
          \/ i \in DOMAIN candidate /\ candidate'[i] = candidate[i]
          \/ i \in DOMAIN edits[q] /\ candidate'[i] = edits[q][i]
  BY <1>2 DEF Overlay, Without, Restrict
<1>4. \A i, f : Claims(q, i, f)' => Claims(q, i, f)
  BY <1>1, <1>3 DEF Claims, NoRules
<1>5. QED
  BY <1>1, <1>4, IdInvMoves DEF Loading

LEMMA IdInvCommit ==
    ASSUME NEW q, OneLife(q), TypeOK, IdInv(q), SteerCommit(q) \/ RemoveCommit(q)
    PROVE  IdInv(q)'
<1>1. /\ q \in Procs /\ UNCHANGED <<candidate, nextId>> /\ edits'[q] = NoRules
      /\ pc[q] \in {"steerCommit", "removeCommit"} /\ pc'[q] = "idle"
  BY ReturnPc DEF OneLife, SteerCommit, RemoveCommit, Return, TypeOK
<1>2. running' \in {running, candidate}
  BY <1>1, CommitClaims DEF SteerCommit, RemoveCommit
<1>3. cache'[q] \in {cache[q], Overlay(cache[q], SteeredFlows(q)), Without(cache[q], dels[q])}
  BY <1>1 DEF SteerCommit, RemoveCommit, TypeOK
<1>4. \A i \in DOMAIN cache'[q] :
          \/ i \in DOMAIN cache[q] /\ cache'[q][i] = cache[q][i]
          \/ i \in DOMAIN edits[q] /\ cache'[q][i] = edits[q][i].flow
  BY <1>3 DEF Overlay, SteeredFlows, Without, Restrict
<1>5. \A i, f : Claims(q, i, f)' => Claims(q, i, f)
  BY <1>1, <1>2, <1>4 DEF Claims, NoRules
<1>6. QED
  BY <1>1, <1>5, IdInvMoves DEF Loading

LEMMA IdInvCalls ==
    ASSUME NEW q, OneLife(q), TypeOK, IdInv(q),
           \/ \E fs \in RemoveSets : RemoveSteer(q, fs)
           \/ \E batch \in Batches : GetSteerInterface(q, batch)
    PROVE  IdInv(q)'
<1>1. /\ q \in Procs /\ UNCHANGED <<running, candidate, cache, nextId, edits>>
      /\ pc[q] = "idle" /\ pc'[q] \in {"idle", "removing"}
  BY DEF OneLife, RemoveSteer, GetSteerInterface, device, locals, TypeOK
<1>2. \A i, f : Claims(q, i, f)' => Claims(q, i, f)
  BY <1>1 DEF Claims
<1>3. QED
  BY <1>1, <1>2, IdInvMoves DEF Loading

\* The process does not come back once it is gone.
LEMMA IdInvExit ==
    ASSUME NEW q, OneLife(q), TypeOK, IdInv(q), pc[q] # "down", starts = 1,
           LoadPanics(q) \/ GetSteerInterfacePanics(q) \/ Stop(q)
    PROVE  IdInv(q)'
BY ExitPc DEF OneLife, LoadPanics, GetSteerInterfacePanics, Stop, bounds, IdInv

\* A process that is up has been started.
Started(q) == pc[q] # "down" => starts = 1

LEMMA StartedStep ==
    ASSUME NEW q, OneLife(q), TypeOK, Started(q), [Next]_vars
    PROVE  Started(q)'
<1>1. q \in Procs /\ MaxStarts = 1 /\ starts \in 0..1
  BY DEF OneLife, TypeOK
<1>2. CASE Start(q)
  BY <1>1, <1>2 DEF Start, Started
<1>3. CASE Step(q) /\ ~Start(q)
  <2>1. starts' = starts
    BY <1>3 DEF Step, FlushDelete, FlushDefault, FlushCommit, Load, LoadPanics, Steer,
       SteerItem, SteerUnknownHop, SteerNothing, SteerEdit, SteerCommit, RemoveSteer,
       RemoveEdit, RemoveCommit, GetSteerInterface, GetSteerInterfacePanics, Stop, bounds
  <2>2. pc[q] # "down"
    BY <1>3 DEF Step, FlushDelete, FlushDefault, FlushCommit, Load, LoadPanics, Steer,
       SteerItem, SteerUnknownHop, SteerNothing, SteerEdit, SteerCommit, RemoveSteer,
       RemoveEdit, RemoveCommit, GetSteerInterface, GetSteerInterfacePanics, Stop
  <2>3. QED
    BY <2>1, <2>2 DEF Started
<1>4. CASE UNCHANGED vars
  BY <1>4 DEF Started, vars
<1>5. QED
  BY <1>2, <1>3, <1>4 DEF Next, OneLife

LEMMA IdInvStep ==
    ASSUME NEW q, OneLife(q), TypeOK, Started(q), IdInv(q), [Next]_vars
    PROVE  IdInv(q)'
<1>1. CASE Step(q)
  <2>1. CASE LoadPanics(q) \/ GetSteerInterfacePanics(q) \/ Stop(q)
    <3>1. pc[q] # "down"
      BY <2>1 DEF LoadPanics, GetSteerInterfacePanics, Stop
    <3>2. QED
      BY <2>1, <3>1, IdInvExit DEF Started
  <2>2. QED
    BY <1>1, <2>1, IdInvLoading, IdInvLoad, IdInvSteer, IdInvSteerItem, IdInvEdit,
       IdInvCommit, IdInvCalls DEF Step
<1>2. CASE UNCHANGED vars
  BY <1>2 DEF IdInv, Claims, Unloaded, vars
<1>3. QED
  BY <1>1, <1>2 DEF Next, OneLife

\* Only a commit changes what the router runs, and it publishes the candidate.
LEMMA RunningChanges ==
    ASSUME NEW q, OneLife(q), Next
    PROVE  running' \in {running, candidate}
<1>1. Step(q)
  BY DEF Next, OneLife
<1>2. CASE FlushCommit(q) \/ SteerCommit(q) \/ RemoveCommit(q)
  BY <1>2, CommitClaims DEF FlushCommit, SteerCommit, RemoveCommit
<1>3. CASE ~ (FlushCommit(q) \/ SteerCommit(q) \/ RemoveCommit(q))
  BY <1>1, <1>3 DEF Step, Start, FlushDelete, FlushDefault, Load, LoadPanics, Steer,
     SteerItem, SteerUnknownHop, SteerNothing, SteerEdit, RemoveSteer, RemoveEdit,
     GetSteerInterface, GetSteerInterfacePanics, Stop, device
<1>4. QED
  BY <1>2, <1>3

LEMMA IdInvGivesIdentity ==
    ASSUME NEW q, OneLife(q), TypeOK, Started(q), IdInv(q), [Next]_vars
    PROVE  [\A i \in DOMAIN running \cap DOMAIN running' :
               running'[i].flow = running[i].flow]_vars
<1> SUFFICES ASSUME Next, NEW i \in DOMAIN running \cap DOMAIN running'
             PROVE  running'[i].flow = running[i].flow
  OBVIOUS
<1>1. CASE pc[q] = "down" /\ starts = MaxStarts
  <2>1. Step(q) => UNCHANGED running
    BY <1>1, BoundAssumption DEF Step, Start, FlushDelete, FlushDefault, FlushCommit, Load,
       LoadPanics, Steer, SteerItem, SteerUnknownHop, SteerNothing, SteerEdit, SteerCommit,
       RemoveSteer, RemoveEdit, RemoveCommit, GetSteerInterface, GetSteerInterfacePanics,
       Stop, device
  <2>2. QED
    BY <2>1 DEF Next, OneLife
<1>2. CASE \A j, f, g : Claims(q, j, f) /\ Claims(q, j, g) => f = g
  <2>1. Claims(q, i, running[i].flow)
    BY DEF Claims
  <2>2. Claims(q, i, running'[i].flow)
    BY RunningChanges DEF Claims
  <2>3. QED
    BY <1>2, <2>1, <2>2
<1>3. QED
  BY <1>1, <1>2 DEF IdInv

\* A rule id the router runs is never given to another flow, for a process that has
\* the router to itself and lives once, started on a router whose highest rule id is
\* not 10 (what a second start breaks, see README.md).  This holds under any RPC
\* failures, refused and lost commits, partial edits and crashes.
THEOREM IdsKeepTheirFlow ==
    ASSUME NEW q, OneLife(q)
    PROVE  Spec => RuleIdentity
<1>1. Init => IdInv(q) /\ Started(q)
  BY IdInvInit DEF Init, Started, OneLife
<1>2. TypeOK /\ Started(q) /\ IdInv(q) /\ [Next]_vars => IdInv(q)' /\ Started(q)'
  BY IdInvStep, StartedStep
<1>3. TypeOK /\ Started(q) /\ IdInv(q) /\ [Next]_vars =>
        [\A i \in DOMAIN running \cap DOMAIN running' :
            running'[i].flow = running[i].flow]_vars
  BY IdInvGivesIdentity
<1>4. [\A i \in DOMAIN running \cap DOMAIN running' :
            running'[i].flow = running[i].flow]_vars
      => [starts <= 1 => \A i \in DOMAIN running \cap DOMAIN running' :
                            running'[i].flow = running[i].flow]_vars
  OBVIOUS
<1>5. QED
  BY <1>1, <1>2, <1>3, <1>4, TypeCorrect, PTL DEF Spec, RuleIdentity

--------------------------------------------------------------------------------
(* Cached rules that the router has lost.                                  *)

\* What the steps of a process do to its own state.
LEMMA OwnStuck ==
    ASSUME TypeOK, NEW p \in Procs, Step(p), NEW i, Stuck(p, i), i \notin DOMAIN candidate'
    PROVE  Stuck(p, i)' \/ pc'[p] = "down"
<1>1. /\ pc[p] \in {"idle", "steering", "steerCommit", "removing", "removeCommit"}
      /\ i \in DOMAIN cache[p] /\ i \notin DOMAIN candidate
      /\ pc[p] = "removeCommit" => i \notin dels[p]
  BY DEF Stuck
<1>2. CASE Stop(p) \/ GetSteerInterfacePanics(p)
  BY <1>2, ExitPc DEF Stop, GetSteerInterfacePanics
<1>3. CASE \/ \E batch \in Batches : Steer(p, batch) \/ GetSteerInterface(p, batch)
           \/ SteerItem(p) \/ SteerUnknownHop(p) \/ SteerNothing(p)
           \/ \E fs \in RemoveSets : RemoveSteer(p, fs)
  <2>1. cache' = cache /\ pc'[p] \in {"idle", "steering", "removing"}
    BY <1>1, <1>3, ReturnPc DEF Steer, GetSteerInterface, SteerItem, SteerUnknownHop,
                                SteerNothing, RemoveSteer, TypeOK
  <2>2. QED
    BY <1>1, <2>1 DEF Stuck
<1>4. CASE SteerEdit(p)
  <2>1. cache' = cache /\ pc'[p] \in {"idle", "steerCommit"}
    BY <1>4, ReturnPc, ContinuePc DEF SteerEdit
  <2>2. QED
    BY <1>1, <2>1 DEF Stuck
<1>5. CASE SteerCommit(p)
  <2>1. pc'[p] = "idle" /\ DOMAIN cache[p] \subseteq DOMAIN cache'[p]
    BY <1>5, ReturnPc DEF SteerCommit, Overlay, TypeOK
  <2>2. QED
    BY <1>1, <2>1 DEF Stuck
<1>6. CASE RemoveEdit(p)
  <2>1. CASE DeleteApplies(p) /\ Continue(p, "removeCommit") /\ UNCHANGED locals
    <3>1. dels' = dels /\ cache' = cache /\ pc'[p] = "removeCommit" /\ i \notin dels[p]
      BY <1>1, <1>6, <2>1, ContinuePc DEF RemoveEdit, DeleteApplies, locals
    <3>2. QED
      BY <1>1, <3>1 DEF Stuck
  <2>2. CASE Return(p, "error")
    <3>1. cache' = cache /\ pc'[p] = "idle"
      BY <1>6, <2>2, ReturnPc DEF RemoveEdit
    <3>2. QED
      BY <1>1, <3>1 DEF Stuck
  <2>3. QED
    BY <1>6, <2>1, <2>2 DEF RemoveEdit
<1>7. CASE RemoveCommit(p)
  <2>1. pc[p] = "removeCommit" /\ pc'[p] = "idle"
    BY <1>7, ReturnPc DEF RemoveCommit
  <2>2. cache'[p] = cache[p] \/ cache'[p] = Without(cache[p], dels[p])
    BY <1>7 DEF RemoveCommit, TypeOK
  <2>3. i \in DOMAIN cache'[p]
    BY <1>1, <2>1, <2>2 DEF Without, Restrict
  <2>4. QED
    BY <2>1, <2>3 DEF Stuck
<1>8. QED
  BY <1>1, <1>2, <1>3, <1>4, <1>5, <1>6, <1>7
  DEF Step, Start, FlushDelete, FlushDefault, FlushCommit, Load, LoadPanics

\* The steps of the others.
LEMMA OtherStuck ==
    ASSUME TypeOK, NEW p \in Procs, NEW q \in Procs, q # p, Step(q),
           NEW i, Stuck(p, i), i \notin DOMAIN candidate'
    PROVE  Stuck(p, i)'
<1>1. pc'[p] = pc[p] /\ cache'[p] = cache[p] /\ dels'[p] = dels[p]
  BY DEF Step, Start, FlushDelete, FlushDefault, FlushCommit, Load, LoadPanics, Steer,
         SteerItem, SteerUnknownHop, SteerNothing, SteerEdit, SteerCommit, RemoveSteer,
         RemoveEdit, RemoveCommit, GetSteerInterface, GetSteerInterfacePanics, Stop,
         Return, Continue, Exit, locals, TypeOK
<1>2. QED
  BY <1>1 DEF Stuck

\* For any number of processes, batches and failures: a rule that the router has lost
\* leaves the cache only with the process, or after an edit that puts the rule back.
THEOREM LostRuleStuck == Spec => RefusedForLife
<1>1. ASSUME TypeOK, Next, NEW p \in Procs, NEW i \in DOMAIN cache[p], Stuck(p, i)
      PROVE  Stuck(p, i)' \/ i \in DOMAIN candidate' \/ pc'[p] = "down"
  BY <1>1, OwnStuck, OtherStuck DEF Next
<1>2. TypeOK /\ [Next]_vars
        => [\A p \in Procs : \A i \in DOMAIN cache[p] :
              Stuck(p, i) => Stuck(p, i)' \/ i \in DOMAIN candidate' \/ pc'[p] = "down"]_vars
  BY <1>1
<1>3. QED
  BY <1>2, TypeCorrect, PTL DEF Spec, RefusedForLife
--------------------------------------------------------------------------------
(* Errors of Steer.                                                        *)

Steering == {"steering", "steerCommit"}

\* An operation in progress has returned nothing yet.
Unanswered == \A p \in Procs : pc[p] \in Steering => reply[p] = "none"

\* No process answers for another, or moves it.
LEMMA OthersAlone ==
    ASSUME TypeOK, NEW p \in Procs, NEW q \in Procs, q # p, Step(q)
    PROVE  pc'[p] = pc[p] /\ reply'[p] = reply[p]
BY DEF Step, Start, FlushDelete, FlushDefault, FlushCommit, Load, LoadPanics, Steer,
       SteerItem, SteerUnknownHop, SteerNothing, SteerEdit, SteerCommit, RemoveSteer,
       RemoveEdit, RemoveCommit, GetSteerInterface, GetSteerInterfacePanics, Stop,
       Return, Continue, Exit, TypeOK

\* What a step of a process does to an operation of Steer.
LEMMA OwnAnswer ==
    ASSUME TypeOK, NEW p \in Procs, Step(p), pc'[p] \in Steering
    PROVE  reply'[p] = "none" \/ (pc[p] \in Steering /\ reply'[p] = reply[p])
<1>1. CASE Start(p) \/ FlushDelete(p) \/ FlushDefault(p) \/ FlushCommit(p)
  BY <1>1, ContinuePc DEF Start, FlushDelete, FlushDefault, FlushCommit, TypeOK, Steering
<1>2. CASE Load(p) \/ LoadPanics(p) \/ GetSteerInterfacePanics(p) \/ Stop(p)
  BY <1>2, ReturnPc, ExitPc DEF Load, LoadPanics, GetSteerInterfacePanics, Stop, Steering
<1>3. CASE \/ \E batch \in Batches : Steer(p, batch) \/ GetSteerInterface(p, batch)
           \/ SteerItem(p)
           \/ \E fs \in RemoveSets : RemoveSteer(p, fs)
  BY <1>3 DEF Steer, GetSteerInterface, SteerItem, RemoveSteer, TypeOK, Steering
<1>4. CASE SteerUnknownHop(p) \/ SteerNothing(p) \/ SteerCommit(p) \/ RemoveCommit(p)
  BY <1>4, ReturnPc DEF SteerUnknownHop, SteerNothing, SteerCommit, RemoveCommit, Steering
<1>5. CASE SteerEdit(p)
  BY <1>5, ReturnPc, ContinuePc DEF SteerEdit, Steering
<1>6. CASE RemoveEdit(p)
  BY <1>6, ReturnPc, ContinuePc DEF RemoveEdit, Steering
<1> QED
  BY <1>1, <1>2, <1>3, <1>4, <1>5, <1>6 DEF Step

LEMMA UnansweredInductive == ASSUME TypeOK, Unanswered, [Next]_vars PROVE Unanswered'
<1>1. ASSUME NEW p \in Procs, NEW q \in Procs, Step(q), pc'[p] \in Steering
      PROVE  reply'[p] = "none"
  BY <1>1, OwnAnswer, OthersAlone DEF Unanswered
<1>2. CASE UNCHANGED vars
  BY <1>2 DEF Unanswered, vars
<1> QED
  BY <1>1, <1>2 DEF Next, Unanswered

LEMMA FailsByFault ==
    ASSUME TypeOK, NEW p \in Procs, RpcFails(p)
    PROVE  faults' # faults \/ session[p] = "broken"
<1>1. faults \in Nat
  BY DEF TypeOK
<1> QED
  BY <1>1 DEF RpcFails

\* The steps of Steer that return an error, and why.
LEMMA SteerErrors ==
    ASSUME TypeOK, NEW p \in Procs, Step(p), pc[p] \in Steering, reply[p] = "none",
           reply'[p] = "error"
    PROVE  \/ faults' # faults \/ session[p] = "broken"
           \/ todo[p] # <<>> /\ ~IsKnownHop(Head(todo[p]).hop)
<1>1. \/ SteerItem(p) \/ SteerUnknownHop(p) \/ SteerNothing(p) \/ SteerEdit(p)
      \/ SteerCommit(p) \/ Stop(p)
  BY DEF Step, Start, FlushDelete, FlushDefault, FlushCommit, Load, LoadPanics, Steer,
         RemoveSteer, RemoveEdit, RemoveCommit, GetSteerInterface,
         GetSteerInterfacePanics, Steering
<1>2. ~ SteerItem(p) /\ ~ SteerNothing(p) /\ ~ Stop(p)
  BY ReturnPc, ExitPc DEF SteerItem, SteerNothing, Stop
<1>3. CASE SteerUnknownHop(p)
  BY <1>3 DEF SteerUnknownHop
<1>4. CASE SteerEdit(p)
  <2>1. RpcFails(p)
    BY <1>4, ContinuePc DEF SteerEdit, EditFails
  <2> QED
    BY <2>1, FailsByFault
<1>5. CASE SteerCommit(p)
  <2>1. PICK err \in CommitErrors : CommitAnswer(p, err) /\ ~IsSuccess(err)
    BY <1>5, ReturnPc DEF SteerCommit
  <2>2. RpcFails(p)
    BY <2>1 DEF CommitAnswer, CommitErrors, IsSuccess
  <2> QED
    BY <2>2, FailsByFault
<1> QED
  BY <1>1, <1>2, <1>3, <1>4, <1>5

\* For any number of processes that edit the same candidate: Steer fails only for an
\* unknown next hop or a failed RPC, never because another process published its edit.
THEOREM SteerErrorsExplained == Spec => SteerFailsOnlyByFault
<1>1. Init => Unanswered
  BY DEF Init, Unanswered, Steering
<1>2. TypeOK /\ Unanswered /\ [Next]_vars => Unanswered'
  BY UnansweredInductive
<1>3. ASSUME TypeOK, Unanswered, Next, NEW p \in Procs, pc[p] \in Steering,
             reply'[p] = "error"
      PROVE  \/ faults' # faults \/ session[p] = "broken"
             \/ todo[p] # <<>> /\ ~IsKnownHop(Head(todo[p]).hop)
  BY <1>3, SteerErrors, OthersAlone DEF Next, Unanswered
<1>4. TypeOK /\ Unanswered /\ [Next]_vars
        => [\A p \in Procs :
              pc[p] \in {"steering", "steerCommit"} /\ reply'[p] = "error"
              => \/ faults' # faults \/ session[p] = "broken"
                 \/ todo[p] # <<>> /\ ~IsKnownHop(Head(todo[p]).hop)]_vars
  BY <1>3 DEF Steering
<1> QED
  BY <1>1, <1>2, <1>4, TypeCorrect, PTL DEF Spec, SteerFailsOnlyByFault

--------------------------------------------------------------------------------
(* A single process whose RPCs succeed and that flushes at start.          *)

\* What the theorems below assume: one process, which does not die between two steps, and
\* a router that fails no RPC; a flush at every start; fewer allocations than lead to the
\* default rule's id; and no batch that names a flow twice.
Solo(q) ==
    /\ Procs = {q} /\ FlushOptions = {TRUE} /\ MaxFaults = 0 /\ ~ MayCrash
    /\ MaxRuleId <= DefaultRuleId
    /\ \A b \in Batches : \A j, k \in DOMAIN b : b[j].flow = b[k].flow => j = k

OnlyDefaultRule == [i \in {DefaultRuleId} |-> DefaultRule]

\* An access list that the process wrote, with ids below n: one rule for each flow, and
\* behind them perhaps the default rule.
Tidy(acl, n) ==
    /\ \A i \in DOMAIN acl \ {DefaultRuleId} :
          acl[i].flow \in Flows /\ i < n /\ i < DefaultRuleId
    /\ DefaultRuleId \in DOMAIN acl => acl[DefaultRuleId] = DefaultRule
    /\ \A i, j \in DOMAIN acl : acl[i].flow = acl[j].flow => i = j

\* The cache that belongs to an access list.
CacheOf(acl) == [i \in SteeringIds(acl) |-> acl[i].flow]

\* The rule that an item of a batch asks for.
RuleOf(item) == [flow |-> item.flow, addr |-> HopAddr(item.hop)]

\* Until the cache is loaded.
OpeningInv(q) ==
    /\ pc[q] \in {"down", "flushDelete"} => candidate = running
    /\ pc[q] = "flushDefault" => candidate = NoRules
    /\ pc[q] = "flushCommit"  => candidate = OnlyDefaultRule
    /\ pc[q] = "load" => candidate = running /\ running \in {NoRules, OnlyDefaultRule}

Serving == {"idle", "steering", "steerCommit", "removing", "removeCommit"}

\* Afterwards the cache is what the router runs, and the candidate differs from it only
\* by the edit of the operation in progress.
ServingInv(q) ==
    /\ pc[q] \in Serving => Tidy(running, nextId[q]) /\ cache[q] = CacheOf(running)
    /\ pc[q] \in {"idle", "steering", "removing"} => candidate = running
    /\ pc[q] = "steerCommit"  => candidate = Overlay(running, edits[q])
    /\ pc[q] = "removeCommit" => candidate = Without(running, dels[q])

\* The rule that Steer configures under id i: that of an item it has come to, under the
\* id the cache has for the flow, or under a new one if it has none.
EditOK(q, i, n) ==
    /\ \E k \in 1..n : edits[q][i] = RuleOf(call[q].items[k])
    /\ i < nextId[q] /\ i < DefaultRuleId
    /\ \/ i \in DOMAIN cache[q] /\ cache[q][i] = edits[q][i].flow
       \/ i \notin DOMAIN cache[q] /\ CachedIds(q, edits[q][i].flow) = {}

\* Steer has come to the first n items of its batch.
Reached(q, n) ==
    /\ n + Len(todo[q]) = Len(call[q].items)
    /\ \A k \in 1..Len(todo[q]) : todo[q][k] = call[q].items[n + k]
    /\ \A k \in 1..n : /\ IsKnownHop(call[q].items[k].hop)
                       /\ \E i \in DOMAIN edits[q] : edits[q][i] = RuleOf(call[q].items[k])
    /\ \A i \in DOMAIN edits[q] : EditOK(q, i, n)
    /\ \A i, j \in DOMAIN edits[q] : edits[q][i].flow = edits[q][j].flow => i = j

SteeringInv(q) ==
    pc[q] \in {"steering", "steerCommit"} =>
        /\ call[q].op = "steer" /\ call[q].items \in Batches
        /\ \E n \in Nat : Reached(q, n)
        /\ IF pc[q] = "steering" THEN nextId[q] + Len(todo[q]) * RuleIdStep <= MaxRuleId
                                 ELSE todo[q] = <<>>

RemovingInv(q) ==
    pc[q] \in {"removing", "removeCommit"} =>
        /\ call[q].op = "remove" /\ call[q].flows \in RemoveSets
        /\ dels[q] = {i \in DOMAIN cache[q] : cache[q][i] \in call[q].flows}

\* The call in progress, and its answer.
CallInv(q) ==
    /\ pc[q] = "down" => call[q] = NoCall
    /\ pc[q] \in Loading => call[q] = [op |-> "init", flush |-> TRUE]
    /\ reply[q] = "none" <=> pc[q] # "idle"
    /\ pc[q] = "idle" => edits[q] = NoRules /\ dels[q] = {}

SoloInv(q) ==
    /\ session[q] = "up"
    /\ OpeningInv(q) /\ ServingInv(q) /\ SteeringInv(q) /\ RemovingInv(q) /\ CallInv(q)

\* The facts about a state that the lemmas below share.
LEMMA SoloState ==
    ASSUME NEW q, Solo(q), TypeOK
    PROVE  /\ q \in Procs /\ MaxRuleId <= DefaultRuleId
           /\ IsAcl(running) /\ IsAcl(candidate) /\ IsEdit(edits[q]) /\ IsCache(cache[q])
           /\ nextId[q] \in Nat /\ MaxRuleId \in Nat /\ DefaultRuleId \in Nat
           /\ todo[q] \in Seq(Item)
BY BoundAssumption DEF Solo, TypeOK

\* No RPC fails.
LEMMA SoloQuiet ==
    ASSUME NEW q, Solo(q), TypeOK, session[q] = "up"
    PROVE  /\ ~ RpcFails(q)
           /\ ~ LoadPanics(q) /\ ~ GetSteerInterfacePanics(q)
<1>1. faults \in 0..0 /\ MaxFaults = 0
  BY DEF Solo, TypeOK
<1>2. ~ (faults < MaxFaults)
  BY <1>1
<1> QED
  BY <1>2 DEF RpcFails, LoadPanics, GetSteerInterfacePanics

\* Every commit publishes the candidate and counts as a success.
LEMMA SoloCommits ==
    ASSUME NEW q, Solo(q), TypeOK, session[q] = "up",
           NEW err \in CommitErrors, CommitAnswer(q, err)
    PROVE  running' = candidate /\ IsSuccess(err) /\ UNCHANGED session
BY SoloQuiet DEF CommitAnswer, IsSuccess, CommitErrors

--------------------------------------------------------------------------------
(* Access lists that the process wrote.                                    *)

LEMMA TidyCache ==
    ASSUME NEW acl, NEW n, Tidy(acl, n)
    PROVE  /\ SteeringIds(acl) = DOMAIN acl \ {DefaultRuleId}
           /\ DOMAIN CacheOf(acl) = DOMAIN acl \ {DefaultRuleId}
           /\ \A i \in DOMAIN acl \ {DefaultRuleId} : CacheOf(acl)[i] = acl[i].flow
BY DEF Tidy, CacheOf, SteeringIds

LEMMA TidyGrows ==
    ASSUME NEW acl, IsAcl(acl), NEW n \in Nat, NEW m \in Nat, n <= m, Tidy(acl, n)
    PROVE  Tidy(acl, m)
<1>1. DOMAIN acl \subseteq Nat
  BY DEF IsAcl
<1>2. \A i \in DOMAIN acl : i < n => i < m
  BY <1>1
<1> QED
  BY <1>2 DEF Tidy

LEMMA TidyWithout ==
    ASSUME NEW acl, NEW n, NEW ids, Tidy(acl, n)
    PROVE  /\ Tidy(Without(acl, ids), n)
           /\ DefaultRuleId \notin ids => CacheOf(Without(acl, ids)) = Without(CacheOf(acl), ids)
<1> DEFINE less == Without(acl, ids)
<1>1. DOMAIN less = DOMAIN acl \ ids /\ \A i \in DOMAIN acl \ ids : less[i] = acl[i]
  BY WithoutType
<1> HIDE DEF less
<1>2. Tidy(less, n)
  BY <1>1 DEF Tidy
<1>3. ASSUME DefaultRuleId \notin ids PROVE CacheOf(less) = Without(CacheOf(acl), ids)
  <2>1. DOMAIN less \ {DefaultRuleId} = (DOMAIN acl \ {DefaultRuleId}) \ ids
    BY <1>1
  <2>2. SteeringIds(less) = DOMAIN CacheOf(acl) \ ids
    BY <1>2, <2>1, TidyCache
  <2>3. ASSUME NEW i \in DOMAIN CacheOf(acl) \ ids PROVE less[i].flow = CacheOf(acl)[i]
    <3>1. i \in DOMAIN acl \ {DefaultRuleId} /\ i \notin ids
      BY TidyCache
    <3>2. CacheOf(acl)[i] = acl[i].flow
      BY <3>1, TidyCache
    <3> QED
      BY <1>1, <3>1, <3>2
  <2>4. CacheOf(less) = [i \in DOMAIN CacheOf(acl) \ ids |-> less[i].flow]
    BY <2>2 DEF CacheOf
  <2>5. Without(CacheOf(acl), ids) = [i \in DOMAIN CacheOf(acl) \ ids |-> CacheOf(acl)[i]]
    BY DEF Without, Restrict
  <2> QED
    BY <2>3, <2>4, <2>5
<1> QED
  BY <1>2, <1>3 DEF less

LEMMA OnlyDefaultTidy ==
    /\ \A n : Tidy(NoRules, n) /\ Tidy(OnlyDefaultRule, n)
    /\ SteeringIds(NoRules) = {} /\ SteeringIds(OnlyDefaultRule) = {}
BY ValueAssumption DEF Tidy, DefaultRule, NoRules, OnlyDefaultRule, SteeringIds

\* Writing an edit in which a flow that has a rule keeps its id.
LEMMA TidyOverlay ==
    ASSUME NEW acl, NEW n, NEW e, IsEdit(e), Tidy(acl, n),
           \A i \in DOMAIN e : i < n /\ i < DefaultRuleId /\ DefaultRuleId # i,
           \A i \in DOMAIN e, j \in DOMAIN acl :
              acl[j].flow = e[i].flow => acl[i].flow = e[i].flow /\ i \in DOMAIN acl,
           \A i, j \in DOMAIN e : e[i].flow = e[j].flow => i = j
    PROVE  /\ Tidy(Overlay(acl, e), n)
           /\ CacheOf(Overlay(acl, e)) = Overlay(CacheOf(acl), [i \in DOMAIN e |-> e[i].flow])
<1> DEFINE more == Overlay(acl, e)
<1>0. \A i \in DOMAIN e : e[i].flow \in Flows
  BY DEF IsEdit
<1>1. /\ DOMAIN more = DOMAIN acl \cup DOMAIN e
      /\ \A i \in DOMAIN e : more[i] = e[i] /\ more[i].flow \in Flows
      /\ \A i \in DOMAIN acl \ DOMAIN e : more[i] = acl[i]
  BY <1>0 DEF Overlay
<1> HIDE DEF more
<1>2. \A i, j \in DOMAIN more : more[i].flow = more[j].flow => i = j
  <2>1. ASSUME NEW i \in DOMAIN e, NEW j \in DOMAIN acl \ DOMAIN e PROVE acl[j].flow # e[i].flow
    BY <2>1 DEF Tidy
  <2>2. \A i, j \in DOMAIN acl : acl[i].flow = acl[j].flow => i = j
    BY DEF Tidy
  <2> QED
    BY <1>1, <2>1, <2>2
<1>3. \A i \in DOMAIN more \ {DefaultRuleId} :
         more[i].flow \in Flows /\ i < n /\ i < DefaultRuleId
  BY <1>1 DEF Tidy
<1>4. Tidy(more, n)
  <2>1. DefaultRuleId \in DOMAIN more => more[DefaultRuleId] = DefaultRule
    BY <1>1 DEF Tidy
  <2> QED
    BY <1>2, <1>3, <2>1 DEF Tidy
<1>5. CacheOf(more) = Overlay(CacheOf(acl), [i \in DOMAIN e |-> e[i].flow])
  <2>1. SteeringIds(more) = DOMAIN CacheOf(acl) \cup DOMAIN e
    <3>1. DOMAIN more \ {DefaultRuleId} = (DOMAIN acl \ {DefaultRuleId}) \cup DOMAIN e
      BY <1>1
    <3> QED
      BY <1>4, <3>1, TidyCache
  <2>2. ASSUME NEW i \in DOMAIN CacheOf(acl) \ DOMAIN e PROVE more[i].flow = CacheOf(acl)[i]
    <3>1. i \in DOMAIN acl \ {DefaultRuleId} /\ i \notin DOMAIN e
      BY TidyCache
    <3>2. CacheOf(acl)[i] = acl[i].flow
      BY <3>1, TidyCache
    <3> QED
      BY <1>1, <3>1, <3>2
  <2> DEFINE flows == [i \in DOMAIN e |-> e[i].flow]
             both  == DOMAIN CacheOf(acl) \cup DOMAIN e
  <2>3. CacheOf(more) = [i \in both |-> more[i].flow]
    BY <2>1 DEF CacheOf
  <2>4. Overlay(CacheOf(acl), flows)
           = [i \in both |-> IF i \in DOMAIN e THEN flows[i] ELSE CacheOf(acl)[i]]
    BY DEF Overlay
  <2>5. \A i \in both : more[i].flow = IF i \in DOMAIN e THEN flows[i] ELSE CacheOf(acl)[i]
    BY <1>1, <2>2
  <2> HIDE DEF both, flows
  <2>6. CacheOf(more) = Overlay(CacheOf(acl), flows)
    BY <2>3, <2>4, <2>5
  <2> QED
    BY <2>6 DEF flows
<1> QED
  BY <1>4, <1>5 DEF more

--------------------------------------------------------------------------------
(* The solo invariant, action by action.                                   *)

LEMMA SoloInit == ASSUME NEW q, Solo(q), Init PROVE SoloInv(q)
BY DEF Init, Solo, SoloInv, OpeningInv, ServingInv, SteeringInv, RemovingInv, CallInv,
       Serving, Loading

LEMMA SoloStillOpening ==
    ASSUME NEW q, session'[q] = "up", pc'[q] \in Loading, OpeningInv(q)',
           call'[q] = [op |-> "init", flush |-> TRUE], reply'[q] = "none"
    PROVE  SoloInv(q)'
BY DEF SoloInv, ServingInv, SteeringInv, RemovingInv, CallInv, Serving, Loading

LEMMA SoloOpening ==
    ASSUME NEW q, Solo(q), TypeOK, SoloInv(q),
           Start(q) \/ FlushDelete(q) \/ FlushDefault(q) \/ FlushCommit(q)
    PROVE  SoloInv(q)'
<1>1. q \in Procs /\ session[q] = "up" /\ ~ RpcFails(q)
  BY SoloState, SoloQuiet DEF SoloInv
<1>2. OpeningInv(q) /\ CallInv(q)
  BY DEF SoloInv
<1>3. CASE Start(q)
  <2>1. PICK flush \in FlushOptions :
            /\ pc' = [pc EXCEPT ![q] = IF flush THEN "flushDelete" ELSE "load"]
            /\ call' = [call EXCEPT ![q] = [op |-> "init", flush |-> flush]]
    BY <1>3 DEF Start
  <2>2. flush = TRUE
    BY DEF Solo
  <2>3. pc'[q] = "flushDelete" /\ call'[q] = [op |-> "init", flush |-> TRUE]
    BY <1>1, <2>1, <2>2 DEF TypeOK
  <2>4. /\ pc[q] = "down" /\ reply[q] \in {"none", "nil", "error", "yes", "no"}
        /\ UNCHANGED <<running, candidate, reply, session>>
    BY <1>1, <1>3 DEF Start, device, TypeOK
  <2>5. candidate' = running' /\ reply'[q] = "none" /\ session'[q] = "up"
    BY <1>1, <1>2, <2>4 DEF OpeningInv, CallInv
  <2> QED
    BY <2>3, <2>5, SoloStillOpening DEF OpeningInv, Loading
<1>4. CASE FlushDelete(q) \/ FlushDefault(q) \/ FlushCommit(q)
  <2>1. pc[q] \in Loading /\ pc'[q] \in Loading /\ UNCHANGED <<call, reply>>
    BY <1>1, <1>4, ContinuePc DEF FlushDelete, FlushDefault, FlushCommit, Loading
  <2>2. call'[q] = [op |-> "init", flush |-> TRUE] /\ reply'[q] = "none"
    BY <1>2, <2>1 DEF CallInv, Loading
  <2>3. CASE FlushDelete(q)
    <3>1. candidate = running /\ UNCHANGED <<running, session>>
      BY <1>1, <1>2, <2>3 DEF FlushDelete, OpeningInv
    <3>2. \/ pc'[q] = "flushDefault" /\ candidate' = NoRules
          \/ pc'[q] = "load" /\ candidate = NoRules /\ UNCHANGED candidate
      BY <1>1, <2>3, ContinuePc DEF FlushDelete
    <3> QED
      BY <1>1, <2>1, <2>2, <3>1, <3>2, SoloStillOpening DEF OpeningInv
  <2>4. CASE FlushDefault(q)
    <3>1. candidate = NoRules /\ UNCHANGED <<running, session>>
      BY <1>1, <1>2, <2>4 DEF FlushDefault, OpeningInv
    <3>2. pc'[q] = "flushCommit" /\ candidate' = Overlay(candidate, OnlyDefaultRule)
      BY <1>1, <2>4, ContinuePc DEF FlushDefault, OnlyDefaultRule
    <3>3. Overlay(NoRules, OnlyDefaultRule) = OnlyDefaultRule
      BY DEF Overlay, NoRules, OnlyDefaultRule
    <3> QED
      BY <1>1, <2>1, <2>2, <3>1, <3>2, <3>3, SoloStillOpening DEF OpeningInv
  <2>5. CASE FlushCommit(q)
    <3>1. candidate = OnlyDefaultRule /\ UNCHANGED candidate
      BY <1>1, <1>2, <2>5 DEF FlushCommit, OpeningInv
    <3>2. pc'[q] = "load" /\ running' = candidate /\ UNCHANGED session
      BY <1>1, <2>5, ContinuePc, SoloCommits DEF FlushCommit
    <3> QED
      BY <1>1, <2>1, <2>2, <3>1, <3>2, SoloStillOpening DEF OpeningInv
  <2> QED
    BY <1>4, <2>3, <2>4, <2>5
<1> QED
  BY <1>3, <1>4

\* An operation that ends with the access list it found, or with one that it published.
LEMMA SoloIdle ==
    ASSUME NEW q, TypeOK, q \in Procs, session'[q] = "up", NEW r \in {"nil", "error"},
           Return(q, r), candidate' = running',
           Tidy(running', nextId'[q]), cache'[q] = CacheOf(running')
    PROVE  SoloInv(q)'
<1>1. /\ pc'[q] = "idle" /\ reply'[q] = r
      /\ edits'[q] = NoRules /\ dels'[q] = {}
  BY DEF Return, TypeOK
<1> QED
  BY <1>1 DEF SoloInv, OpeningInv, ServingInv, SteeringInv, RemovingInv, CallInv,
              Serving, Loading

LEMMA SoloLoad == ASSUME NEW q, Solo(q), TypeOK, SoloInv(q), Load(q) PROVE SoloInv(q)'
<1>1. q \in Procs /\ pc[q] = "load" /\ UNCHANGED <<running, candidate, session>>
  BY SoloState DEF Load, device
<1>2. candidate = running /\ running \in {NoRules, OnlyDefaultRule} /\ session[q] = "up"
  BY <1>1 DEF SoloInv, OpeningInv
<1>3. \A n : Tidy(running, n)
  BY <1>2, OnlyDefaultTidy
<1>4. cache'[q] = CacheOf(running)
  BY <1>1 DEF Load, CacheOf, TypeOK
<1> QED
  BY <1>1, <1>2, <1>3, <1>4, SoloIdle DEF Load

\* The steps of a call that touch neither the router nor the cache.
LEMMA SoloServing ==
    ASSUME NEW q, SoloInv(q), pc[q] \in {"idle", "steering", "removing"},
           pc'[q] \in {"idle", "steering", "removing"},
           UNCHANGED <<running, candidate, cache, session>>,
           Tidy(running, nextId[q]) => Tidy(running, nextId'[q])
    PROVE  OpeningInv(q)' /\ ServingInv(q)' /\ session'[q] = "up"
BY DEF SoloInv, OpeningInv, ServingInv, Serving

LEMMA SoloSteer ==
    ASSUME NEW q, Solo(q), TypeOK, SoloInv(q), NEW batch \in Batches, Steer(q, batch)
    PROVE  SoloInv(q)'
<1>1. /\ q \in Procs /\ pc[q] = "idle" /\ pc'[q] = "steering" /\ reply'[q] = "none"
      /\ call'[q] = [op |-> "steer", items |-> batch] /\ todo'[q] = batch
      /\ UNCHANGED <<running, candidate, cache, session, nextId, edits>>
  BY SoloState DEF Steer, device, TypeOK
<1>2. edits'[q] = NoRules /\ batch \in Seq(Item)
  BY <1>1, InputAssumption DEF SoloInv, CallInv
<1>3. nextId'[q] + Len(todo'[q]) * RuleIdStep <= MaxRuleId
  BY <1>1 DEF Steer
<1>4. Reached(q, 0)'
  <2>1. Len(batch) \in Nat
    BY <1>2
  <2> QED
    BY <1>1, <1>2, <2>1 DEF Reached, NoRules
<1>5. SteeringInv(q)'
  BY <1>1, <1>3, <1>4 DEF SteeringInv
<1> QED
  BY <1>1, <1>5, SoloServing DEF SoloInv, RemovingInv, CallInv, Loading

\* A batch in progress names a flow once.
LEMMA SoloItems ==
    ASSUME NEW q, Solo(q), SoloInv(q), pc[q] \in {"steering", "steerCommit"}
    PROVE  /\ call[q].op = "steer" /\ call[q].items \in Batches /\ call[q].items \in Seq(Item)
           /\ \A j, k \in 1..Len(call[q].items) :
                 call[q].items[j].flow = call[q].items[k].flow => j = k
<1>1. call[q].op = "steer" /\ call[q].items \in Batches
  BY DEF SoloInv, SteeringInv
<1>2. call[q].items \in Seq(Item)
  BY <1>1, InputAssumption
<1>3. DOMAIN call[q].items = 1..Len(call[q].items)
  BY <1>2
<1> QED
  BY <1>1, <1>2, <1>3 DEF Solo

\* The id that an item gets has not been used for an earlier item.
LEMMA SoloItemId ==
    ASSUME NEW q, Solo(q), TypeOK, SoloInv(q), pc[q] = "steering", todo[q] # <<>>,
           NEW n \in Nat, Reached(q, n),
           NEW id, ChosenId(q, Head(todo[q]).flow, id)
    PROVE  /\ Head(todo[q]) = call[q].items[n + 1] /\ n + 1 \in 1..Len(call[q].items)
           /\ id \notin DOMAIN edits[q]
           /\ \A i \in DOMAIN edits[q] : edits[q][i].flow # Head(todo[q]).flow
           /\ id < DefaultRuleId /\ id < IdAfter(q, Head(todo[q]).flow)
           /\ \/ id \in DOMAIN cache[q] /\ cache[q][id] = Head(todo[q]).flow
              \/ id \notin DOMAIN cache[q] /\ CachedIds(q, Head(todo[q]).flow) = {}
<1> DEFINE items == call[q].items
           item  == Head(todo[q])
<1>1. /\ todo[q] \in Seq(Item) /\ Len(todo[q]) \in Nat /\ Len(todo[q]) >= 1
      /\ item = todo[q][1] /\ nextId[q] \in Nat /\ IsAcl(running)
  BY SoloState
<1>2. items \in Seq(Item) /\ Len(items) \in Nat
      /\ \A j, k \in 1..Len(items) : items[j].flow = items[k].flow => j = k
  BY SoloItems
<1>3. item = items[n + 1] /\ n + 1 \in 1..Len(items)
  <2>1. n + Len(todo[q]) = Len(items) /\ \A k \in 1..Len(todo[q]) : todo[q][k] = items[n + k]
    BY DEF Reached
  <2>2. 1 \in 1..Len(todo[q]) /\ n + 1 \in 1..Len(items)
    BY <1>1, <1>2, <2>1
  <2> QED
    BY <1>1, <2>1, <2>2
<1>4. ASSUME NEW i \in DOMAIN edits[q] PROVE edits[q][i].flow # item.flow /\ EditOK(q, i, n)
  <2>1. PICK k \in 1..n : edits[q][i] = RuleOf(items[k])
    BY <1>4 DEF Reached, EditOK
  <2>2. edits[q][i].flow = items[k].flow /\ k # n + 1 /\ k \in 1..Len(items)
    BY <1>2, <1>3, <2>1 DEF RuleOf
  <2> QED
    BY <1>2, <1>3, <1>4, <2>2 DEF Reached
<1>5. Tidy(running, nextId[q]) /\ cache[q] = CacheOf(running)
  BY DEF SoloInv, ServingInv, Serving
<1>6. \A i \in DOMAIN cache[q] : i < nextId[q] /\ i < DefaultRuleId
  BY <1>5, TidyCache DEF Tidy
<1>7. nextId[q] + Len(todo[q]) * RuleIdStep <= MaxRuleId
  BY DEF SoloInv, SteeringInv
<1>8. nextId[q] < DefaultRuleId
  <2>1. MaxRuleId <= DefaultRuleId /\ MaxRuleId \in Nat /\ DefaultRuleId \in Nat
    BY SoloState
  <2>2. nextId[q] \in Nat /\ Len(todo[q]) \in Nat /\ Len(todo[q]) >= 1
    BY <1>1
  <2>3. Len(todo[q]) * RuleIdStep >= 10
    BY <2>2, SMT DEF RuleIdStep
  <2>4. nextId[q] + Len(todo[q]) * RuleIdStep <= MaxRuleId
    BY <1>7
  <2>5. Len(todo[q]) * RuleIdStep \in Nat
    BY <2>2 DEF RuleIdStep
  <2> QED
    BY <2>1, <2>2, <2>3, <2>4, <2>5
<1>9. CASE CachedIds(q, item.flow) # {}
  <2>1. id \in DOMAIN cache[q] /\ cache[q][id] = item.flow
    BY <1>9 DEF ChosenId, CachedIds
  <2>2. id \notin DOMAIN edits[q]
    BY <1>4, <1>9, <2>1 DEF EditOK
  <2>3. IdAfter(q, item.flow) = nextId[q]
    BY <1>9 DEF IdAfter
  <2> HIDE DEF items, item
  <2>4. id < DefaultRuleId /\ id < IdAfter(q, item.flow)
    BY <1>6, <2>1, <2>3
  <2> QED
    BY <1>3, <1>4, <2>1, <2>2, <2>4 DEF items, item
<1>10. CASE CachedIds(q, item.flow) = {}
  <2>1. id = nextId[q] /\ IdAfter(q, item.flow) = nextId[q] + RuleIdStep
    BY <1>10 DEF ChosenId, IdAfter
  <2>2. id \notin DOMAIN edits[q] /\ id \notin DOMAIN cache[q]
    BY <1>1, <1>4, <1>6, <2>1 DEF EditOK
  <2>3. id < IdAfter(q, item.flow)
    BY <1>1, <2>1 DEF RuleIdStep
  <2> HIDE DEF items, item
  <2> QED
    BY <1>3, <1>4, <1>8, <1>10, <2>1, <2>2, <2>3 DEF items, item
<1> QED
  BY <1>9, <1>10

LEMMA SoloSteerItem ==
    ASSUME NEW q, Solo(q), TypeOK, SoloInv(q), SteerItem(q) PROVE SoloInv(q)'
<1> DEFINE items == call[q].items
           item  == Head(todo[q])
           e     == edits[q]
<1>1. /\ q \in Procs /\ pc[q] = "steering" /\ todo[q] # <<>> /\ IsKnownHop(item.hop)
      /\ UNCHANGED <<running, candidate, pc, cache, session, call, reply, dels>>
      /\ todo'[q] = Tail(todo[q]) /\ nextId'[q] = IdAfter(q, item.flow)
  BY SoloState DEF SteerItem, device, TypeOK
<1>2. PICK n \in Nat : Reached(q, n)
  BY <1>1 DEF SoloInv, SteeringInv
<1>3. PICK id \in DOMAIN cache[q] \cup {nextId[q]} :
          ChosenId(q, item.flow, id) /\ edits'[q] = Overlay(e, [i \in {id} |-> RuleOf(item)])
  BY <1>1 DEF SteerItem, TypeOK, RuleOf
<1>4. /\ item = items[n + 1] /\ n + 1 \in 1..Len(items)
      /\ id \notin DOMAIN e /\ \A i \in DOMAIN e : e[i].flow # item.flow
      /\ id < DefaultRuleId /\ id < nextId'[q]
      /\ \/ id \in DOMAIN cache[q] /\ cache[q][id] = item.flow
         \/ id \notin DOMAIN cache[q] /\ CachedIds(q, item.flow) = {}
  <2>1. pc[q] = "steering" /\ todo[q] # <<>> /\ ChosenId(q, Head(todo[q]).flow, id)
    BY <1>1, <1>3
  <2> HIDE DEF items, item, e
  <2> QED
    BY <1>1, <1>2, <2>1, SoloItemId DEF items, item, e
<1>5. /\ DOMAIN edits'[q] = DOMAIN e \cup {id} /\ edits'[q][id] = RuleOf(item)
      /\ \A i \in DOMAIN e : edits'[q][i] = e[i]
  BY <1>3, <1>4 DEF Overlay
<1>6. /\ todo[q] \in Seq(Item) /\ Len(items) \in Nat
      /\ nextId[q] \in Nat /\ nextId'[q] \in Nat /\ nextId[q] <= nextId'[q]
  <2>1. todo[q] \in Seq(Item) /\ nextId[q] \in Nat
    BY SoloState
  <2>2. items \in Seq(Item)
    BY <1>1, SoloItems
  <2>3. nextId'[q] \in Nat /\ nextId[q] <= nextId'[q]
    BY <1>1, <2>1 DEF IdAfter, RuleIdStep
  <2> QED
    BY <2>1, <2>2, <2>3
<1>7. /\ Len(todo[q]) \in Nat /\ Len(todo[q]) >= 1 /\ Len(todo'[q]) = Len(todo[q]) - 1
      /\ \A k \in 1..Len(todo'[q]) : todo'[q][k] = todo[q][k + 1]
  <2> DEFINE s == todo[q]
  <2>1. s \in Seq(Item) /\ s # <<>> /\ todo'[q] = Tail(s)
    BY <1>1, <1>6
  <2> HIDE DEF s
  <2>2. /\ Len(s) \in Nat /\ Len(s) >= 1 /\ Len(Tail(s)) = Len(s) - 1
        /\ \A k \in 1..Len(Tail(s)) : Tail(s)[k] = s[k + 1]
    BY <2>1
  <2> QED
    BY <2>1, <2>2 DEF s
<1>8. n + 1 + Len(todo'[q]) = Len(items)
      /\ \A k \in 1..Len(todo'[q]) : todo'[q][k] = items[n + 1 + k]
  <2>1. n + Len(todo[q]) = Len(items) /\ \A k \in 1..Len(todo[q]) : todo[q][k] = items[n + k]
    BY <1>2 DEF Reached
  <2>2. ASSUME NEW k \in 1..Len(todo'[q]) PROVE todo'[q][k] = items[n + 1 + k]
    <3>1. k + 1 \in 1..Len(todo[q]) /\ n + (k + 1) = n + 1 + k
      BY <1>7
    <3> QED
      BY <1>7, <2>1, <3>1
  <2>3. n + 1 + Len(todo'[q]) = Len(items)
    <3>1. \A l \in Nat : n + 1 + (l - 1) = n + l
      BY <1>2
    <3>2. n + 1 + (Len(todo[q]) - 1) = n + Len(todo[q])
      BY <1>7, <3>1, Zenon
    <3>3. n + Len(todo[q]) = Len(items)
      BY <2>1
    <3>4. Len(todo'[q]) = Len(todo[q]) - 1
      BY <1>7
    <3> QED
      BY <3>2, <3>3, <3>4, Zenon
  <2> QED
    BY <2>2, <2>3
<1>9. ASSUME NEW k \in 1..(n + 1)
      PROVE  IsKnownHop(items[k].hop) /\ \E i \in DOMAIN edits'[q] : edits'[q][i] = RuleOf(items[k])
  <2>1. CASE k = n + 1
    BY <1>1, <1>4, <1>5, <2>1
  <2>2. CASE k \in 1..n
    <3>1. IsKnownHop(items[k].hop) /\ \E i \in DOMAIN e : e[i] = RuleOf(items[k])
      BY <1>2, <2>2 DEF Reached
    <3> QED
      BY <1>5, <3>1
  <2> QED
    BY <2>1, <2>2
<1>10. ASSUME NEW i \in DOMAIN edits'[q] PROVE EditOK(q, i, n + 1)'
  <2>1. CASE i = id
    <3>1. edits'[q][i] = RuleOf(items[n + 1]) /\ n + 1 \in 1..(n + 1)
      BY <1>4, <1>5, <2>1
    <3>2. edits'[q][i].flow = item.flow
      BY <1>4, <3>1 DEF RuleOf
    <3> QED
      BY <1>1, <1>4, <2>1, <3>1, <3>2 DEF EditOK, CachedIds
  <2>2. CASE i \in DOMAIN e
    <3>1. EditOK(q, i, n)
      BY <1>2, <2>2 DEF Reached
    <3>2. i < nextId'[q]
      <4>1. i \in Nat /\ i < nextId[q]
        BY <2>2, <3>1, SoloState DEF EditOK, IsEdit
      <4> QED
        BY <1>6, <4>1
    <3>3. \A k \in 1..n : k \in 1..(n + 1)
      OBVIOUS
    <3>4. edits'[q][i] = edits[q][i]
      BY <1>5, <2>2
    <3> HIDE DEF items, item, e
    <3> QED
      BY <1>1, <3>1, <3>2, <3>3, <3>4 DEF EditOK, CachedIds
  <2> QED
    BY <1>5, <2>1, <2>2
<1>11. \A i, j \in DOMAIN edits'[q] : edits'[q][i].flow = edits'[q][j].flow => i = j
  <2>1. \A i, j \in DOMAIN e : e[i].flow = e[j].flow => i = j
    BY <1>2 DEF Reached
  <2>2. edits'[q][id].flow = item.flow
    BY <1>5 DEF RuleOf
  <2> HIDE DEF items, item, e
  <2> QED
    BY <1>4, <1>5, <2>1, <2>2
<1>12. Reached(q, n + 1)'
  BY <1>1, <1>8, <1>9, <1>10, <1>11 DEF Reached
<1>13. nextId'[q] + Len(todo'[q]) * RuleIdStep <= MaxRuleId
  <2>1. nextId[q] + Len(todo[q]) * RuleIdStep <= MaxRuleId
    BY <1>1 DEF SoloInv, SteeringInv
  <2>2. nextId'[q] \in {nextId[q], nextId[q] + RuleIdStep}
    BY <1>1 DEF IdAfter
  <2>3. Len(todo[q]) * RuleIdStep = Len(todo'[q]) * RuleIdStep + RuleIdStep
    BY <1>7, SMT DEF RuleIdStep
  <2>4. Len(todo'[q]) * RuleIdStep \in Nat /\ MaxRuleId \in Nat
    BY <1>7, BoundAssumption DEF RuleIdStep
  <2> QED
    BY <1>6, <2>1, <2>2, <2>3, <2>4 DEF RuleIdStep
<1>14. SteeringInv(q)'
  <2>1. call[q].op = "steer" /\ call[q].items \in Batches /\ n + 1 \in Nat
    BY <1>1 DEF SoloInv, SteeringInv
  <2> QED
    BY <1>1, <1>12, <1>13, <2>1 DEF SteeringInv
<1>15. Tidy(running, nextId[q]) => Tidy(running, nextId'[q])
  BY <1>6, SoloState, TidyGrows
<1>16. OpeningInv(q)' /\ ServingInv(q)' /\ session'[q] = "up"
  BY <1>1, <1>15, SoloServing
<1> QED
  BY <1>1, <1>14, <1>16 DEF SoloInv, RemovingInv, CallInv, Loading

LEMMA SoloSteerEnds ==
    ASSUME NEW q, Solo(q), TypeOK, SoloInv(q), SteerUnknownHop(q) \/ SteerNothing(q)
    PROVE  SoloInv(q)'
<1>1. /\ q \in Procs /\ pc[q] = "steering"
      /\ UNCHANGED <<running, candidate, cache, nextId, session>>
  BY SoloState DEF SteerUnknownHop, SteerNothing, device
<1>2. /\ candidate = running /\ session[q] = "up"
      /\ Tidy(running, nextId[q]) /\ cache[q] = CacheOf(running)
  BY <1>1 DEF SoloInv, ServingInv, Serving
<1>3. PICK r \in {"nil", "error"} : Return(q, r)
  BY DEF SteerUnknownHop, SteerNothing
<1> QED
  BY <1>1, <1>2, <1>3, SoloIdle

LEMMA SoloSteerEdit ==
    ASSUME NEW q, Solo(q), TypeOK, SoloInv(q), SteerEdit(q) PROVE SoloInv(q)'
<1>1. /\ q \in Procs /\ pc[q] = "steering" /\ todo[q] = <<>> /\ session[q] = "up"
      /\ UNCHANGED <<running, cache, nextId>>
  BY SoloState DEF SteerEdit, SoloInv
<1>2. EditApplies(q) /\ Continue(q, "steerCommit") /\ UNCHANGED <<session, locals>>
  BY <1>1, SoloQuiet DEF SteerEdit, EditFails
<1>3. /\ pc'[q] = "steerCommit" /\ candidate' = Overlay(candidate, edits[q])
      /\ UNCHANGED <<call, reply, session, todo, edits, dels>>
  BY <1>1, <1>2, ContinuePc DEF EditApplies, locals
<1>4. /\ candidate = running
      /\ Tidy(running, nextId[q]) /\ cache[q] = CacheOf(running)
  BY <1>1 DEF SoloInv, ServingInv, Serving
<1>5. OpeningInv(q)' /\ ServingInv(q)' /\ session'[q] = "up"
  BY <1>1, <1>3, <1>4 DEF OpeningInv, ServingInv, Serving
<1>6. SteeringInv(q)'
  <2>1. PICK n \in Nat : Reached(q, n)
    BY <1>1 DEF SoloInv, SteeringInv
  <2>2. Reached(q, n)'
    BY <1>1, <1>3, <2>1 DEF Reached, EditOK, CachedIds
  <2>3. call[q].op = "steer" /\ call[q].items \in Batches
    BY <1>1 DEF SoloInv, SteeringInv
  <2> QED
    BY <1>1, <1>3, <2>2, <2>3 DEF SteeringInv
<1>7. reply[q] = "none"
  BY <1>1 DEF SoloInv, CallInv
<1> QED
  BY <1>3, <1>5, <1>6, <1>7 DEF SoloInv, RemovingInv, CallInv, Loading

\* What Steer writes is tidy, and the cache follows.
LEMMA SoloEdits ==
    ASSUME NEW q, Solo(q), TypeOK, SoloInv(q), pc[q] = "steerCommit"
    PROVE  /\ Tidy(Overlay(running, edits[q]), nextId[q])
           /\ CacheOf(Overlay(running, edits[q])) = Overlay(cache[q], SteeredFlows(q))
           /\ \A i \in DOMAIN edits[q], j \in DOMAIN running :
                 running[j].flow = edits[q][i].flow => i = j
<1> DEFINE e == edits[q]
<1>1. /\ Tidy(running, nextId[q]) /\ cache[q] = CacheOf(running)
      /\ IsEdit(e) /\ DefaultRuleId \in Nat
  BY SoloState DEF SoloInv, ServingInv, Serving
<1>2. PICK n \in Nat : Reached(q, n)
  BY DEF SoloInv, SteeringInv
<1>3. /\ \A i \in DOMAIN e : EditOK(q, i, n) /\ e[i].flow \in Flows /\ i \in Nat
      /\ \A i, j \in DOMAIN e : e[i].flow = e[j].flow => i = j
  BY <1>1, <1>2 DEF Reached, IsEdit
<1>4. ASSUME NEW i \in DOMAIN e, NEW j \in DOMAIN running, running[j].flow = e[i].flow
      PROVE  i = j
  <2>1. j # DefaultRuleId
    BY <1>1, <1>3, <1>4, ValueAssumption DEF Tidy, DefaultRule
  <2>2. j \in DOMAIN cache[q] /\ cache[q][j] = e[i].flow
    BY <1>1, <1>4, <2>1, TidyCache
  <2>3. i \in DOMAIN cache[q] /\ cache[q][i] = e[i].flow
    BY <1>3, <2>2 DEF EditOK, CachedIds
  <2>4. i \in DOMAIN running /\ running[i].flow = e[i].flow
    BY <1>1, <2>3, TidyCache
  <2> QED
    BY <1>1, <1>4, <2>4 DEF Tidy
<1>5. \A i \in DOMAIN e : i < nextId[q] /\ i < DefaultRuleId /\ DefaultRuleId # i
  BY <1>1, <1>3 DEF EditOK
<1>6. \A i \in DOMAIN e, j \in DOMAIN running :
         running[j].flow = e[i].flow => running[i].flow = e[i].flow /\ i \in DOMAIN running
  BY <1>4
<1> HIDE DEF e
<1>7. /\ Tidy(Overlay(running, e), nextId[q])
      /\ CacheOf(Overlay(running, e))
            = Overlay(CacheOf(running), [i \in DOMAIN e |-> e[i].flow])
  BY <1>1, <1>3, <1>5, <1>6, TidyOverlay
<1> QED
  BY <1>1, <1>4, <1>7 DEF e, SteeredFlows

LEMMA SoloSteerCommit ==
    ASSUME NEW q, Solo(q), TypeOK, SoloInv(q), SteerCommit(q) PROVE SoloInv(q)'
<1>1. /\ q \in Procs /\ pc[q] = "steerCommit" /\ session[q] = "up"
      /\ UNCHANGED <<candidate, nextId>>
  BY SoloState DEF SteerCommit, SoloInv
<1>2. candidate = Overlay(running, edits[q])
  BY <1>1 DEF SoloInv, ServingInv
<1>3. /\ running' = candidate /\ UNCHANGED session /\ Return(q, "nil")
      /\ cache'[q] = Overlay(cache[q], SteeredFlows(q))
  BY <1>1, SoloCommits DEF SteerCommit, TypeOK
<1> QED
  BY <1>1, <1>2, <1>3, SoloEdits, SoloIdle

LEMMA SoloRemoveSteer ==
    ASSUME NEW q, Solo(q), TypeOK, SoloInv(q), NEW fs \in RemoveSets, RemoveSteer(q, fs)
    PROVE  SoloInv(q)'
<1> DEFINE ids == {i \in DOMAIN cache[q] : cache[q][i] \in fs}
<1>1. /\ q \in Procs /\ pc[q] = "idle" /\ dels'[q] = ids
      /\ pc'[q] = (IF ids = {} THEN "idle" ELSE "removing")
      /\ reply'[q] = (IF ids = {} THEN "nil" ELSE "none")
      /\ call'[q] = [op |-> "remove", flows |-> fs]
      /\ UNCHANGED <<running, candidate, cache, nextId, session, edits>>
  BY SoloState DEF RemoveSteer, device, TypeOK
<1>2. OpeningInv(q)' /\ ServingInv(q)' /\ session'[q] = "up"
  BY <1>1, SoloServing
<1>3. edits[q] = NoRules
  BY <1>1 DEF SoloInv, CallInv
<1>4. RemovingInv(q)'
  BY <1>1 DEF RemovingInv
<1> QED
  BY <1>1, <1>2, <1>3, <1>4 DEF SoloInv, SteeringInv, CallInv, Loading

\* The rules to remove are in the candidate, and the default rule is not among them.
LEMMA SoloDels ==
    ASSUME NEW q, SoloInv(q), pc[q] \in {"removing", "removeCommit"}
    PROVE  /\ dels[q] \subseteq DOMAIN running /\ DefaultRuleId \notin dels[q]
           /\ \A i \in DOMAIN running : i \in dels[q] <=>
                 i # DefaultRuleId /\ running[i].flow \in call[q].flows
<1>1. Tidy(running, nextId[q]) /\ cache[q] = CacheOf(running)
  BY DEF SoloInv, ServingInv, Serving
<1>2. dels[q] = {i \in DOMAIN cache[q] : cache[q][i] \in call[q].flows}
  BY DEF SoloInv, RemovingInv
<1>3. /\ DOMAIN cache[q] = DOMAIN running \ {DefaultRuleId}
      /\ \A i \in DOMAIN running \ {DefaultRuleId} : cache[q][i] = running[i].flow
  BY <1>1, TidyCache
<1> QED
  BY <1>2, <1>3

LEMMA SoloRemoveEdit ==
    ASSUME NEW q, Solo(q), TypeOK, SoloInv(q), RemoveEdit(q) PROVE SoloInv(q)'
<1>1. /\ q \in Procs /\ pc[q] = "removing" /\ session[q] = "up"
      /\ UNCHANGED <<running, cache, nextId>>
  BY SoloState DEF RemoveEdit, SoloInv
<1>2. /\ candidate = running
      /\ Tidy(running, nextId[q]) /\ cache[q] = CacheOf(running)
  BY <1>1 DEF SoloInv, ServingInv, Serving
<1>3. dels[q] \subseteq DOMAIN candidate
  BY <1>1, <1>2, SoloDels
<1>4. DeleteApplies(q) /\ Continue(q, "removeCommit") /\ UNCHANGED <<session, locals>>
  BY <1>1, <1>3, SoloQuiet DEF RemoveEdit, DeleteFails
<1>5. /\ pc'[q] = "removeCommit" /\ candidate' = Without(candidate, dels[q])
      /\ UNCHANGED <<call, reply, session, todo, edits, dels>>
  BY <1>1, <1>4, ContinuePc DEF DeleteApplies, locals
<1>6. OpeningInv(q)' /\ ServingInv(q)' /\ session'[q] = "up"
  BY <1>1, <1>2, <1>5 DEF OpeningInv, ServingInv, Serving
<1>7. RemovingInv(q)'
  BY <1>1, <1>5 DEF SoloInv, RemovingInv
<1>8. reply[q] = "none"
  BY <1>1 DEF SoloInv, CallInv
<1> QED
  BY <1>5, <1>6, <1>7, <1>8 DEF SoloInv, SteeringInv, CallInv, Loading

LEMMA SoloRemoveCommit ==
    ASSUME NEW q, Solo(q), TypeOK, SoloInv(q), RemoveCommit(q) PROVE SoloInv(q)'
<1>1. /\ q \in Procs /\ pc[q] = "removeCommit" /\ session[q] = "up"
      /\ UNCHANGED <<candidate, nextId>>
  BY SoloState DEF RemoveCommit, SoloInv
<1>2. /\ candidate = Without(running, dels[q])
      /\ Tidy(running, nextId[q]) /\ cache[q] = CacheOf(running)
  BY <1>1 DEF SoloInv, ServingInv, Serving
<1>3. /\ running' = candidate /\ UNCHANGED session /\ Return(q, "nil")
      /\ cache'[q] = Without(cache[q], dels[q])
  BY <1>1, SoloCommits DEF RemoveCommit, TypeOK
<1>4. DefaultRuleId \notin dels[q]
  BY <1>1, SoloDels
<1>5. Tidy(candidate, nextId[q]) /\ CacheOf(candidate) = Without(cache[q], dels[q])
  BY <1>2, <1>4, TidyWithout
<1> QED
  BY <1>1, <1>3, <1>5, SoloIdle

LEMMA SoloVerify ==
    ASSUME NEW q, Solo(q), TypeOK, SoloInv(q), NEW batch \in Batches,
           GetSteerInterface(q, batch)
    PROVE  SoloInv(q)'
<1>1. /\ q \in Procs /\ pc[q] = "idle" /\ pc'[q] = "idle" /\ reply'[q] \in {"yes", "no"}
      /\ UNCHANGED <<running, candidate, cache, nextId, session, edits, dels>>
  BY SoloState DEF GetSteerInterface, device, locals, TypeOK
<1>2. OpeningInv(q)' /\ ServingInv(q)' /\ session'[q] = "up"
  BY <1>1, SoloServing
<1>3. edits[q] = NoRules /\ dels[q] = {}
  BY <1>1 DEF SoloInv, CallInv
<1> QED
  BY <1>1, <1>2, <1>3 DEF SoloInv, SteeringInv, RemovingInv, CallInv, Loading

LEMMA SoloStop == ASSUME NEW q, Solo(q), TypeOK, SoloInv(q), Stop(q) PROVE SoloInv(q)'
<1>1. q \in Procs /\ pc[q] = "idle" /\ UNCHANGED <<running, candidate>>
  BY SoloState DEF Stop, Solo, device
<1>2. candidate = running
  BY <1>1 DEF SoloInv, ServingInv
<1>3. /\ pc'[q] = "down" /\ session'[q] = "up" /\ call'[q] = NoCall /\ reply'[q] = "none"
  BY <1>1 DEF Stop, Exit, TypeOK
<1> QED
  BY <1>1, <1>2, <1>3 DEF SoloInv, OpeningInv, ServingInv, SteeringInv, RemovingInv, CallInv,
                          Serving, Loading

LEMMA SoloStep ==
    ASSUME NEW q, Solo(q), TypeOK, SoloInv(q), [Next]_vars PROVE SoloInv(q)'
<1>1. CASE Step(q)
  <2>1. ~ LoadPanics(q) /\ ~ GetSteerInterfacePanics(q)
    BY SoloQuiet DEF SoloInv
  <2> QED
    BY <1>1, <2>1, SoloOpening, SoloLoad, SoloSteer, SoloSteerItem, SoloSteerEnds,
       SoloSteerEdit, SoloSteerCommit, SoloRemoveSteer, SoloRemoveEdit, SoloRemoveCommit,
       SoloVerify, SoloStop DEF Step
<1>2. CASE UNCHANGED vars
  <2>1. SteeringInv(q)'
    <3>1. \A n : Reached(q, n) => Reached(q, n)'
      BY <1>2 DEF vars, Reached, EditOK, CachedIds
    <3> QED
      BY <1>2, <3>1 DEF vars, SoloInv, SteeringInv
  <2> QED
    BY <1>2, <2>1 DEF vars, SoloInv, OpeningInv, ServingInv, RemovingInv, CallInv
<1> QED
  BY <1>1, <1>2 DEF Next, Solo

LEMMA SoloAlways == ASSUME NEW q, Solo(q) PROVE Spec => [](TypeOK /\ SoloInv(q))
<1>1. Init => SoloInv(q)
  BY SoloInit
<1>2. TypeOK /\ SoloInv(q) /\ [Next]_vars => SoloInv(q)'
  BY SoloStep
<1> QED
  BY <1>1, <1>2, TypeCorrect, PTL DEF Spec

--------------------------------------------------------------------------------
(* What a single process keeps.                                            *)

\* What the steps of a single process do to the router's access list.
LEMMA SoloRunning ==
    ASSUME NEW q, Solo(q), TypeOK, SoloInv(q), Next
    PROVE  \/ UNCHANGED running
           \/ FlushCommit(q) /\ pc'[q] = "load" /\ running' = OnlyDefaultRule
           \/ SteerCommit(q) /\ pc'[q] = "idle" /\ running' = Overlay(running, edits[q])
           \/ RemoveCommit(q) /\ pc'[q] = "idle" /\ running' = Without(running, dels[q])
<1>1. q \in Procs /\ Step(q) /\ session[q] = "up"
  BY SoloState DEF Next, Solo, SoloInv
<1>2. CASE FlushCommit(q)
  <2>1. candidate = OnlyDefaultRule
    BY <1>2 DEF FlushCommit, SoloInv, OpeningInv
  <2>2. running' = candidate /\ pc'[q] = "load"
    BY <1>1, <1>2, ContinuePc, SoloCommits DEF FlushCommit
  <2> QED
    BY <1>2, <2>1, <2>2
<1>3. CASE SteerCommit(q)
  <2>1. candidate = Overlay(running, edits[q])
    BY <1>3 DEF SteerCommit, SoloInv, ServingInv
  <2>2. running' = candidate /\ pc'[q] = "idle"
    BY <1>1, <1>3, ReturnPc, SoloCommits DEF SteerCommit
  <2> QED
    BY <1>3, <2>1, <2>2
<1>4. CASE RemoveCommit(q)
  <2>1. candidate = Without(running, dels[q])
    BY <1>4 DEF RemoveCommit, SoloInv, ServingInv
  <2>2. running' = candidate /\ pc'[q] = "idle"
    BY <1>1, <1>4, ReturnPc, SoloCommits DEF RemoveCommit
  <2> QED
    BY <1>4, <2>1, <2>2
<1>5. CASE ~ (FlushCommit(q) \/ SteerCommit(q) \/ RemoveCommit(q))
  BY <1>1, <1>5 DEF Step, Start, FlushDelete, FlushDefault, Load, LoadPanics, Steer,
     SteerItem, SteerUnknownHop, SteerNothing, SteerEdit, RemoveSteer, RemoveEdit,
     GetSteerInterface, GetSteerInterfacePanics, Stop, device
<1> QED
  BY <1>2, <1>3, <1>4, <1>5

LEMMA OneRuleStep ==
    ASSUME NEW q, Solo(q), TypeOK, SoloInv(q), SoloInv(q)', OneRulePerFlow, [Next]_vars
    PROVE  OneRulePerFlow'
<1>1. CASE UNCHANGED running
  BY <1>1 DEF OneRulePerFlow, SteeringIds
<1>2. CASE running' = OnlyDefaultRule
  <2>1. SteeringIds(running') = {}
    BY <1>2, OnlyDefaultTidy
  <2> QED
    BY <2>1 DEF OneRulePerFlow
<1>3. CASE pc'[q] = "idle"
  <2>1. Tidy(running', nextId'[q])
    BY <1>3 DEF SoloInv, ServingInv, Serving
  <2> QED
    BY <2>1 DEF OneRulePerFlow, Tidy, SteeringIds
<1>4. CASE UNCHANGED vars
  BY <1>1, <1>4 DEF vars
<1> QED
  BY <1>1, <1>2, <1>3, <1>4, SoloRunning

\* For one process whose RPCs succeed and that flushes at start, for all flows, batches and
\* rule ids below the default rule's, on a router that has no two rules for one flow: between
\* operations nothing is unpublished, the cache is what the router runs, and a flow has one
\* rule, so changing or removing the cached one leaves no other behind.
THEOREM CacheIsRouter ==
    ASSUME NEW q, Solo(q),
           \A c \in InitialConfigs : \A i, j \in SteeringIds(c) : c[i].flow = c[j].flow => i = j
    PROVE  Spec => []CacheCoherent
<1>1. Init => OneRulePerFlow
  BY DEF Init, OneRulePerFlow
<1>2. TypeOK /\ SoloInv(q) /\ SoloInv(q)' /\ OneRulePerFlow /\ [Next]_vars => OneRulePerFlow'
  BY OneRuleStep
<1>3. OneRulePerFlow /\ SoloInv(q) => CacheCoherent
  BY DEF CacheCoherent, Solo, SoloInv, ServingInv, Serving, CacheOf
<1> QED
  BY <1>1, <1>2, <1>3, SoloAlways, PTL DEF Spec

\* For the same process: once the router has the default rule it keeps it, whatever is
\* steered, unsteered or flushed.
THEOREM DefaultRuleKept ==
    ASSUME NEW q, Solo(q)
    PROVE  Spec => DefaultRuleStays
<1>1. ASSUME TypeOK, SoloInv(q), Next, DefaultRuleId \in DOMAIN running
      PROVE  DefaultRuleId \in DOMAIN running'
  <2>1. DefaultRuleId \in DOMAIN OnlyDefaultRule
    BY DEF OnlyDefaultRule
  <2>2. DefaultRuleId \in DOMAIN Overlay(running, edits[q])
    BY <1>1 DEF Overlay
  <2>3. ASSUME RemoveCommit(q) PROVE DefaultRuleId \in DOMAIN Without(running, dels[q])
    <3>1. DefaultRuleId \notin dels[q]
      BY <1>1, <2>3, SoloDels DEF RemoveCommit
    <3> QED
      BY <1>1, <3>1 DEF Without, Restrict
  <2> QED
    BY <1>1, <2>1, <2>2, <2>3, SoloRunning
<1>2. TypeOK /\ SoloInv(q) /\ [Next]_vars
        => [(DefaultRuleId \in DOMAIN running) => (DefaultRuleId \in DOMAIN running')]_vars
  BY <1>1
<1> QED
  BY <1>2, SoloAlways, PTL DEF Spec, DefaultRuleStays

--------------------------------------------------------------------------------
(* What the router does with a packet, while its access list is tidy.      *)

LEMMA LowestIs ==
    ASSUME NEW S \in SUBSET Nat, NEW i \in S, \A j \in S : i <= j
    PROVE  (CHOOSE k \in S : \A j \in S : k <= j) = i
<1>1. \A k \in S : (\A j \in S : k <= j) => k = i
  OBVIOUS
<1> QED
  BY <1>1

\* The rule of a flow decides; the default rule where there is none.
LEMMA EffectiveTidy ==
    ASSUME NEW acl, IsAcl(acl), NEW n, Tidy(acl, n), NEW f \in Flows
    PROVE  /\ \A i \in DOMAIN acl : acl[i].flow = f => Effective(acl, f) = acl[i].addr
           /\ (\A i \in DOMAIN acl : acl[i].flow # f) =>
                 Effective(acl, f) = IF DefaultRuleId \in DOMAIN acl THEN NoAddr
                                                                     ELSE "unmatched"
<1> DEFINE M == Matching(acl, f)
<1>1. M \in SUBSET Nat
  BY DEF Matching, IsAcl
<1>2. ASSUME NEW i \in DOMAIN acl, acl[i].flow = f PROVE Effective(acl, f) = acl[i].addr
  <2>1. i # DefaultRuleId
    BY <1>2, ValueAssumption DEF Tidy, DefaultRule
  <2>2. \A j \in M : j = i \/ j = DefaultRuleId
    BY <1>2, ValueAssumption DEF Matching, Tidy
  <2>3. i \in M /\ i < DefaultRuleId
    BY <1>2, <2>1 DEF Matching, Tidy
  <2>4. i \in Nat /\ DefaultRuleId \in Nat
    BY <1>1, <2>3, BoundAssumption
  <2>5. \A j \in M : i <= j
    BY <2>2, <2>3, <2>4
  <2> HIDE DEF M
  <2>6. (CHOOSE k \in M : \A j \in M : k <= j) = i
    BY <1>1, <2>3, <2>5, LowestIs
  <2> QED
    BY <2>3, <2>6 DEF Effective, M
<1>3. ASSUME \A i \in DOMAIN acl : acl[i].flow # f, DefaultRuleId \in DOMAIN acl
      PROVE  Effective(acl, f) = NoAddr
  <2>1. M = {DefaultRuleId} /\ acl[DefaultRuleId].addr = NoAddr
    BY <1>3, ValueAssumption DEF Matching, Tidy, DefaultRule
  <2>2. DefaultRuleId <= DefaultRuleId
    BY BoundAssumption
  <2> HIDE DEF M
  <2>3. (CHOOSE k \in M : \A j \in M : k <= j) = DefaultRuleId
    BY <1>1, <2>1, <2>2, LowestIs
  <2> QED
    BY <2>1, <2>3 DEF Effective, M
<1>4. ASSUME \A i \in DOMAIN acl : acl[i].flow # f, DefaultRuleId \notin DOMAIN acl
      PROVE  Effective(acl, f) = "unmatched"
  <2>1. M = {}
    BY <1>4, ValueAssumption DEF Matching, Tidy
  <2> QED
    BY <2>1 DEF Effective
<1> QED
  BY <1>2, <1>3, <1>4

\* Two tidy lists that agree on the rules of a flow and on the default rule treat it alike.
LEMMA SameEffect ==
    ASSUME NEW acl, IsAcl(acl), NEW n, Tidy(acl, n), NEW new, IsAcl(new), NEW m, Tidy(new, m),
           NEW f \in Flows,
           \A i \in DOMAIN acl : acl[i].flow = f => i \in DOMAIN new /\ new[i] = acl[i],
           \A i \in DOMAIN new : new[i].flow = f => i \in DOMAIN acl /\ acl[i] = new[i],
           DefaultRuleId \in DOMAIN acl <=> DefaultRuleId \in DOMAIN new
    PROVE  Effective(new, f) = Effective(acl, f)
<1>1. CASE \E i \in DOMAIN acl : acl[i].flow = f
  <2>1. PICK i \in DOMAIN acl : acl[i].flow = f
    BY <1>1
  <2>2. Effective(acl, f) = acl[i].addr
    BY <2>1, EffectiveTidy
  <2>3. i \in DOMAIN new /\ new[i] = acl[i] /\ new[i].flow = f
    BY <2>1
  <2>4. Effective(new, f) = new[i].addr
    BY <2>3, EffectiveTidy
  <2> QED
    BY <2>2, <2>3, <2>4
<1>2. CASE \A i \in DOMAIN acl : acl[i].flow # f
  <2>1. \A i \in DOMAIN new : new[i].flow # f
    BY <1>2
  <2>2. Effective(acl, f) = IF DefaultRuleId \in DOMAIN acl THEN NoAddr ELSE "unmatched"
    BY <1>2, EffectiveTidy
  <2>3. Effective(new, f) = IF DefaultRuleId \in DOMAIN new THEN NoAddr ELSE "unmatched"
    BY <2>1, EffectiveTidy
  <2> QED
    BY <2>2, <2>3
<1> QED
  BY <1>1, <1>2

\* When Steer is about to commit it has come to the end of its batch.
LEMMA BatchDone ==
    ASSUME NEW q, Solo(q), SoloInv(q), pc[q] \in {"steering", "steerCommit"}, todo[q] = <<>>
    PROVE  Reached(q, Len(call[q].items))
<1>1. PICK n \in Nat : Reached(q, n)
  BY DEF SoloInv, SteeringInv
<1>2. call[q].items \in Seq(Item)
  BY SoloItems
<1>3. n = Len(call[q].items)
  <2>1. n + Len(<<>>) = Len(call[q].items)
    BY <1>1 DEF Reached
  <2>2. Len(<<>>) = 0
    OBVIOUS
  <2>3. n + 0 = n
    BY <1>1
  <2> QED
    BY <2>1, <2>2, <2>3
<1> QED
  BY <1>1, <1>3

\* What the commit of Steer changes.
LEMMA SteerEffect ==
    ASSUME NEW q, Solo(q), TypeOK, SoloInv(q), pc[q] = "steerCommit"
    PROVE  LET items == call[q].items
               new   == Overlay(running, edits[q])
           IN  /\ \A k \in 1..Len(items) : /\ IsKnownHop(items[k].hop)
                                           /\ Effective(new, items[k].flow) = HopAddr(items[k].hop)
               /\ \A f \in Flows : (\A k \in 1..Len(items) : items[k].flow # f)
                                      => Effective(new, f) = Effective(running, f)
<1> DEFINE items == call[q].items
           e     == edits[q]
           new   == Overlay(running, e)
<1>1. /\ IsAcl(running) /\ IsEdit(e) /\ IsAcl(e) /\ Tidy(running, nextId[q])
      /\ Tidy(new, nextId[q])
  BY SoloState, EditIsAcl, SoloEdits DEF SoloInv, ServingInv, Serving
<1>2. IsAcl(new)
  BY <1>1, OverlayType
<1>3. Reached(q, Len(items)) /\ items \in Seq(Item)
  BY BatchDone, SoloItems DEF SoloInv, SteeringInv
<1>4. /\ DOMAIN new = DOMAIN running \cup DOMAIN e
      /\ \A i \in DOMAIN e : new[i] = e[i]
      /\ \A i \in DOMAIN running \ DOMAIN e : new[i] = running[i]
  BY DEF Overlay
<1> HIDE DEF new
<1>5. ASSUME NEW k \in 1..Len(items)
      PROVE  IsKnownHop(items[k].hop) /\ Effective(new, items[k].flow) = HopAddr(items[k].hop)
  <2>1. PICK i \in DOMAIN e : e[i] = RuleOf(items[k])
    BY <1>3 DEF Reached
  <2>2. i \in DOMAIN new /\ new[i].flow = items[k].flow /\ new[i].addr = HopAddr(items[k].hop)
    BY <1>4, <2>1 DEF RuleOf
  <2>3. items[k].flow \in Flows
    <3> HIDE DEF items
    <3>1. items[k] \in Item
      BY <1>3, <1>5
    <3> QED
      BY <3>1 DEF Item
  <2>4. Effective(new, items[k].flow) = new[i].addr
    BY <1>1, <1>2, <2>2, <2>3, EffectiveTidy
  <2> QED
    BY <1>3, <2>2, <2>4 DEF Reached
<1>6. ASSUME NEW f \in Flows, \A k \in 1..Len(items) : items[k].flow # f
      PROVE  Effective(new, f) = Effective(running, f)
  <2>1. \A i \in DOMAIN e : e[i].flow # f
    <3>1. \A i \in DOMAIN e : \E k \in 1..Len(items) : e[i] = RuleOf(items[k])
      BY <1>3 DEF Reached, EditOK
    <3>2. \A k \in 1..Len(items) : RuleOf(items[k]).flow = items[k].flow
      BY DEF RuleOf
    <3> QED
      BY <1>6, <3>1, <3>2
  <2>2. ASSUME NEW i \in DOMAIN running, running[i].flow = f PROVE i \notin DOMAIN e
    <3>1. ASSUME i \in DOMAIN e PROVE FALSE
      <4>1. EditOK(q, i, Len(items)) /\ cache[q] = CacheOf(running)
        BY <1>3, <3>1 DEF Reached, SoloInv, ServingInv, Serving
      <4>2. i # DefaultRuleId
        BY <1>1, <2>2, ValueAssumption DEF Tidy, DefaultRule
      <4>3. i \in DOMAIN cache[q] /\ cache[q][i] = f
        BY <1>1, <2>2, <4>1, <4>2, TidyCache
      <4> QED
        BY <2>1, <3>1, <4>1, <4>3 DEF EditOK
    <3> QED
      BY <3>1
  <2>3. DefaultRuleId \notin DOMAIN e
    <3>1. \A i \in DOMAIN e : i < DefaultRuleId
      BY <1>3 DEF Reached, EditOK
    <3> QED
      BY <3>1, BoundAssumption
  <2>4. DefaultRuleId \in DOMAIN running <=> DefaultRuleId \in DOMAIN new
    BY <1>4, <2>3
  <2>5. \A i \in DOMAIN running : running[i].flow = f => i \in DOMAIN new /\ new[i] = running[i]
    BY <1>4, <2>2
  <2>6. \A i \in DOMAIN new : new[i].flow = f => i \in DOMAIN running /\ running[i] = new[i]
    BY <1>4, <2>1
  <2> QED
    BY <1>1, <1>2, <2>4, <2>5, <2>6, SameEffect
<1> QED
  BY <1>5, <1>6 DEF new

\* What the commit of RemoveSteer changes.
LEMMA RemoveEffect ==
    ASSUME NEW q, Solo(q), TypeOK, SoloInv(q), pc[q] = "removeCommit"
    PROVE  LET new == Without(running, dels[q])
           IN  \A f \in Flows :
                  IF f \in call[q].flows THEN Effective(new, f) \in {NoAddr, "unmatched"}
                                         ELSE Effective(new, f) = Effective(running, f)
<1> DEFINE new == Without(running, dels[q])
<1>1. IsAcl(running) /\ Tidy(running, nextId[q])
  BY SoloState DEF SoloInv, ServingInv, Serving
<1>2. IsAcl(new) /\ Tidy(new, nextId[q])
  BY <1>1, WithoutType, TidyWithout
<1>3. /\ DefaultRuleId \notin dels[q]
      /\ \A i \in DOMAIN running : i \in dels[q] <=>
            i # DefaultRuleId /\ running[i].flow \in call[q].flows
  BY SoloDels
<1>4. /\ DOMAIN new = DOMAIN running \ dels[q]
      /\ \A i \in DOMAIN new : new[i] = running[i]
  BY DEF Without, Restrict
<1> HIDE DEF new
<1>5. ASSUME NEW f \in Flows, f \in call[q].flows
      PROVE  Effective(new, f) \in {NoAddr, "unmatched"}
  <2>1. \A i \in DOMAIN new : new[i].flow # f
    <3>1. \A i \in DOMAIN new : new[i] = running[i] /\ (i = DefaultRuleId \/ running[i].flow # f)
      BY <1>3, <1>4, <1>5
    <3>2. DefaultRuleId \in DOMAIN new => new[DefaultRuleId].flow # f
      BY <1>2, <1>5, ValueAssumption DEF Tidy, DefaultRule
    <3> QED
      BY <3>1, <3>2
  <2> QED
    BY <1>2, <2>1, EffectiveTidy
<1>6. ASSUME NEW f \in Flows, f \notin call[q].flows
      PROVE  Effective(new, f) = Effective(running, f)
  <2>1. DefaultRuleId \in DOMAIN running <=> DefaultRuleId \in DOMAIN new
    BY <1>3, <1>4
  <2>2. \A i \in DOMAIN running : running[i].flow = f => i \in DOMAIN new /\ new[i] = running[i]
    BY <1>3, <1>4, <1>6
  <2>3. \A i \in DOMAIN new : new[i].flow = f => i \in DOMAIN running /\ running[i] = new[i]
    BY <1>4
  <2> QED
    BY <1>1, <1>2, <2>1, <2>2, <2>3, SameEffect
<1> QED
  BY <1>5, <1>6 DEF new

\* For the same process: an operation changes what the router does with the flows it
\* names and with no other, and the start changes it for all flows at once.
THEOREM OthersLeftAlone ==
    ASSUME NEW q, Solo(q)
    PROVE  Spec => OthersUntouched
<1>1. ASSUME TypeOK, SoloInv(q), Next, NEW f \in Flows,
             Effective(running', f) # Effective(running, f)
      PROVE  \E p \in Procs : pc'[p] # pc[p] /\ f \in Named(p)
  <2>1. q \in Procs
    BY SoloState, <1>1
  <2>2. CASE FlushCommit(q) /\ pc'[q] = "load"
    BY <2>1, <2>2 DEF FlushCommit, Named
  <2>3. CASE SteerCommit(q) /\ pc'[q] = "idle" /\ running' = Overlay(running, edits[q])
    <3>1. pc[q] = "steerCommit"
      BY <2>3 DEF SteerCommit
    <3>2. PICK k \in 1..Len(call[q].items) : call[q].items[k].flow = f
      BY <1>1, <2>3, <3>1, SteerEffect
    <3>3. k \in DOMAIN call[q].items
      BY <1>1, <3>1, SoloItems
    <3> QED
      BY <2>1, <2>3, <3>1, <3>2, <3>3 DEF Named
  <2>4. CASE RemoveCommit(q) /\ pc'[q] = "idle" /\ running' = Without(running, dels[q])
    <3>1. pc[q] = "removeCommit"
      BY <2>4 DEF RemoveCommit
    <3>2. f \in call[q].flows
      BY <1>1, <2>4, <3>1, RemoveEffect
    <3> QED
      BY <2>1, <2>4, <3>1, <3>2 DEF Named
  <2> QED
    BY <1>1, <2>2, <2>3, <2>4, SoloRunning
<1>2. TypeOK /\ SoloInv(q) /\ [Next]_vars
        => [\A f \in Flows : Effective(running', f) # Effective(running, f)
               => \E p \in Procs : pc'[p] # pc[p] /\ f \in Named(p)]_vars
  BY <1>1
<1> QED
  BY <1>2, SoloAlways, PTL DEF Spec, OthersUntouched

--------------------------------------------------------------------------------
(* The table that a single process implements.                             *)

LEMMA NatMin ==
    ASSUME NEW S \in SUBSET Nat, S # {}
    PROVE  \E i \in S : \A j \in S : i <= j
<1> DEFINE R == OpToRel(<, Nat)
<1>1. IsWellFoundedOn(R, Nat)
  BY NatLessThanWellFounded, Zenon
<1>2. \A x, y \in Nat : x < y => <<x, y>> \in R
  BY DEF OpToRel
<1> HIDE DEF R
<1>3. PICK x \in S : \A y \in S : ~ (<<y, x>> \in R)
  BY <1>1, WFMin
<1>4. ASSUME NEW y \in S PROVE x <= y
  <2>1. ~ (y < x)
    BY <1>2, <1>3
  <2> QED
    BY <2>1
<1> QED
  BY <1>4

\* Whatever the access list, some rule decides or none matches.
LEMMA EffectiveType ==
    ASSUME NEW acl, IsAcl(acl), NEW f
    PROVE  Effective(acl, f) \in {AddrOf[h] : h \in DOMAIN AddrOf} \cup {NoAddr, "unmatched"}
<1> DEFINE M == Matching(acl, f)
           lowest == CHOOSE i \in M : \A j \in M : i <= j
<1>1. M \in SUBSET Nat /\ M \subseteq DOMAIN acl
  BY DEF Matching, IsAcl
<1> HIDE DEF M
<1>2. ASSUME M # {} PROVE acl[lowest].addr \in Addrs
  <2>1. lowest \in M
    BY <1>1, <1>2, NatMin
  <2> QED
    BY <1>1, <2>1 DEF IsAcl, Rule
<1>3. Addrs \subseteq {AddrOf[h] : h \in DOMAIN AddrOf} \cup {NoAddr, "unmatched"}
  BY ValueAssumption DEF Addrs
<1> QED
  BY <1>2, <1>3 DEF Effective, M

LEMMA TableInitHolds == ASSUME Init PROVE Table!TableInit
<1>1. IsAcl(running)
  BY InitType DEF TypeOK
<1>2. \A f \in Flows :
         Effective(running, f) \in {AddrOf[h] : h \in DOMAIN AddrOf} \cup Table!Unsteered
  BY <1>1, EffectiveType DEF Table!Unsteered
<1> QED
  BY <1>2 DEF Init, Table!TableInit, Table!NoOp, NoCall

\* An operation is in progress in the table whenever it is in the process.
LEMMA TableRunning ==
    ASSUME NEW q, SoloInv(q)
    PROVE  /\ pc[q] \in {"down", "idle"} => ~ Table!Running(q)
           /\ pc[q] \in Loading => Table!Running(q) /\ call[q].op = "init" /\ call[q].flush
           /\ pc[q] \in {"steering", "steerCommit"} => Table!Running(q) /\ call[q].op = "steer"
           /\ pc[q] \in {"removing", "removeCommit"} => Table!Running(q) /\ call[q].op = "remove"
<1>1. CallInv(q) /\ SteeringInv(q) /\ RemovingInv(q)
  BY DEF SoloInv
<1>2. /\ pc[q] = "down" => call[q] = NoCall
      /\ pc[q] = "idle" => reply[q] # "none"
      /\ pc[q] # "idle" => reply[q] = "none"
      /\ pc[q] \in Loading => call[q] = [op |-> "init", flush |-> TRUE]
  BY <1>1 DEF CallInv
<1>3. /\ pc[q] \in {"steering", "steerCommit"} => call[q].op = "steer"
      /\ pc[q] \in {"removing", "removeCommit"} => call[q].op = "remove"
  BY <1>1 DEF SteeringInv, RemovingInv
<1>4. NoCall.op = "none" /\ Table!NoOp = NoCall
  BY DEF NoCall, Table!NoOp
<1>5. [op |-> "init", flush |-> TRUE].op = "init" /\ [op |-> "init", flush |-> TRUE].flush
  OBVIOUS
<1> QED
  BY <1>2, <1>3, <1>4, <1>5 DEF Table!Running, Loading

\* A call: Start, Steer, and RemoveSteer of a flow that is cached.
LEMMA TableBegins ==
    ASSUME NEW q, Solo(q), TypeOK, SoloInv(q), UNCHANGED running,
           pc[q] \in {"down", "idle"}, NEW c \in Table!Requests,
           call' = [call EXCEPT ![q] = c], reply' = [reply EXCEPT ![q] = "none"]
    PROVE  Table!Begin(q)
<1>1. ~ Table!Running(q)
  BY TableRunning
<1>2. UNCHANGED [f \in Flows |-> Effective(running, f)]
  OBVIOUS
<1> QED
  BY <1>1, <1>2 DEF Table!Begin, Table!Ask, Table!Answer

LEMMA StartBegins ==
    ASSUME NEW q, Solo(q), TypeOK, SoloInv(q), Start(q) PROVE Table!Begin(q)
<1>1. PICK flush \in FlushOptions : call' = [call EXCEPT ![q] = [op |-> "init", flush |-> flush]]
  BY DEF Start
<1>2. [op |-> "init", flush |-> flush] \in Table!Requests
  BY InputAssumption DEF Table!Requests
<1>3. UNCHANGED <<running, reply>> /\ pc[q] = "down" /\ q \in Procs
  BY SoloState DEF Start, device
<1>4. reply[q] = "none" /\ reply \in [Procs -> {"none", "nil", "error", "yes", "no"}]
  BY <1>3 DEF SoloInv, CallInv, TypeOK
<1>5. reply' = [reply EXCEPT ![q] = "none"]
  BY <1>3, <1>4
<1> QED
  BY <1>1, <1>2, <1>3, <1>5, TableBegins

LEMMA SteerBegins ==
    ASSUME NEW q, Solo(q), TypeOK, SoloInv(q), NEW batch \in Batches, Steer(q, batch)
    PROVE  Table!Begin(q)
<1>1. [op |-> "steer", items |-> batch] \in Table!Requests
  BY DEF Table!Requests
<1> QED
  BY <1>1, TableBegins DEF Steer, device

\* The access lists that opening leaves steer nothing.
LEMMA NothingSteered ==
    ASSUME NEW acl \in {NoRules, OnlyDefaultRule}
    PROVE  [f \in Flows |-> Effective(acl, f)] \in [Flows -> Table!Unsteered]
<1>1. IsAcl(acl) /\ Tidy(acl, 0) /\ SteeringIds(acl) = {}
  BY NoRulesType, SingleRuleType, DefaultRuleType, BoundAssumption, OnlyDefaultTidy
  DEF OnlyDefaultRule
<1>2. ASSUME NEW f \in Flows PROVE Effective(acl, f) \in Table!Unsteered
  <2>1. \A i \in DOMAIN acl : acl[i].flow # f
    BY ValueAssumption DEF NoRules, OnlyDefaultRule, DefaultRule
  <2>2. Effective(acl, f) \in {NoAddr, "unmatched"}
    BY <1>1, <2>1, EffectiveTidy
  <2> QED
    BY <2>2 DEF Table!Unsteered
<1> QED
  BY <1>2

LEMMA FlushClears ==
    ASSUME NEW q, Solo(q), TypeOK, SoloInv(q), FlushCommit(q) PROVE Table!Clear(q)
<1>1. q \in Procs /\ pc[q] = "flushCommit" /\ session[q] = "up" /\ UNCHANGED <<call, reply>>
  BY SoloState, ContinuePc DEF FlushCommit, SoloInv
<1>2. running' = candidate /\ candidate = OnlyDefaultRule
  BY <1>1, SoloCommits DEF FlushCommit, SoloInv, OpeningInv
<1>3. [f \in Flows |-> Effective(running', f)] \in [Flows -> Table!Unsteered]
  BY <1>2, NothingSteered
<1>4. Table!Running(q) /\ call[q].op = "init" /\ call[q].flush
  BY <1>1, TableRunning DEF Loading
<1> QED
  BY <1>1, <1>3, <1>4 DEF Table!Clear

LEMMA LoadOpens ==
    ASSUME NEW q, Solo(q), TypeOK, SoloInv(q), Load(q) PROVE Table!Opened(q)
<1>1. pc[q] = "load" /\ UNCHANGED <<running, call>> /\ reply' = [reply EXCEPT ![q] = "nil"]
  BY DEF Load, device, Return
<1>2. running \in {NoRules, OnlyDefaultRule}
  BY <1>1 DEF SoloInv, OpeningInv
<1>3. [f \in Flows |-> Effective(running, f)] \in [Flows -> Table!Unsteered]
  BY <1>2, NothingSteered
<1>4. Table!Running(q) /\ call[q].op = "init"
  BY <1>1, TableRunning DEF Loading
<1> QED
  BY <1>1, <1>3, <1>4 DEF Table!Opened, Table!Answer

LEMMA TargetIsHopAddr ==
    ASSUME NEW item
    PROVE  /\ Table!Resolvable(item) <=> IsKnownHop(item.hop)
           /\ Table!Target(item) = HopAddr(item.hop)
BY DEF Table!Resolvable, Table!Target, IsKnownHop, HopAddr

\* The end of a Steer that returns nil.
LEMMA TableSteers ==
    ASSUME NEW q, Solo(q), TypeOK, SoloInv(q), pc[q] \in {"steering", "steerCommit"},
           reply' = [reply EXCEPT ![q] = "nil"], UNCHANGED call,
           \A k \in 1..Len(call[q].items) :
              /\ IsKnownHop(call[q].items[k].hop)
              /\ Effective(running', call[q].items[k].flow) = HopAddr(call[q].items[k].hop),
           \A f \in Flows : (\A k \in 1..Len(call[q].items) : call[q].items[k].flow # f)
                               => Effective(running', f) = Effective(running, f)
    PROVE  Table!Steered(q)
<1> DEFINE items  == call[q].items
           For(f) == {k \in DOMAIN items : items[k].flow = f}
           pick   == [f \in Flows |-> IF For(f) = {} THEN 0 ELSE CHOOSE k \in For(f) : TRUE]
           table  == [f \in Flows |-> Effective(running, f)]
<1>1. Table!Running(q) /\ call[q].op = "steer"
  BY TableRunning
<1>2. DOMAIN items = 1..Len(items)
  BY SoloItems
<1>3. \A k \in DOMAIN items : Table!Resolvable(items[k])
  BY <1>2, TargetIsHopAddr
<1>4. /\ pick \in [Flows -> DOMAIN items \cup {0}]
      /\ \A f \in Flows : pick[f] \in IF For(f) = {} THEN {0} ELSE For(f)
  OBVIOUS
<1>5. ASSUME NEW f \in Flows
      PROVE  Effective(running', f) = IF For(f) = {} THEN table[f]
                                                     ELSE Table!Target(items[pick[f]])
  <2>1. CASE For(f) = {}
    BY <1>2, <2>1
  <2>2. CASE For(f) # {}
    <3>1. pick[f] \in DOMAIN items /\ items[pick[f]].flow = f
      BY <1>4, <2>2
    <3> QED
      BY <1>2, <2>2, <3>1, TargetIsHopAddr
  <2> QED
    BY <2>1, <2>2
<1>6. [f \in Flows |-> Effective(running', f)]
         = [f \in Flows |-> IF For(f) = {} THEN table[f] ELSE Table!Target(items[pick[f]])]
  BY <1>5
<1> QED
  BY <1>1, <1>3, <1>4, <1>6 DEF Table!Steered, Table!Answer

LEMMA SteerNothingSteers ==
    ASSUME NEW q, Solo(q), TypeOK, SoloInv(q), SteerNothing(q) PROVE Table!Steered(q)
<1>1. /\ pc[q] = "steering" /\ todo[q] = <<>> /\ edits[q] = NoRules
      /\ reply' = [reply EXCEPT ![q] = "nil"] /\ UNCHANGED <<running, call>>
  BY DEF SteerNothing, device, Return
<1>2. Reached(q, Len(call[q].items))
  BY <1>1, BatchDone
<1>3. \A k \in 1..Len(call[q].items) : FALSE
  BY <1>1, <1>2 DEF Reached, NoRules
<1> QED
  BY <1>1, <1>3, TableSteers

LEMMA SteerCommitSteers ==
    ASSUME NEW q, Solo(q), TypeOK, SoloInv(q), SteerCommit(q) PROVE Table!Steered(q)
<1>1. q \in Procs /\ pc[q] = "steerCommit" /\ session[q] = "up" /\ UNCHANGED call
  BY SoloState DEF SteerCommit, SoloInv
<1>2. candidate = Overlay(running, edits[q])
  BY <1>1 DEF SoloInv, ServingInv
<1>3. running' = candidate /\ reply' = [reply EXCEPT ![q] = "nil"]
  BY <1>1, SoloCommits DEF SteerCommit, Return
<1> QED
  BY <1>1, <1>2, <1>3, SteerEffect, TableSteers

LEMMA UnknownHopRefused ==
    ASSUME NEW q, Solo(q), TypeOK, SoloInv(q), SteerUnknownHop(q) PROVE Table!Refused(q)
<1>1. /\ pc[q] = "steering" /\ todo[q] # <<>> /\ ~ IsKnownHop(Head(todo[q]).hop)
      /\ reply' = [reply EXCEPT ![q] = "error"] /\ UNCHANGED <<running, call>>
  BY DEF SteerUnknownHop, device, Return
<1>2. PICK n \in Nat : Reached(q, n)
  BY <1>1 DEF SoloInv, SteeringInv
<1>3. /\ todo[q] \in Seq(Item) /\ Head(todo[q]) = todo[q][1]
      /\ Len(todo[q]) \in Nat /\ 1 \in 1..Len(todo[q])
  BY <1>1, SoloState
<1>4. n + 1 \in 1..Len(call[q].items) /\ Head(todo[q]) = call[q].items[n + 1]
  <2>1. n + Len(todo[q]) = Len(call[q].items) /\ todo[q][1] = call[q].items[n + 1]
    BY <1>2, <1>3 DEF Reached
  <2>2. \A l \in Nat : 1 \in 1..l => n + 1 \in 1..(n + l)
    BY <1>2
  <2> QED
    BY <1>3, <2>1, <2>2, Zenon
<1>5. n + 1 \in DOMAIN call[q].items
  BY <1>1, <1>4, SoloItems
<1>6. ~ Table!Resolvable(call[q].items[n + 1])
  BY <1>1, <1>4, TargetIsHopAddr
<1>7. Table!Running(q) /\ call[q].op = "steer"
  BY <1>1, TableRunning
<1>8. UNCHANGED [f \in Flows |-> Effective(running, f)]
  BY <1>1
<1> QED
  BY <1>1, <1>5, <1>6, <1>7, <1>8 DEF Table!Refused, Table!Answer

LEMMA RemoveSteerMaps ==
    ASSUME NEW q, Solo(q), TypeOK, SoloInv(q), NEW fs \in RemoveSets, RemoveSteer(q, fs)
    PROVE  Table!Begin(q) \/ Table!NothingToRemove(q)
<1> DEFINE ids == {i \in DOMAIN cache[q] : cache[q][i] \in fs}
<1>1. /\ pc[q] = "idle" /\ UNCHANGED running
      /\ reply' = [reply EXCEPT ![q] = IF ids = {} THEN "nil" ELSE "none"]
      /\ call' = [call EXCEPT ![q] = [op |-> "remove", flows |-> fs]]
  BY DEF RemoveSteer, device
<1>2. CASE ids # {}
  <2>1. [op |-> "remove", flows |-> fs] \in Table!Requests
    BY DEF Table!Requests
  <2>2. reply' = [reply EXCEPT ![q] = "none"]
    BY <1>1, <1>2
  <2> QED
    BY <1>1, <2>1, <2>2, TableBegins
<1>3. CASE ids = {}
  <2>1. /\ IsAcl(running) /\ Tidy(running, nextId[q]) /\ cache[q] = CacheOf(running)
    BY <1>1, SoloState DEF SoloInv, ServingInv, Serving
  <2>2. ASSUME NEW f \in fs PROVE f \in Flows /\ Effective(running, f) \in Table!Unsteered
    <3>1. f \in Flows
      BY <2>2, InputAssumption
    <3>2. \A i \in DOMAIN running : running[i].flow # f
      <4>1. \A i \in DOMAIN running \ {DefaultRuleId} :
               i \in DOMAIN cache[q] /\ cache[q][i] = running[i].flow
        BY <2>1, TidyCache
      <4>2. DefaultRuleId \in DOMAIN running => running[DefaultRuleId].flow # f
        BY <2>1, <3>1, ValueAssumption DEF Tidy, DefaultRule
      <4> QED
        BY <1>3, <2>2, <4>1, <4>2
    <3>3. Effective(running, f) \in {NoAddr, "unmatched"}
      BY <2>1, <3>1, <3>2, EffectiveTidy
    <3> QED
      BY <3>1, <3>3 DEF Table!Unsteered
  <2>3. ~ Table!Running(q)
    BY <1>1, TableRunning
  <2>4. UNCHANGED [f \in Flows |-> Effective(running, f)]
    BY <1>1
  <2> QED
    BY <1>1, <1>3, <2>2, <2>3, <2>4 DEF Table!NothingToRemove, Table!Ask, Table!Answer
<1> QED
  BY <1>2, <1>3

LEMMA RemoveCommitRemoves ==
    ASSUME NEW q, Solo(q), TypeOK, SoloInv(q), RemoveCommit(q) PROVE Table!Removed(q)
<1>1. q \in Procs /\ pc[q] = "removeCommit" /\ session[q] = "up" /\ UNCHANGED call
  BY SoloState DEF RemoveCommit, SoloInv
<1>2. candidate = Without(running, dels[q])
  BY <1>1 DEF SoloInv, ServingInv
<1>3. running' = Without(running, dels[q]) /\ reply' = [reply EXCEPT ![q] = "nil"]
  BY <1>1, <1>2, SoloCommits DEF RemoveCommit, Return
<1> DEFINE fs    == call[q].flows
           left  == [f \in Flows |-> IF f \in fs THEN Effective(running', f) ELSE NoAddr]
           table == [f \in Flows |-> Effective(running, f)]
<1>4. ASSUME NEW f \in Flows
      PROVE  IF f \in fs THEN Effective(running', f) \in Table!Unsteered
                         ELSE Effective(running', f) = Effective(running, f)
  BY <1>1, <1>3, RemoveEffect DEF Table!Unsteered
<1>5. left \in [Flows -> Table!Unsteered]
  BY <1>4 DEF Table!Unsteered
<1>6. [f \in Flows |-> Effective(running', f)]
         = [f \in Flows |-> IF f \in fs THEN left[f] ELSE table[f]]
  BY <1>4
<1>7. Table!Running(q) /\ call[q].op = "remove"
  BY <1>1, TableRunning
<1> QED
  BY <1>1, <1>3, <1>5, <1>6, <1>7 DEF Table!Removed, Table!Answer

\* No two WAN interfaces have the same next-hop address.
DistinctAddrs == \A g, h \in WanHops : AddrOf[g] = AddrOf[h] => g = h

\* A next hop that the router lists for a flow is the one it sends the flow to.
LEMMA ReportedHop ==
    ASSUME NEW q, Solo(q), TypeOK, SoloInv(q), pc[q] = "idle", DistinctAddrs,
           NEW f \in Flows, NEW h \in ReportedHops(f)
    PROVE  /\ h = "absent" \/ (IsKnownHop(h) /\ Effective(running, f) = HopAddr(h))
           /\ \A g \in WanHops : Effective(running, f) = AddrOf[g] => h = g
<1>1. IsAcl(running) /\ Tidy(running, nextId[q])
  BY SoloState DEF SoloInv, ServingInv, Serving
<1>2. ASSUME NEW g, Reported(f, g)
      PROVE  IsKnownHop(g) /\ Effective(running, f) = HopAddr(g)
  <2>1. PICK i \in DOMAIN running :
            running[i].flow = f /\ IsKnownHop(g) /\ running[i].addr = HopAddr(g)
    BY <1>2 DEF Reported
  <2> QED
    BY <1>1, <2>1, EffectiveTidy
<1>3. (h \in Hops \cup {NoHop} /\ Reported(f, h))
         \/ (h = "absent" /\ \A g \in Hops \cup {NoHop} : ~ Reported(f, g))
  BY DEF ReportedHops
<1>4. ASSUME NEW g \in WanHops, Effective(running, f) = AddrOf[g] PROVE h = g
  <2>1. g \in Hops /\ g # NoHop /\ HopAddr(g) = AddrOf[g] /\ AddrOf[g] \in Addrs
        /\ AddrOf[g] # NoAddr /\ AddrOf[g] # "unmatched"
    BY ValueAssumption, MarkAssumption DEF HopAddr, Addrs
  <2>2. PICK i \in DOMAIN running : running[i].flow = f
    BY <1>1, <1>4, <2>1, EffectiveTidy
  <2>3. running[i].addr = AddrOf[g]
    BY <1>1, <1>4, <2>2, EffectiveTidy
  <2>4. \A j \in DOMAIN running : running[j].flow = f => j = i
    BY <1>1, <2>2 DEF Tidy
  <2>5. i \in Nat
    BY <1>1 DEF IsAcl
  <2>6. Reported(f, g)
    BY <2>1, <2>2, <2>3, <2>4, <2>5 DEF Reported, IsKnownHop
  <2>7. IsKnownHop(h) /\ HopAddr(h) = AddrOf[g]
    BY <1>2, <1>3, <1>4, <2>1, <2>6
  <2> QED
    BY <2>1, <2>7 DEF IsKnownHop, HopAddr, DistinctAddrs
<1> QED
  BY <1>2, <1>3, <1>4

LEMMA VerifyMaps ==
    ASSUME NEW q, Solo(q), TypeOK, SoloInv(q), DistinctAddrs,
           NEW batch \in Batches, GetSteerInterface(q, batch)
    PROVE  Table!Verify(q)
<1> DEFINE asked == {batch[k].flow : k \in DOMAIN batch}
           table == [f \in Flows |-> Effective(running, f)]
           holds(k) == Table!Resolvable(batch[k]) /\ table[batch[k].flow] = Table!Target(batch[k])
<1>1. PICK responseMap \in [asked -> UNION {ReportedHops(f) : f \in asked}] :
          /\ \A f \in asked : responseMap[f] \in ReportedHops(f)
          /\ reply' = [reply EXCEPT ![q] =
                IF \A k \in DOMAIN batch : responseMap[batch[k].flow] = batch[k].hop
                THEN "yes" ELSE "no"]
  BY DEF GetSteerInterface
<1>2. /\ pc[q] = "idle" /\ UNCHANGED running
      /\ call' = [call EXCEPT ![q] = [op |-> "verify", items |-> batch]]
  BY DEF GetSteerInterface, device
<1>3. ~ Table!Running(q)
  BY <1>2, TableRunning
<1>4. \A k \in DOMAIN batch : batch[k].flow \in Flows /\ batch[k].hop \in Hops \cup {NoHop}
  <2>1. batch \in Seq(Item)
    BY InputAssumption
  <2>2. \A k \in DOMAIN batch : batch[k] \in Item
    BY <2>1
  <2> QED
    BY <2>2 DEF Item
<1>5. ASSUME NEW k \in DOMAIN batch, responseMap[batch[k].flow] = batch[k].hop
      PROVE  holds(k)
  <2>1. batch[k].hop \in ReportedHops(batch[k].flow) /\ batch[k].hop # "absent"
    BY <1>1, <1>4, <1>5, MarkAssumption
  <2>2. IsKnownHop(batch[k].hop) /\ Effective(running, batch[k].flow) = HopAddr(batch[k].hop)
    BY <1>2, <1>4, <1>5, <2>1, ReportedHop
  <2> QED
    BY <1>4, <1>5, <2>2, TargetIsHopAddr
<1>6. ASSUME NEW k \in DOMAIN batch, responseMap[batch[k].flow] # batch[k].hop
      PROVE  ~ holds(k) \/ batch[k].hop = NoHop
  <2>1. ASSUME holds(k), batch[k].hop # NoHop PROVE FALSE
    <3>1. IsKnownHop(batch[k].hop) /\ Effective(running, batch[k].flow) = HopAddr(batch[k].hop)
      BY <1>4, <1>6, <2>1, TargetIsHopAddr
    <3>2. batch[k].hop \in WanHops /\ HopAddr(batch[k].hop) = AddrOf[batch[k].hop]
      BY <2>1, <3>1 DEF IsKnownHop, HopAddr
    <3>3. responseMap[batch[k].flow] \in ReportedHops(batch[k].flow)
      BY <1>1, <1>6
    <3>4. responseMap[batch[k].flow] = batch[k].hop
      BY <1>2, <1>4, <1>6, <3>1, <3>2, <3>3, ReportedHop
    <3> QED
      BY <1>6, <3>4
  <2> QED
    BY <2>1
<1>7. \/ reply' = [reply EXCEPT ![q] = "yes"] /\ \A k \in DOMAIN batch : holds(k)
      \/ /\ reply' = [reply EXCEPT ![q] = "no"]
         /\ \E k \in DOMAIN batch : ~ holds(k) \/ batch[k].hop = NoHop
  <2>1. CASE \A k \in DOMAIN batch : responseMap[batch[k].flow] = batch[k].hop
    BY <1>1, <1>5, <2>1
  <2>2. CASE \E k \in DOMAIN batch : responseMap[batch[k].flow] # batch[k].hop
    BY <1>1, <1>6, <2>2
  <2> QED
    BY <2>1, <2>2
<1>8. UNCHANGED table
  BY <1>2
<1> QED
  BY <1>2, <1>3, <1>7, <1>8 DEF Table!Verify, Table!Ask, Table!Answer

LEMMA StopLeaves ==
    ASSUME NEW q, Solo(q), TypeOK, SoloInv(q), Stop(q) PROVE Table!Leave(q)
<1>1. pc[q] = "idle" /\ UNCHANGED running
  BY DEF Stop, Solo, device
<1>2. call' = [call EXCEPT ![q] = Table!NoOp] /\ reply' = [reply EXCEPT ![q] = "none"]
  BY DEF Stop, Exit, NoCall, Table!NoOp
<1>3. ~ Table!Running(q)
  BY <1>1, TableRunning
<1>4. UNCHANGED [f \in Flows |-> Effective(running, f)]
  BY <1>1
<1> QED
  BY <1>2, <1>3, <1>4 DEF Table!Leave, Table!Ask, Table!Answer

\* The steps between the RPCs of an operation show in nothing.
LEMMA TableStutters ==
    ASSUME NEW q, Solo(q), TypeOK, SoloInv(q),
           \/ FlushDelete(q) \/ FlushDefault(q) \/ SteerItem(q)
           \/ SteerEdit(q) \/ RemoveEdit(q) \/ UNCHANGED vars
    PROVE  UNCHANGED Table!tvars
<1>1. q \in Procs /\ session[q] = "up"
  BY SoloState DEF SoloInv
<1>2. UNCHANGED <<running, call, reply>>
  <2>1. CASE SteerEdit(q)
    BY <1>1, <2>1, SoloQuiet, ContinuePc DEF SteerEdit, EditFails
  <2>2. CASE RemoveEdit(q)
    <3>1. dels[q] \subseteq DOMAIN candidate
      BY <2>2, SoloDels DEF RemoveEdit, SoloInv, ServingInv
    <3> QED
      BY <1>1, <2>2, <3>1, SoloQuiet, ContinuePc DEF RemoveEdit, DeleteFails
  <2>3. CASE FlushDelete(q) \/ FlushDefault(q)
    BY <2>3, ContinuePc DEF FlushDelete, FlushDefault, Continue
  <2>4. CASE SteerItem(q) \/ UNCHANGED vars
    BY <2>4 DEF SteerItem, device, vars
  <2> QED
    BY <2>1, <2>2, <2>3, <2>4
<1>3. UNCHANGED [f \in Flows |-> Effective(running, f)]
  BY <1>2
<1> QED
  BY <1>2, <1>3 DEF Table!tvars

LEMMA TableStep ==
    ASSUME NEW q, Solo(q), TypeOK, SoloInv(q), DistinctAddrs, [Next]_vars
    PROVE  [Table!TableNext]_(Table!tvars)
<1>1. CASE Step(q)
  <2>1. q \in Procs
    BY SoloState
  <2>2. ~ LoadPanics(q) /\ ~ GetSteerInterfacePanics(q)
    BY SoloQuiet DEF SoloInv
  <2>3. \/ Table!Begin(q) \/ Table!Clear(q) \/ Table!Opened(q) \/ Table!Steered(q)
        \/ Table!Refused(q) \/ Table!Removed(q) \/ Table!NothingToRemove(q)
        \/ Table!Verify(q) \/ Table!Leave(q) \/ UNCHANGED Table!tvars
    BY <1>1, <2>2, StartBegins, FlushClears, LoadOpens, SteerBegins, UnknownHopRefused,
       SteerNothingSteers, SteerCommitSteers, RemoveSteerMaps, RemoveCommitRemoves,
       VerifyMaps, StopLeaves, TableStutters DEF Step
  <2> QED
    BY <2>1, <2>3 DEF Table!TableNext
<1>2. CASE UNCHANGED vars
  BY <1>2, TableStutters
<1> QED
  BY <1>1, <1>2 DEF Next, Solo

\* A single process whose RPCs succeed, that flushes at start and whose WAN interfaces have
\* different next hops implements the table, for every set of flows, hops and batches and any
\* router contents: every operation takes effect at once, when its commit is accepted, on
\* the flows it names only, and GetSteerInterface reports what the router does.
THEOREM SteeringIsATable ==
    ASSUME NEW q, Solo(q), DistinctAddrs
    PROVE  Spec => ImplementsTable
<1>1. Init => Table!TableInit
  BY TableInitHolds
<1>2. TypeOK /\ SoloInv(q) /\ [Next]_vars => [Table!TableNext]_(Table!tvars)
  BY TableStep
<1> QED
  BY <1>1, <1>2, SoloAlways, PTL DEF Spec, ImplementsTable, Table!TableSpec
=============================================================================
