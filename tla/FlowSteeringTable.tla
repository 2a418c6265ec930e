--------------------------- MODULE FlowSteeringTable ---------------------------
(***************************************************************************)
(* What steering promises its callers: a table from flows to next-hop      *)
(* addresses (the comment at pkg/hal/mock.go:29 calls it                   *)
(* "FlowSteeringTable map[Ipv4FlowKey]Ipv4Addr").  Steer sets the entries  *)
(* of the batch all at once or none of them, RemoveSteer clears the named  *)
(* entries, GetSteerInterface says whether the table has the entries asked *)
(* about, and opening the library may clear the table.  Rule ids, caches,  *)
(* candidate configurations and commits do not appear.                     *)
(***************************************************************************)
EXTENDS Naturals, Sequences

CONSTANTS Procs, Flows, WanHops, NoHop, AddrOf, NoAddr, Batches, RemoveSets

VARIABLES table, call, reply

tvars == <<table, call, reply>>

NoOp == [op |-> "none"]

\* What the router does with a flow nobody steers: route it, or drop it while
\* the access list has no default rule.
Unsteered == {NoAddr, "unmatched"}

Resolvable(item) == item.hop \in WanHops \cup {NoHop}
Target(item)     == IF item.hop = NoHop THEN NoAddr ELSE AddrOf[item.hop]

Running(p) == call[p] # NoOp /\ reply[p] = "none"

Answer(p, r) == reply' = [reply EXCEPT ![p] = r]
Ask(p, c)    == call' = [call EXCEPT ![p] = c]

TableInit ==
    /\ table \in [Flows -> {AddrOf[h] : h \in DOMAIN AddrOf} \cup Unsteered]
    /\ call = [p \in Procs |-> NoOp]
    /\ reply = [p \in Procs |-> "none"]

Requests == [op : {"init"}, flush : BOOLEAN]
    \cup [op : {"steer"}, items : Batches]
    \cup [op : {"remove"}, flows : RemoveSets]

Begin(p) ==
    /\ ~Running(p)
    /\ \E c \in Requests : Ask(p, c)
    /\ Answer(p, "none")
    /\ UNCHANGED table

\* Opening the library: the table is cleared if a flush was asked for.
Clear(p) ==
    /\ Running(p) /\ call[p].op = "init" /\ call[p].flush
    /\ table' \in [Flows -> Unsteered]
    /\ UNCHANGED <<call, reply>>

Opened(p) ==
    /\ Running(p) /\ call[p].op = "init"
    /\ call[p].flush => table \in [Flows -> Unsteered]
    /\ Answer(p, "nil")
    /\ UNCHANGED <<table, call>>

Steered(p) ==
    /\ Running(p) /\ call[p].op = "steer"
    /\ LET items == call[p].items
           For(f) == {k \in DOMAIN items : items[k].flow = f}
       IN  /\ \A k \in DOMAIN items : Resolvable(items[k])
           /\ \E pick \in [Flows -> DOMAIN items \cup {0}] :
                 /\ \A f \in Flows : pick[f] \in IF For(f) = {} THEN {0} ELSE For(f)
                 /\ table' = [f \in Flows |-> IF For(f) = {} THEN table[f]
                                              ELSE Target(items[pick[f]])]
    /\ Answer(p, "nil")
    /\ UNCHANGED call

\* A batch that names an unknown next hop changes nothing.
Refused(p) ==
    /\ Running(p) /\ call[p].op = "steer"
    /\ \E k \in DOMAIN call[p].items : ~Resolvable(call[p].items[k])
    /\ Answer(p, "error")
    /\ UNCHANGED <<table, call>>

Removed(p) ==
    /\ Running(p) /\ call[p].op = "remove"
    /\ \E left \in [Flows -> Unsteered] :
          table' = [f \in Flows |-> IF f \in call[p].flows THEN left[f] ELSE table[f]]
    /\ Answer(p, "nil")
    /\ UNCHANGED call

NothingToRemove(p) ==
    /\ ~Running(p)
    /\ \E fs \in RemoveSets :
          /\ \A f \in fs : table[f] \in Unsteered
          /\ Ask(p, [op |-> "remove", flows |-> fs])
    /\ Answer(p, "nil")
    /\ UNCHANGED table

\* The answer is exact except for an item without a next hop, for which a flow
\* that has no rule at all is not reported as steered.
Verify(p) ==
    /\ ~Running(p)
    /\ \E items \in Batches :
          LET holds(k) == Resolvable(items[k]) /\ table[items[k].flow] = Target(items[k])
          IN  /\ Ask(p, [op |-> "verify", items |-> items])
              /\ \/ Answer(p, "yes") /\ \A k \in DOMAIN items : holds(k)
                 \/ Answer(p, "no")  /\ \E k \in DOMAIN items :
                                            ~holds(k) \/ items[k].hop = NoHop
    /\ UNCHANGED table

Leave(p) ==
    /\ ~Running(p)
    /\ Ask(p, NoOp) /\ Answer(p, "none")
    /\ UNCHANGED table

TableNext ==
    \E p \in Procs : \/ Begin(p) \/ Clear(p) \/ Opened(p) \/ Steered(p) \/ Refused(p)
                     \/ Removed(p) \/ NothingToRemove(p) \/ Verify(p) \/ Leave(p)

TableSpec == TableInit /\ [][TableNext]_tvars
=============================================================================
