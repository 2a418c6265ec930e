---------------------------- MODULE MCAclSteering ----------------------------
(* Small instances of AclSteering for TLC. *)
EXTENDS AclSteering, TLC

CONSTANTS p1, p2, f1, f2, h1, h2, hx, a1, a2

TwoHops   == {h1, h2, hx}                  \* hx is not a WAN interface
KnownHops == {h1, h2}
Addresses == h1 :> a1 @@ h2 :> a2 @@ hx :> a2

Steered(f, h) == [flow |-> f, hop |-> h]
RuleFor(f, a) == [flow |-> f, addr |-> a]

\* One flow at a time, both at once, a batch that fails half way, a flow that is
\* steered to no next hop, nothing at all.
AllBatches  == {<<>>, <<Steered(f1, h1)>>, <<Steered(f1, NoHop)>>, <<Steered(f2, h2)>>,
                <<Steered(f2, h1), Steered(f1, h2)>>, <<Steered(f1, h2), Steered(f2, hx)>>}
FewBatches  == {<<>>, <<Steered(f1, h1)>>, <<Steered(f1, h2)>>,
                <<Steered(f2, h2), Steered(f1, h1)>>, <<Steered(f1, h2), Steered(f2, hx)>>}
OneEach     == {<<Steered(f1, h1)>>, <<Steered(f2, h2)>>, <<>>}
SameFlow    == {<<Steered(f1, h1)>>, <<Steered(f1, h2)>>}
AllRemovals == {{f1}, {f1, f2}}
OneRemoval  == {{f1}}

OnlyDefault == 94 :> DefaultRule
Loaded      == 10 :> RuleFor(f2, a1) @@ 30 :> RuleFor(f1, a2) @@ 94 :> DefaultRule
Partial     == 20 :> RuleFor(f2, a1) @@ 94 :> DefaultRule
FlushedOnly == {OnlyDefault}
LoadedOnly  == {Loaded}
AnyConfig   == {NoRules, OnlyDefault, Partial}
NeverFlush  == {FALSE}
AlwaysFlush == {TRUE}
=============================================================================
