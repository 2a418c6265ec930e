--------------------------- MODULE MCFlowAggregation ---------------------------
(* A small instance of FlowAggregation for TLC. *)
EXTENDS FlowAggregation, TLC

CONSTANTS lan0, wan1, port1, port2, i1, i2, hop1, peer1, f1, f2

PortIndexes == port1 :> i1 @@ port2 :> i2

\* A LAN interface, and a WAN interface that may be on either port.
Moving == {[upper |-> lan0, lower |-> port1, hop |-> ZeroHop, peer |-> NoPeer],
           [upper |-> wan1, lower |-> port2, hop |-> hop1, peer |-> peer1]}

Sent(f, in, out, n) == [key |-> f, inIf |-> in, outIf |-> out, bytes |-> n]

\* Two flows in one update, and one of them again later; 0 is no index of a port.
SomeUpdates == {<<Sent(f1, i1, i2, 3), Sent(f2, i2, 0, 1)>>, <<Sent(f1, i1, i2, 1)>>}
================================================================================
