-------------------------- MODULE MCInterfaceMonitor --------------------------
(* Small instances of InterfaceMonitor for TLC. *)
EXTENDS InterfaceMonitor, TLC

CONSTANTS lan0, wan1, port1, port2, port3, i1, i2, hop1, peer1, peer2

LanIfc(u, l)    == [upper |-> u, lower |-> l, hop |-> ZeroHop, peer |-> NoPeer]
WanIfc(u, l, p) == [upper |-> u, lower |-> l, hop |-> hop1, peer |-> p]

PortIndexes == port1 :> i1 @@ port2 :> i2 @@ port3 :> NoIndex

\* A LAN interface, and a WAN interface that may come back on another port, measured
\* against another reflector.
Moving  == {LanIfc(lan0, port1), WanIfc(wan1, port2, peer1), WanIfc(wan1, port3, peer2)}
\* A name that may come back as the other kind, and another one on the same port.
Sharing == {LanIfc(lan0, port1), WanIfc(lan0, port1, peer1), LanIfc(wan1, port1)}
OnlyLan == {LanIfc(lan0, port1)}
OnlyWan == {WanIfc(wan1, port2, peer1)}

StatsOnly == {<<"stats">>}
Both      == {<<"speed", "stats">>}
===============================================================================
