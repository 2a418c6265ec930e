---------------------------- MODULE MCTunnelConfig ----------------------------
(* Small instances of TunnelConfig for TLC. *)
EXTENDS TunnelConfig, TLC

CONSTANTS p1, p2, r, s, v, x, i1, i2

\* r has its interface to itself, s and v share one, x has a type that is not supported.
KindsOf      == r :> "rsvp" @@ s :> "rsvp" @@ v :> "vxlan" @@ x :> "other"
InterfacesOf == r :> i1 @@ s :> i2 @@ v :> i2 @@ x :> i2

\* The router starts with the tunnel r.
OnlyR == [tunnels |-> {r}, enabled |-> {}, si |-> {i1}, monitored |-> {i1}]
===============================================================================
