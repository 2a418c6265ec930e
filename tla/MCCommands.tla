------------------------------ MODULE MCCommands ------------------------------
(* Small instances of Commands for TLC. *)
EXTENDS MCAclSteering, Commands

CONSTANTS lan0, wan0, other0, size, k1, k2

\* One interface in each list, and one that the client does not show.
HostAtStart == lan0 :> "lan" @@ wan0 :> "wan" @@ other0 :> "none"
===============================================================================
