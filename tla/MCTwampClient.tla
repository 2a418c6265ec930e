----------------------------- MODULE MCTwampClient -----------------------------
(* Small instances of TwampClient for TLC. *)
EXTENDS TwampClient
================================================================================
