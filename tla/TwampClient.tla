------------------------------ MODULE TwampClient ------------------------------
(***************************************************************************)
(* A TWAMP client as monitorInterfaces (pkg/hal/hal.go 630-691) and        *)
(* cmd/twamp run it: a control connection (TwampControl), and tests over   *)
(* the socket that it leads to (TwampTest), from the time the session is   *)
(* ready until it is stopped.                                              *)
(***************************************************************************)
EXTENDS TwampControl, TwampTest

twampVars == <<controlVars, testVars>>

TwampInit == ControlInit /\ TestInit

Handshake ==
    /\ ControlNext
    /\ step' = "stopped" => waiting = None /\ sent = 0
    /\ UNCHANGED testVars

Test ==
    /\ step = "ready"
    /\ TestNext
    /\ UNCHANGED controlVars

TwampNext == Handshake \/ Test

TwampSpec == TwampInit /\ [][TwampNext]_twampVars

\* What is due to happen: the server answers, the client reads and goes on with its test,
\* and the network delivers what it does not lose.
ServerAnswers == ServerStep /\ UNCHANGED testVars
ClientReads   == ClientStep /\ UNCHANGED testVars
RunGoesOn     == step = "ready" /\ RunStep /\ UNCHANGED controlVars
ReflectorGets(m) == step = "ready" /\ Reflect(m) /\ UNCHANGED controlVars
ClientGets ==
    step = "ready" /\ (\E r \in BagToSet(replies) : Deliver(r)) /\ UNCHANGED controlVars

\* The goroutine of the client goes on when it can.  Server and network are external, and
\* that they do their part is assumed.
TwampFairness ==
    /\ WF_twampVars(ServerAnswers)
    /\ WF_twampVars(ClientReads)
    /\ WF_twampVars(RunGoesOn)
    /\ \A m \in Seqs : WF_twampVars(ReflectorGets(m))
    /\ WF_twampVars(ClientGets)

FairTwampSpec == TwampSpec /\ TwampFairness

\* Type invariant.
TwampTypeOK == ControlTypeOK /\ TestTypeOK

================================================================================
