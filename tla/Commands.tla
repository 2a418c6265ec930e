-------------------------------- MODULE Commands --------------------------------
(***************************************************************************)
(* The programs of cmd/ around the library: one behaviour is some runs of  *)
(* "hal-client steer" (or of another program that steers) over one router, *)
(* or one run of "hal-client batch", of the statistics client, or of       *)
(* cmd/twamp.  They share no state; each is the module of its component.   *)
(***************************************************************************)
EXTENDS AclSteering, HostStats, BatchAccumulate, TwampClient

CONSTANT Programs   \* the programs that may be run

ASSUME CommandsAssumption == Programs \subseteq {"steer", "batch", "stats", "twamp"}

VARIABLE program

commandsVars == <<program, vars, statsVars, batchVars, twampVars>>

CommandsInit ==
    /\ program \in Programs
    /\ Init /\ StatsInit /\ BatchInit /\ TwampInit
    \* What a program that is not run would start from is immaterial, and fixed.
    /\ program # "steer" => running = CHOOSE c \in InitialConfigs : TRUE
    /\ program # "twamp" => ~ numbers

Steering  == /\ program = "steer" /\ Next
             /\ UNCHANGED <<program, statsVars, batchVars, twampVars>>
Batching  == /\ program = "batch" /\ BatchNext
             /\ UNCHANGED <<program, vars, statsVars, twampVars>>
Drawing   == /\ program = "stats" /\ StatsNext
             /\ UNCHANGED <<program, vars, batchVars, twampVars>>
Measuring == /\ program = "twamp" /\ TwampNext
             /\ UNCHANGED <<program, vars, statsVars, batchVars>>

CommandsNext == Steering \/ Batching \/ Drawing \/ Measuring

CommandsSpec == CommandsInit /\ [][CommandsNext]_commandsVars

\* The goroutine Update goes on when it can, and a deadline passes.  Nothing is assumed of
\* the host.
Draws(A) == program = "stats" /\ A /\ UNCHANGED <<program, vars, batchVars, twampVars>>

StatsFairness ==
    /\ WF_commandsVars(Draws(UpdateStep))
    /\ WF_commandsVars(Draws(Fail))

\* TwampFairness, of the program that measures.
Measures(A) == program = "twamp" /\ A /\ UNCHANGED <<program, vars, statsVars, batchVars>>

MeasuringFairness ==
    /\ WF_commandsVars(Measures(ServerAnswers))
    /\ WF_commandsVars(Measures(ClientReads))
    /\ WF_commandsVars(Measures(RunGoesOn))
    /\ \A m \in Seqs : WF_commandsVars(Measures(ReflectorGets(m)))
    /\ WF_commandsVars(Measures(ClientGets))

FairCommandsSpec == CommandsSpec /\ StatsFairness /\ MeasuringFairness

================================================================================
