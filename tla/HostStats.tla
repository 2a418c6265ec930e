------------------------------- MODULE HostStats -------------------------------
(***************************************************************************)
(* The statistics client (cmd/stats/main.go): for one host, the goroutine  *)
(* Update asks the host's StatsServer (pkg/hal/stats_server.go) once a     *)
(* second for its interfaces and for the size of its ACL cache, and shifts *)
(* what it got into series that the goroutine main draws, without a lock.  *)
(*                                                                         *)
(* A rate is abstracted to the round in which it was read, 0 stands for    *)
(* "nothing was read".  A name stands for either of its two series, rx and *)
(* tx.  gRPC is external: a stream delivers what was sent or fails; a      *)
(* stream that has failed delivers at most what it had buffered, and then  *)
(* fails every Recv.                                                       *)
(***************************************************************************)
EXTENDS Naturals

CONSTANTS
    Tracked,      \* names of interfaces the client shows
    Untracked,    \* names of other interfaces of the host
    Acl,          \* the series of the ACL cache sizes
    InitialKind,  \* the host's interfaces at the start: "lan", "wan" or "none"
    StatsLen,     \* STATS_LEN
    MaxRounds,    \* bound: rounds of Update
    MaxChanges    \* bound: changes of the host's interfaces

HostNames == Tracked \cup Untracked
Series    == Tracked \cup {Acl}
Columns   == 1..StatsLen
IfcKinds  == {"lan", "wan", "none"}

ASSUME StatsAssumption ==
    /\ Acl \notin Tracked
    /\ InitialKind \in [HostNames -> IfcKinds]
    /\ StatsLen \in Nat \ {0} /\ MaxRounds \in Nat /\ MaxChanges \in Nat

VARIABLES
    kind,     \* the host: which of its lists has the name
    serving,  \* the list GetInterfaces of the server copies next, or "done"
    stream,   \* the stream as the client sees it: "none", "open", "failed"
    coming,   \* names sent and not yet received
    phase,    \* where Update is
    conn,     \* h.conn: "none" (nil), "open", "closed"
    opened,   \* connections that were dialled and not closed
    sample,   \* s of Update: for each series the value of this round
    series,   \* h.ifc and h.acl
    shifted,  \* elements of each series that shift has written in this round
    round,    \* rounds that Update has begun
    screen,   \* where main is
    steady,   \* history: names registered ever since the request was made
    changes

hostVars   == <<kind, serving, changes>>
statsVars  == <<kind, serving, stream, coming, phase, conn, opened, sample, series,
                shifted, round, screen, steady, changes>>

Alive == screen \notin {"exited", "panicked"}

StatsInit ==
    /\ kind = InitialKind /\ serving = "done" /\ changes = 0
    /\ stream = "none" /\ coming = {} /\ steady = {}
    /\ phase = "sleep" /\ conn = "none" /\ opened = 0
    /\ sample = [s \in Series |-> 0]
    /\ series = [s \in Series |-> [i \in Columns |-> 0]]
    /\ shifted = [s \in Series |-> StatsLen]
    /\ round = 0
    /\ screen = "draw"

--------------------------------------------------------------------------------
(* The host.                                                               *)

\* An interface is added to one of the lists, or removed.
ChangeHost(n, k) ==
    /\ changes < MaxChanges /\ changes' = changes + 1
    /\ (kind[n] = "none") # (k = "none")
    /\ kind' = [kind EXCEPT ![n] = k]
    /\ steady' = steady \ {n}
    /\ UNCHANGED <<serving, stream, coming, phase, conn, opened, sample, series, shifted,
                   round, screen>>

InList(k) == {n \in HostNames : kind[n] = k}

\* GetInterfaces copies each list under a lock of its own and sends it.
CopyList(k, next) ==
    /\ serving = k /\ serving' = next
    /\ coming' = IF stream = "open" THEN coming \cup InList(k) ELSE coming
    /\ UNCHANGED <<kind, changes, stream, phase, conn, opened, sample, series, shifted,
                   round, screen, steady>>

ServeLan == CopyList("lan", "wan")

\* Mutant of ServeWan: the LAN interfaces are sent twice.
ServeWanAgain ==
    /\ serving = "wan" /\ serving' = "done"
    /\ coming' = IF stream = "open" THEN coming \cup InList("lan") ELSE coming
    /\ UNCHANGED <<kind, changes, stream, phase, conn, opened, sample, series, shifted,
                   round, screen, steady>>

ServeWan == CopyList("wan", "done")

HostStep == ServeLan \/ ServeWan \/ \E n \in HostNames, k \in IfcKinds : ChangeHost(n, k)

--------------------------------------------------------------------------------
(* The stream.                                                             *)

\* Mutant of Deadline: the request is made without a timeout.
DeadlineNever == FALSE

\* The context of the request has a timeout of one second.
Deadline == stream = "open"

\* The deadline passes, the context is cancelled or the transport breaks; what was not
\* buffered is lost.
Fail ==
    /\ Alive /\ Deadline
    /\ stream' = "failed" /\ coming' \in SUBSET coming
    /\ UNCHANGED <<hostVars, phase, conn, opened, sample, series, shifted, round, screen,
                   steady>>

--------------------------------------------------------------------------------
(* Update.                                                                 *)

clientData == <<series, shifted, round, screen>>

\* Mutant of NewSample: the sample is made once, in front of the loop.
NewSampleKept == sample

\* NewHostStatSample: what is not read in this round is drawn as zero.
NewSample == [s \in Series |-> 0]

NewRound ==
    /\ Alive /\ phase = "sleep" /\ round < MaxRounds
    /\ round' = round + 1
    /\ sample' = NewSample
    /\ shifted' = [s \in Series |-> 0]
    /\ phase' = "connect"
    /\ UNCHANGED <<hostVars, stream, coming, conn, opened, series, screen, steady>>

\* Connect: a dial that fails is logged and leaves the connection nil.
Connect ==
    /\ Alive /\ phase = "connect"
    /\ \/ conn # "none" /\ phase' = "request" /\ UNCHANGED <<conn, opened>>
       \/ conn = "none" /\ phase' = "request" /\ conn' = "open" /\ opened' = opened + 1
       \/ conn = "none" /\ phase' = "shift" /\ UNCHANGED <<conn, opened>>
    /\ UNCHANGED <<hostVars, stream, coming, sample, clientData, steady>>

\* Mutant of Disconnect: the connection is forgotten without being closed.
DisconnectUnclosed ==
    /\ conn' = "none"
    /\ UNCHANGED opened

Disconnect ==
    /\ conn' = "none"
    /\ opened' = IF conn = "open" THEN opened - 1 ELSE opened

RpcStarts == conn = "open" /\ screen = "draw"

\* The call of GetInterfaces.
Request ==
    /\ Alive /\ phase = "request"
    /\ \/ /\ RpcStarts
          /\ stream' = "open" /\ serving' = "lan" /\ coming' = {}
          /\ steady' = {n \in Tracked : kind[n] # "none"}
          /\ phase' = "recv"
          /\ UNCHANGED <<conn, opened>>
       \/ /\ Disconnect
          /\ phase' = "shift"
          /\ UNCHANGED <<stream, serving, coming, steady>>
    /\ UNCHANGED <<kind, changes, sample, clientData>>

\* A name the client does not show is skipped.
Recv(n) ==
    /\ Alive /\ phase = "recv"
    /\ n \in coming
    /\ coming' = coming \ {n}
    /\ sample' = IF n \in Tracked THEN [sample EXCEPT ![n] = round] ELSE sample
    /\ UNCHANGED <<hostVars, stream, phase, conn, opened, clientData, steady>>

\* Mutant of AtEof: the loop ends with any error.
AtAnyError == stream = "failed" \/ (stream = "open" /\ serving = "done" /\ coming = {})

\* Recv returns io.EOF.  With any other error ifc is nil and the loop goes on.
AtEof == stream = "open" /\ serving = "done" /\ coming = {}

RecvEof ==
    /\ Alive /\ phase = "recv" /\ AtEof
    /\ stream' = "none"
    /\ phase' = "acl"
    /\ UNCHANGED <<hostVars, coming, conn, opened, sample, clientData, steady>>

GetAclCacheSize ==
    /\ Alive /\ phase = "acl" /\ phase' = "shift"
    /\ \/ /\ RpcStarts
          /\ sample' = [sample EXCEPT ![Acl] = round]
          /\ UNCHANGED <<conn, opened>>
       \/ Disconnect /\ UNCHANGED sample
    /\ UNCHANGED <<hostVars, stream, coming, clientData, steady>>

\* The element that shift writes next.
NextElement(s) == shifted[s] + 1

\* One assignment of shift.  The series of the interfaces come in the order a Go map
\* yields them, the one of the cache sizes comes last.
Shift(s) ==
    /\ Alive /\ phase = "shift" /\ shifted[s] < StatsLen
    /\ \A t \in Tracked \ {s} : shifted[t] \in IF s = Acl THEN {StatsLen} ELSE {0, StatsLen}
    /\ LET i == NextElement(s)
           e == IF i < StatsLen THEN series[s][i + 1] ELSE sample[s]
       IN  series' = [series EXCEPT ![s][i] = e]
    /\ shifted' = [shifted EXCEPT ![s] = @ + 1]
    /\ phase' = IF s = Acl /\ shifted'[s] = StatsLen THEN "sleep" ELSE "shift"
    /\ UNCHANGED <<hostVars, stream, coming, conn, opened, sample, round, screen, steady>>

UpdateStep ==
    \/ NewRound \/ Connect \/ Request \/ (\E n \in HostNames : Recv(n)) \/ RecvEof
    \/ GetAclCacheSize \/ (\E s \in Series : Shift(s))

--------------------------------------------------------------------------------
(* main, when the user quits.                                              *)

\* The deferred cancel: later calls are refused, and an open stream fails in time.
Cancel ==
    /\ screen = "draw" /\ screen' = "cancelled"
    /\ UNCHANGED <<hostVars, stream, coming, phase, conn, opened, sample, series, shifted,
                   round, steady>>

\* Close looks at the connection,
CloseLook ==
    /\ screen = "cancelled"
    /\ screen' = IF conn = "none" THEN "exited" ELSE "close"
    /\ UNCHANGED <<hostVars, stream, coming, phase, conn, opened, sample, series, shifted,
                   round, steady>>

\* and then closes it, if Update has not set it to nil meanwhile.
CloseConn ==
    /\ screen = "close"
    /\ \/ /\ conn = "none" /\ screen' = "panicked"
          /\ UNCHANGED <<conn, opened>>
       \/ /\ conn = "open" /\ conn' = "closed" /\ opened' = opened - 1
          /\ screen' = "closed"
    /\ UNCHANGED <<hostVars, stream, coming, phase, sample, series, shifted, round, steady>>

\* main returns.
Leave ==
    /\ screen = "closed" /\ screen' = "exited"
    /\ UNCHANGED <<hostVars, stream, coming, phase, conn, opened, sample, series, shifted,
                   round, steady>>

ScreenStep == Cancel \/ CloseLook \/ CloseConn \/ Leave

--------------------------------------------------------------------------------
(* Specification                                                           *)

StatsNext == HostStep \/ Fail \/ UpdateStep \/ ScreenStep

StatsSpec == StatsInit /\ [][StatsNext]_statsVars

--------------------------------------------------------------------------------
(* Properties                                                              *)

Phases == {"sleep", "connect", "request", "recv", "acl", "shift"}

\* A connection is either the one in h.conn or closed.
NoneLeaked == opened = IF conn = "open" THEN 1 ELSE 0

\* Types.
StatsTypeOK ==
    /\ kind \in [HostNames -> IfcKinds] /\ serving \in {"lan", "wan", "done"}
    /\ stream \in {"none", "open", "failed"} /\ coming \subseteq HostNames
    /\ phase \in Phases /\ conn \in {"none", "open", "closed"}
    /\ NoneLeaked
    /\ sample \in [Series -> Nat]
    /\ series \in [Series -> [Columns -> Nat]]
    /\ shifted \in [Series -> 0..StatsLen]
    /\ round \in 0..MaxRounds /\ changes \in 0..MaxChanges
    /\ screen \in {"draw", "cancelled", "close", "closed", "exited", "panicked"}
    /\ steady \subseteq Tracked

\* The round of column i, when the newest column is of round r.
RoundOf(i, r) == IF r + i > StatsLen THEN r + i - StatsLen ELSE 0

\* Every column holds values of one and the same round, or zero for what was not read then.
AlignedAtRest ==
    phase # "shift" =>
        LET newest == IF phase = "sleep" THEN round ELSE round - 1
        IN  \A s \in Series, i \in Columns : series[s][i] \in {0, RoundOf(i, newest)}

InStep ==
    \A s, t \in Series, i \in Columns :
        series[s][i] # 0 /\ series[t][i] # 0 => series[s][i] <= series[t][i] + 1

\* Failed rounds leave gaps in the graphs and never push one series against another, no
\* value is shown for a later round, and what main draws in the middle of a shift is off
\* by one round at most (stats/main.go 106-157).
Aligned == AlignedAtRest /\ InStep

\* A stream that ends regularly brought a value for every shown interface that the host
\* had all the time, although the server copies its two lists one after the other.
SteadySampled ==
    [][phase = "recv" /\ phase' = "acl" => \A n \in steady : sample[n] = round]_statsVars

UpdateHasConn == phase \in {"request", "recv", "acl"} => conn # "none"

\* Update uses the connection some steps after it looked at it, while main closes it: it
\* finds one all the same, and none is ever forgotten without being closed.
OneConnection == UpdateHasConn /\ NoneLeaked

\* The stream has failed, and Update calls Recv again and again.
Spinning == phase = "recv" /\ stream = "failed" /\ Alive

\* Only the end of the program ends that, not even the cancellation of the context.
SpinsForever == [][Spinning => Spinning' \/ ~ Alive']_statsVars

\* Every round ends, whatever the host does, or it runs into that loop.
RoundEnds == phase # "sleep" ~> (phase = "sleep" \/ Spinning \/ ~ Alive)

================================================================================
