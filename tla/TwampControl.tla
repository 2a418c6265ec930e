------------------------------ MODULE TwampControl ------------------------------
(***************************************************************************)
(* The TWAMP control connection (pkg/twamp/client.go, connection.go,       *)
(* session.go): Connect, CreateSession and CreateTest, one after the other *)
(* as monitorInterfaces and cmd/twamp call them, over a TCP stream, and    *)
(* the server at its other end, which is external.                         *)
(*                                                                         *)
(* readFromSocket calls Read once.  A stream may hand a message out in     *)
(* pieces, and what a piece leaves out stays zero in the buffer and is the *)
(* start of the next read.  A message is a sequence of cells, of which one *)
(* is the field that the client looks at; the lengths and places are those *)
(* of the code, rounded to cells.                                          *)
(***************************************************************************)
EXTENDS Naturals, Sequences

CONSTANTS
    Modes,     \* what a greeting may hold in its Mode field
    Codes,     \* what an answer may hold in its Accept field
    Other,     \* any other cell; read in place of a field, it may have any value
    MaySplit   \* may Read return less than was asked for?

ASSUME ControlAssumption ==
    /\ Modes \subseteq Nat /\ Codes \subseteq Nat /\ Other \notin Nat
    /\ MaySplit \in BOOLEAN

VARIABLES
    step,      \* where the client is
    incoming,  \* cells on their way to it
    requests,  \* messages on their way to the server
    server,    \* the message the server waits for
    eof,       \* has the server closed the connection?
    answered,  \* what the server put into the field of each of its messages
    short      \* did a read return less than was asked for?

controlVars == <<step, incoming, requests, server, eof, answered, short>>

Replies == {"greeting", "start", "session", "ack"}

\* Cells of each message, and the place of its field; connection.go 80-91 and 113-122
\* skip the cell in front of Mode and of the first Accept.
Size    == [greeting |-> 3, start |-> 3, session |-> 2, ack |-> 2]
FieldAt == [greeting |-> 2, start |-> 2, session |-> 1, ack |-> 1]

ControlInit ==
    /\ step = "dial"
    /\ incoming = <<>> /\ requests = <<>>
    /\ server = "dial" /\ eof = FALSE
    /\ answered = [r \in {} |-> 0]
    /\ short = FALSE

--------------------------------------------------------------------------------
(* The server.                                                             *)

\* What the server says when it gets a message, and what it waits for next.
AnswerTo == [dial |-> "greeting", setup |-> "start", request |-> "session",
             startSessions |-> "ack"]
NextTo   == [dial |-> "setup", setup |-> "request", request |-> "startSessions",
             startSessions |-> "stop"]

CellsOf(r, field) == [i \in 1..Size[r] |-> IF i = FieldAt[r] THEN field ELSE Other]

ServerSends(r, field) ==
    /\ incoming' = incoming \o CellsOf(r, field)
    /\ answered' = [x \in DOMAIN answered \cup {r} |-> IF x = r THEN field ELSE answered[x]]
    /\ server' = NextTo[server]
    /\ UNCHANGED <<step, eof, short>>

Greet(mode) ==
    /\ ~ eof /\ server = "dial" /\ step # "dial"
    /\ ServerSends("greeting", mode)
    /\ UNCHANGED requests

Accept(code) ==
    /\ ~ eof /\ server \in {"setup", "request", "startSessions"}
    /\ requests # <<>> /\ Head(requests) = server
    /\ ServerSends(AnswerTo[server], code)
    /\ requests' = Tail(requests)

\* Nothing reads from the connection once the client is ready, so that closing it later
\* makes no difference.
CloseConnection ==
    /\ ~ eof /\ step \in Replies
    /\ eof' = TRUE
    /\ UNCHANGED <<step, incoming, requests, server, answered, short>>

--------------------------------------------------------------------------------
(* The client.                                                             *)

Dial ==
    /\ step = "dial"
    /\ step' \in {"greeting", "failed"}
    /\ UNCHANGED <<incoming, requests, server, eof, answered, short>>

\* Modes that Connect returns an error for.
RefusedModes == {0, 2, 4}

\* Mutant of RefusedCodes: the last case is missing.
RefusedCodesButLast == 1..4

\* Codes that checkAcceptStatus returns an error for; any other passes.
RefusedCodes == 1..5

Refuses(r, field) == field \in IF r = "greeting" THEN RefusedModes ELSE RefusedCodes

\* Mutant of SentAfter: Connect does not answer the greeting.
SentAfterNoSetup == [greeting |-> <<>>, start |-> <<"request">>,
                     session |-> <<"startSessions">>, ack |-> <<>>]

\* What the client writes once a message was to its liking.
SentAfter == [greeting |-> <<"setup">>, start |-> <<"request">>,
              session |-> <<"startSessions">>, ack |-> <<>>]

StepAfter == [greeting |-> "start", start |-> "session", session |-> "ack", ack |-> "ready"]

\* What a field holds that was read as cell c.
Values(r, c) == IF c = Other THEN (IF r = "greeting" THEN Modes ELSE Codes) ELSE {c}

\* readFromSocket, with k cells read, and what the client makes of the field.
Read(k) ==
    /\ step \in Replies /\ k \in 1..Len(incoming) /\ k <= Size[step]
    /\ k < Size[step] => MaySplit
    /\ incoming' = SubSeq(incoming, k + 1, Len(incoming))
    /\ short' = (short \/ k < Size[step])
    /\ \E field \in IF FieldAt[step] <= k THEN Values(step, incoming[FieldAt[step]]) ELSE {0} :
          IF Refuses(step, field)
          THEN step' = "failed" /\ UNCHANGED requests
          ELSE /\ \/ step' = StepAfter[step]
                  \/ step = "ack" /\ step' = "failed"   \* DialUDP failed
               /\ requests' = requests \o SentAfter[step]
    /\ UNCHANGED <<server, eof, answered>>

\* The server closed the connection.
ReadFails ==
    /\ step \in Replies /\ incoming = <<>> /\ eof
    /\ step' = "failed"
    /\ UNCHANGED <<incoming, requests, server, eof, answered, short>>

\* Stop, and Close.
StopSession ==
    /\ step = "ready"
    /\ step' = "stopped"
    /\ requests' = Append(requests, "stop")
    /\ UNCHANGED <<incoming, server, eof, answered, short>>

--------------------------------------------------------------------------------
(* Specification                                                           *)

ServerStep == (\E mode \in Modes : Greet(mode)) \/ (\E code \in Codes : Accept(code))
ClientStep == (\E k \in 1..3 : Read(k)) \/ ReadFails

ControlNext == ServerStep \/ CloseConnection \/ Dial \/ ClientStep \/ StopSession

--------------------------------------------------------------------------------
(* Properties                                                              *)

ControlTypeOK ==
    /\ step \in Replies \cup {"dial", "ready", "failed", "stopped"}
    /\ incoming \in Seq(Modes \cup Codes \cup {Other})
    /\ requests \in Seq({"setup", "request", "startSessions", "stop"})
    /\ server \in {"dial", "setup", "request", "startSessions", "stop"}
    /\ DOMAIN answered \subseteq Replies
    /\ \A r \in DOMAIN answered : answered[r] \in IF r = "greeting" THEN Modes ELSE Codes
    /\ eof \in BOOLEAN /\ short \in BOOLEAN

\* A client that goes on to its test has the consent of the server to each step: unless
\* Read returned a message in pieces, no refusal is overlooked and no answer is taken
\* for that to another message (checkAcceptStatus, client.go 108-124).
SessionAgreed ==
    step \in {"ready", "stopped"} /\ ~ short =>
        /\ DOMAIN answered = Replies
        /\ answered["greeting"] \notin {0, 2, 4}
        /\ \A r \in Replies \ {"greeting"} : answered[r] \notin 1..5

\* A client that has connected gets its session or an error; client and server never
\* wait for each other.
ControlEnds == step = "greeting" ~> step \in {"ready", "failed"}

================================================================================
