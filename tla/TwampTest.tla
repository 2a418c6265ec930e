------------------------------- MODULE TwampTest -------------------------------
(***************************************************************************)
(* The TWAMP test (pkg/twamp/test.go, results.go): RunX sends Count        *)
(* messages one after the other, Run waits for the reply to each without a *)
(* deadline, and the statistics go to the interface that is measured.      *)
(*                                                                         *)
(* The network loses, repeats and reorders datagrams.  The reflector is    *)
(* external: it numbers its replies by itself, as RFC 5357 has it, or      *)
(* copies the number of the message, as simple ones do.                    *)
(***************************************************************************)
EXTENDS Naturals, Sequences, Functions, Bags

CONSTANTS
    Count,     \* messages in one call of RunX, 5 in monitorInterfaces
    Width,     \* numbers of messages, 2^32
    Times,     \* round-trip times
    None,      \* no message sent, no statistics
    MaxCalls,  \* bound: calls of RunX
    MaxExtra,  \* bound: datagrams repeated
    MaxLost    \* bound: datagrams lost

ASSUME TestAssumption ==
    /\ Count \in Nat \ {0} /\ Width \in Nat \ {0}
    /\ Times \subseteq Nat \ {0}
    /\ MaxCalls \in Nat /\ MaxExtra \in Nat /\ MaxLost \in Nat
    /\ None \notin Nat

VARIABLES
    seq,        \* t.seq
    waiting,    \* the number of the message whose reply Run waits for, or None
    sent,       \* messages sent in this call
    results,    \* results of this call
    calls,      \* calls of RunX so far
    stat,       \* the statistics of the last one, or None
    numbers,    \* does the reflector number its replies?
    reflected,  \* its number
    messages,   \* datagrams on their way to it
    replies,    \* on their way back
    socket,     \* replies in the buffer of the client's socket
    extra, lost \* datagrams repeated and lost

testVars == <<seq, waiting, sent, results, calls, stat, numbers, reflected, messages,
              replies, socket, extra, lost>>
network  == <<numbers, reflected, messages, replies, extra, lost>>

TestInit ==
    /\ seq = 0 /\ waiting = None /\ sent = 0 /\ results = <<>>
    /\ calls = 0 /\ stat = None
    /\ numbers \in BOOLEAN /\ reflected = 0
    /\ messages = EmptyBag /\ replies = EmptyBag /\ socket = <<>>
    /\ extra = 0 /\ lost = 0

--------------------------------------------------------------------------------
(* RunX and Run.                                                           *)

\* Mutant of NextSeq: the number does not fit into its field.
NextSeqWide == seq + 1

NextSeq == (seq + 1) % Width

SendMessage ==
    /\ waiting = None /\ sent < Count /\ calls < MaxCalls
    /\ messages' = messages (+) SetToBag({seq})
    /\ waiting' = seq
    /\ seq' = NextSeq
    /\ UNCHANGED <<sent, results, calls, stat, numbers, reflected, replies, socket,
                   extra, lost>>

\* Mutant of IsReply: the number is not compared.
IsAnyReply(r) == TRUE

\* The reflector's number is compared with that of the message, not the sender's number
\* that the reply holds as well.
IsReply(r) == r.seq = waiting

\* Mutant of Receive: Run waits on when the reply has another number.
ReceiveOwn(rtt) ==
    /\ waiting # None /\ socket # <<>>
    /\ socket' = Tail(socket)
    /\ LET r == Head(socket)
       IN  IF IsReply(r)
           THEN /\ results' = Append(results, [number |-> waiting, of |-> r.of, rtt |-> rtt,
                                               first |-> sent = 0])
                /\ sent' = sent + 1 /\ waiting' = None
           ELSE UNCHANGED <<results, sent, waiting>>
    /\ UNCHANGED <<seq, calls, stat, network>>

\* Run takes one reply, whatever its number.
Receive(rtt) ==
    /\ waiting # None /\ socket # <<>>
    /\ socket' = Tail(socket)
    /\ LET r == Head(socket)
       IN  results' = IF IsReply(r)
                      THEN Append(results, [number |-> waiting, of |-> r.of, rtt |-> rtt,
                                            first |-> sent = 0])
                      ELSE results
    /\ sent' = sent + 1
    /\ waiting' = None
    /\ UNCHANGED <<seq, calls, stat, network>>

Rtts == [i \in DOMAIN results |-> results[i].rtt]
Rtt  == {results[i].rtt : i \in DOMAIN results}

Distance(a, b) == IF a > b THEN a - b ELSE b - a

\* The smallest round-trip time, which stays zero if the first message had no result.
Smallest == IF \E i \in DOMAIN results : results[i].first
            THEN CHOOSE t \in Rtt : \A u \in Rtt : t <= u ELSE 0

Largest  == CHOOSE t \in Rtt \cup {0} : \A u \in Rtt : u <= t

\* Mutant of Average: one message too few.
AverageOfFewer == SumFunction(Rtts) \div (IF Count > 1 THEN Count - 1 ELSE 1)

\* The divisor is the number of messages, not that of the results.
Average  == SumFunction(Rtts) \div Count

\* PingResults.jitter.
Jitter ==
    IF Len(results) < 2 THEN 0
    ELSE SumFunction([i \in 2..Len(results) |-> Distance(Rtts[i - 1], Rtts[i])])
            \div (Len(results) - 1)

\* RunX, or Ping, returns.
Report ==
    /\ sent = Count
    /\ stat' = [min |-> Smallest, max |-> Largest, avg |-> Average, jitter |-> Jitter,
                rx |-> Len(results)]
    /\ sent' = 0 /\ results' = <<>>
    /\ calls' = calls + 1
    /\ UNCHANGED <<seq, waiting, socket, network>>

--------------------------------------------------------------------------------
(* The network and the reflector.                                          *)

\* A datagram arrives; it may have been repeated.
Arrives(bag, x) ==
    \/ bag' = bag (-) SetToBag({x}) /\ UNCHANGED extra
    \/ extra < MaxExtra /\ extra' = extra + 1 /\ UNCHANGED bag

Reflect(m) ==
    /\ BagIn(m, messages)
    /\ Arrives(messages, m)
    /\ replies' = replies (+) SetToBag({[seq |-> IF numbers THEN reflected ELSE m, of |-> m]})
    /\ reflected' = (reflected + 1) % Width
    /\ UNCHANGED <<seq, waiting, sent, results, calls, stat, numbers, socket, lost>>

Deliver(r) ==
    /\ BagIn(r, replies)
    /\ Arrives(replies, r)
    /\ socket' = Append(socket, r)
    /\ UNCHANGED <<seq, waiting, sent, results, calls, stat, numbers, reflected, messages,
                   lost>>

Lose ==
    /\ lost < MaxLost /\ lost' = lost + 1
    /\ \/ /\ \E m \in BagToSet(messages) : messages' = messages (-) SetToBag({m})
          /\ UNCHANGED replies
       \/ /\ \E r \in BagToSet(replies) : replies' = replies (-) SetToBag({r})
          /\ UNCHANGED messages
    /\ UNCHANGED <<seq, waiting, sent, results, calls, stat, numbers, reflected, socket,
                   extra>>

--------------------------------------------------------------------------------
(* Specification                                                           *)

RunStep == SendMessage \/ (\E rtt \in Times : Receive(rtt)) \/ Report
Carry   == (\E m \in BagToSet(messages) : Reflect(m)) \/ (\E r \in BagToSet(replies) : Deliver(r))

TestNext == RunStep \/ Carry \/ Lose

--------------------------------------------------------------------------------
(* Properties                                                              *)

Seqs == 0..Width - 1

TestTypeOK ==
    /\ seq \in Seqs /\ waiting \in Seqs \cup {None}
    /\ sent \in 0..Count /\ calls \in 0..MaxCalls
    /\ \A i \in DOMAIN results : results[i].number \in Seqs /\ results[i].rtt \in Times
    /\ reflected \in Seqs /\ BagToSet(messages) \subseteq Seqs
    /\ BagToSet(replies) \subseteq [seq : Seqs, of : Seqs]
    /\ socket \in Seq([seq : Seqs, of : Seqs])
    /\ extra \in 0..MaxExtra /\ lost \in 0..MaxLost

\* A result is that of the reply to the message that Run sent, and the round-trip time
\* is the time between the two, unless a reflector that numbers its replies was given
\* a message twice or not at all.
OwnReply ==
    \A i \in DOMAIN results :
        (numbers /\ extra + lost > 0) \/ results[i].of = results[i].number

\* Each Run takes one reply out of the socket.  Replies that repetition adds stay there
\* and make every later Run read the reply to an earlier message, until as many
\* datagrams are lost.
Backlog ==
    SumFunction(messages) + SumFunction(replies) + Len(socket) + lost
        = extra + IF waiting = None THEN 0 ELSE 1

\* If every message had a result, the average lies between the extremes, and the jitter
\* never exceeds their distance.
StatisticsSound ==
    stat # None => /\ stat.avg <= stat.max /\ stat.jitter <= stat.max - stat.min
                   /\ stat.rx = Count => stat.min <= stat.avg

\* Run returns, if no datagram is lost.
RunReturnsUnlessLost == waiting # None ~> (waiting = None \/ lost > 0)

\* Run returns, whatever is lost: the client waits at most a given time after the final
\* packet (cmd/twamp/main.go 19, "Maximum wait time after sending final packet").
RunReturns == waiting # None ~> waiting = None

================================================================================
