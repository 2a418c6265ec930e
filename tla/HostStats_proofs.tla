---------------------------- MODULE HostStats_proofs ----------------------------
(***************************************************************************)
(* Proofs about HostStats: types and connections, that the series stay     *)
(* aligned while shift moves them element by element, and that a complete  *)
(* answer has every interface the host had all the time.                   *)
(***************************************************************************)
EXTENDS HostStats, TLAPS

USE DEF NoneLeaked

--------------------------------------------------------------------------------
(* Types.                                                                  *)

LEMMA InitType == StatsInit => StatsTypeOK
<1> SUFFICES ASSUME StatsInit PROVE StatsTypeOK
  OBVIOUS
<1>1. StatsLen \in Nat \ {0} /\ MaxRounds \in Nat /\ MaxChanges \in Nat
  BY StatsAssumption
<1>2. kind \in [HostNames -> IfcKinds]
  BY StatsAssumption DEF StatsInit
<1>3. series \in [Series -> [Columns -> Nat]] /\ sample \in [Series -> Nat]
  BY DEF StatsInit
<1>4. shifted \in [Series -> 0..StatsLen]
  BY <1>1 DEF StatsInit
<1>5. round \in 0..MaxRounds /\ changes \in 0..MaxChanges
  BY <1>1 DEF StatsInit
<1>6. QED
  BY <1>2, <1>3, <1>4, <1>5 DEF StatsInit, StatsTypeOK, Phases

\* What the host and the stream do does not touch the client.
LEMMA HostType == ASSUME StatsTypeOK, HostStep \/ Fail PROVE StatsTypeOK'
<1>1. ASSUME NEW n \in HostNames, NEW k \in IfcKinds, ChangeHost(n, k) PROVE StatsTypeOK'
  <2>1. kind' \in [HostNames -> IfcKinds] /\ steady' \subseteq Tracked
    BY <1>1 DEF ChangeHost, StatsTypeOK
  <2>2. changes' \in 0..MaxChanges
    BY <1>1, StatsAssumption DEF ChangeHost, StatsTypeOK
  <2>3. QED
    BY <1>1, <2>1, <2>2 DEF ChangeHost, StatsTypeOK
<1>2. ASSUME NEW k \in {"lan", "wan"}, NEW next \in {"wan", "done"}, CopyList(k, next)
      PROVE  StatsTypeOK'
  <2>1. coming' \subseteq HostNames
    BY <1>2 DEF CopyList, StatsTypeOK, InList
  <2>2. QED
    BY <1>2, <2>1 DEF CopyList, StatsTypeOK
<1>3. CASE Fail
  <2>1. coming' \subseteq HostNames
    BY <1>3 DEF Fail, StatsTypeOK
  <2>2. QED
    BY <1>3, <2>1 DEF Fail, StatsTypeOK, hostVars
<1>4. QED
  BY <1>1, <1>2, <1>3 DEF HostStep, ServeLan, ServeWan

LEMMA DisconnectType ==
    ASSUME StatsTypeOK, Disconnect
    PROVE  conn' = "none" /\ opened' = 0
BY DEF StatsTypeOK, Disconnect

LEMMA RequestType == ASSUME StatsTypeOK, Request PROVE StatsTypeOK'
<1>1. CASE RpcStarts /\ UNCHANGED <<conn, opened>>
  <2>1. steady' \subseteq Tracked /\ coming' \subseteq HostNames
    BY <1>1 DEF Request, StatsTypeOK
  <2>2. QED
    BY <1>1, <2>1 DEF Request, StatsTypeOK, Phases, clientData
<1>2. CASE Disconnect /\ UNCHANGED <<stream, serving, coming, steady>>
  BY <1>2, DisconnectType DEF Request, StatsTypeOK, Phases, clientData
<1>3. QED
  BY <1>1, <1>2 DEF Request

LEMMA NewRoundType == ASSUME StatsTypeOK, NewRound PROVE StatsTypeOK'
<1>1. round' \in 0..MaxRounds
  BY StatsAssumption DEF NewRound, StatsTypeOK
<1>2. sample' \in [Series -> Nat]
  BY DEF NewRound, NewSample
<1>3. shifted' \in [Series -> 0..StatsLen]
  BY StatsAssumption DEF NewRound
<1>4. QED
  BY <1>1, <1>2, <1>3 DEF NewRound, StatsTypeOK, Phases, hostVars

LEMMA ConnectType == ASSUME StatsTypeOK, Connect PROVE StatsTypeOK'
<1>1. phase' \in Phases /\ conn' \in {"none", "open", "closed"}
  BY DEF Connect, StatsTypeOK, Phases
<1>2. opened' = IF conn' = "open" THEN 1 ELSE 0
  BY DEF Connect, StatsTypeOK
<1>3. QED
  BY <1>1, <1>2 DEF Connect, StatsTypeOK, hostVars, clientData

LEMMA ReceiveType ==
    ASSUME StatsTypeOK, RecvEof \/ GetAclCacheSize \/ \E n \in HostNames : Recv(n)
    PROVE  StatsTypeOK'
<1>1. round \in Nat /\ Acl \in Series /\ Tracked \subseteq Series
  BY StatsAssumption DEF StatsTypeOK, Series
<1>2. ASSUME NEW n \in HostNames, Recv(n) PROVE StatsTypeOK'
  <2>1. sample' \in [Series -> Nat] /\ coming' \subseteq HostNames
    BY <1>1, <1>2 DEF Recv, StatsTypeOK
  <2>2. QED
    BY <1>2, <2>1 DEF Recv, StatsTypeOK, hostVars, clientData
<1>3. CASE RecvEof
  BY <1>3 DEF RecvEof, StatsTypeOK, Phases, hostVars, clientData
<1>4. CASE GetAclCacheSize
  <2>1. sample' \in [Series -> Nat]
    BY <1>1, <1>4 DEF GetAclCacheSize, StatsTypeOK
  <2>2. /\ conn' \in {"none", "open", "closed"}
        /\ opened' = IF conn' = "open" THEN 1 ELSE 0
    BY <1>4, DisconnectType DEF GetAclCacheSize, StatsTypeOK
  <2>3. QED
    BY <1>4, <2>1, <2>2 DEF GetAclCacheSize, StatsTypeOK, Phases, hostVars, clientData
<1>5. QED
  BY <1>2, <1>3, <1>4

\* The element that shift writes, and the place it comes from.
LEMMA ElementType ==
    ASSUME StatsTypeOK, NEW s \in Series, shifted[s] < StatsLen
    PROVE  /\ NextElement(s) \in Columns
           /\ NextElement(s) < StatsLen => NextElement(s) + 1 \in Columns
           /\ NextElement(s) \in 0..StatsLen
BY StatsAssumption DEF StatsTypeOK, NextElement, Columns

LEMMA ShiftType == ASSUME StatsTypeOK, NEW s \in Series, Shift(s) PROVE StatsTypeOK'
<1> DEFINE i == NextElement(s)
           e == IF i < StatsLen THEN series[s][i + 1] ELSE sample[s]
<1>1. i \in Columns /\ (i < StatsLen => i + 1 \in Columns) /\ i \in 0..StatsLen
  BY ElementType DEF Shift
<1>2. e \in Nat
  BY <1>1 DEF StatsTypeOK
<1>3. series' = [series EXCEPT ![s][i] = e]
  BY DEF Shift
<1>4. shifted' = [shifted EXCEPT ![s] = i]
  BY DEF Shift, NextElement
<1> HIDE DEF i, e
<1>5. series' \in [Series -> [Columns -> Nat]]
  BY <1>1, <1>2, <1>3 DEF StatsTypeOK
<1>6. shifted' \in [Series -> 0..StatsLen]
  BY <1>1, <1>4 DEF StatsTypeOK
<1>7. QED
  BY <1>5, <1>6 DEF Shift, StatsTypeOK, Phases, hostVars

LEMMA ScreenType == ASSUME StatsTypeOK, ScreenStep PROVE StatsTypeOK'
<1>1. CASE Cancel
  BY <1>1 DEF Cancel, StatsTypeOK, hostVars
<1>2. CASE CloseLook
  BY <1>2 DEF CloseLook, StatsTypeOK, hostVars
<1>3. CASE CloseConn
  BY <1>3 DEF CloseConn, StatsTypeOK, hostVars
<1>4. CASE Leave
  BY <1>4 DEF Leave, StatsTypeOK, hostVars
<1>5. QED
  BY <1>1, <1>2, <1>3, <1>4 DEF ScreenStep

LEMMA NextType == StatsTypeOK /\ [StatsNext]_statsVars => StatsTypeOK'
<1>1. ASSUME StatsTypeOK, StatsNext PROVE StatsTypeOK'
  BY <1>1, HostType, RequestType, NewRoundType, ConnectType, ReceiveType, ShiftType, ScreenType
  DEF StatsNext, UpdateStep
<1>2. ASSUME StatsTypeOK, UNCHANGED statsVars PROVE StatsTypeOK'
  BY <1>2 DEF StatsTypeOK, statsVars
<1>3. QED
  BY <1>1, <1>2

\* Types; among them, that every connection the client dialled and did not close is the
\* one in h.conn, whatever main and Update do to each other.
THEOREM StatsTypeCorrect == StatsSpec => []StatsTypeOK
BY InitType, NextType, PTL DEF StatsSpec

--------------------------------------------------------------------------------
(* The connection.                                                         *)

\* Whatever main does to the connection, Update finds one wherever it uses it, because
\* nothing but Update itself takes h.conn back to nil; and none is left open.
THEOREM ConnectionKept == StatsSpec => []OneConnection
<1>1. StatsInit => UpdateHasConn
  BY DEF StatsInit, UpdateHasConn
<1>2. ASSUME UpdateHasConn, StatsNext PROVE UpdateHasConn'
  <2>1. CASE HostStep \/ Fail
    BY <1>2, <2>1 DEF HostStep, ServeLan, ServeWan, CopyList, ChangeHost, Fail, UpdateHasConn
  <2>2. CASE UpdateStep
    BY <1>2, <2>2 DEF UpdateStep, NewRound, Connect, Request, Recv, RecvEof, GetAclCacheSize,
                      Shift, RpcStarts, UpdateHasConn
  <2>3. CASE ScreenStep
    BY <1>2, <2>3 DEF ScreenStep, Cancel, CloseLook, CloseConn, Leave,
                      UpdateHasConn
  <2>4. QED
    BY <1>2, <2>1, <2>2, <2>3 DEF StatsNext
<1>3. ASSUME UpdateHasConn, UNCHANGED statsVars PROVE UpdateHasConn'
  BY <1>3 DEF statsVars, UpdateHasConn
<1>4. StatsTypeOK /\ UpdateHasConn => OneConnection
  BY DEF StatsTypeOK, OneConnection
<1>5. QED
  BY <1>1, <1>2, <1>3, <1>4, StatsTypeCorrect, PTL DEF StatsSpec

\* Once the stream has failed Update calls Recv until the program ends.
THEOREM RecvForever == StatsSpec => SpinsForever
<1>1. ASSUME StatsNext, Spinning PROVE Spinning' \/ ~ Alive'
  <2>1. CASE HostStep \/ Fail
    BY <1>1, <2>1 DEF HostStep, ServeLan, ServeWan, CopyList, ChangeHost, Fail, Spinning, Alive
  <2>2. CASE UpdateStep
    BY <1>1, <2>2 DEF UpdateStep, NewRound, Connect, Request, Recv, RecvEof, AtEof,
                      GetAclCacheSize, Shift, Spinning, Alive, hostVars, clientData
  <2>3. CASE ScreenStep
    BY <1>1, <2>3 DEF ScreenStep, Cancel, CloseLook, CloseConn, Leave, Spinning, Alive
  <2>4. QED
    BY <1>1, <2>1, <2>2, <2>3 DEF StatsNext
<1>2. [StatsNext]_statsVars => [Spinning => Spinning' \/ ~ Alive']_statsVars
  BY <1>1
<1>3. QED
  BY <1>2, PTL DEF StatsSpec, SpinsForever

--------------------------------------------------------------------------------
(* Alignment: what shift has written is of this round, the rest of the one *)
(* before.                                                                 *)

\* The round that column i of series s may hold values of.
HeldRound(s, i) == RoundOf(i, IF i <= shifted[s] THEN round ELSE round - 1)

\* How far shift has got, by what Update is doing.
ShiftInv ==
    /\ phase = "sleep" => \A s \in Series : shifted[s] = StatsLen
    /\ phase \notin {"sleep", "shift"} => \A s \in Series : shifted[s] = 0
    /\ phase # "sleep" => round > 0

AlignInv ==
    /\ ShiftInv
    /\ \A s \in Series : sample[s] \in {0, round}
    /\ \A s \in Series, i \in Columns : series[s][i] \in {0, HeldRound(s, i)}

LEMMA AlignInit == StatsTypeOK /\ StatsInit => AlignInv
<1> SUFFICES ASSUME StatsTypeOK, StatsInit PROVE AlignInv
  OBVIOUS
<1>1. ShiftInv
  BY DEF StatsInit, ShiftInv
<1>2. \A s \in Series : sample[s] \in {0, round}
  BY DEF StatsInit
<1>3. \A s \in Series, i \in Columns : series[s][i] = 0
  BY DEF StatsInit
<1>4. QED
  BY <1>1, <1>2, <1>3 DEF AlignInv

\* A step that leaves the series alone keeps them aligned.
LEMMA AlignSame ==
    ASSUME AlignInv, UNCHANGED <<series, shifted, round>>, ShiftInv',
           \A s \in Series : sample'[s] \in {0, round}
    PROVE  AlignInv'
BY DEF AlignInv, HeldRound

LEMMA AlignNewRound == ASSUME StatsTypeOK, AlignInv, NewRound PROVE AlignInv'
<1>1. round \in Nat /\ round' = round + 1 /\ phase = "sleep" /\ phase' = "connect"
  BY DEF NewRound, StatsTypeOK
<1>2. \A s \in Series : shifted[s] = StatsLen /\ shifted'[s] = 0 /\ sample'[s] = 0
  BY <1>1 DEF NewRound, NewSample, AlignInv, ShiftInv
<1>3. ASSUME NEW s \in Series, NEW i \in Columns PROVE series'[s][i] \in {0, HeldRound(s, i)'}
  <2>1. i \in Nat /\ 0 < i /\ i <= StatsLen
    BY StatsAssumption DEF Columns
  <2>2. HeldRound(s, i) = RoundOf(i, round) /\ HeldRound(s, i)' = RoundOf(i, round)
    BY <1>1, <1>2, <2>1 DEF HeldRound, RoundOf
  <2>3. QED
    BY <2>2 DEF AlignInv, NewRound
<1>4. ShiftInv'
  BY <1>1, <1>2 DEF ShiftInv
<1>5. QED
  BY <1>2, <1>3, <1>4 DEF AlignInv

LEMMA AlignShift == ASSUME StatsTypeOK, AlignInv, NEW s \in Series, Shift(s) PROVE AlignInv'
<1> DEFINE i == NextElement(s)
           e == IF i < StatsLen THEN series[s][i + 1] ELSE sample[s]
<1>1. /\ round \in Nat /\ round > 0 /\ StatsLen \in Nat /\ StatsLen > 0
      /\ phase = "shift" /\ round' = round /\ sample' = sample
  BY StatsAssumption DEF Shift, StatsTypeOK, AlignInv, ShiftInv
<1>2. shifted[s] \in Nat /\ i = shifted[s] + 1 /\ i <= StatsLen /\ i \in Columns
  BY <1>1 DEF Shift, StatsTypeOK, NextElement, Columns
<1>3. series' = [series EXCEPT ![s][i] = e]
  BY DEF Shift
<1>4. shifted' = [shifted EXCEPT ![s] = i]
  BY DEF Shift, NextElement
<1>5. e \in {0, RoundOf(i, round)}
  <2>1. CASE i < StatsLen
    <3>1. i + 1 \in Columns /\ ~ (i + 1 <= shifted[s])
      BY <1>1, <1>2, <2>1 DEF Columns
    <3>2. e \in {0, RoundOf(i + 1, round - 1)}
      BY <2>1, <3>1 DEF AlignInv, HeldRound
    <3>3. RoundOf(i + 1, round - 1) = RoundOf(i, round)
      BY <1>1, <1>2 DEF RoundOf
    <3>4. QED
      BY <3>2, <3>3
  <2>2. CASE ~ (i < StatsLen)
    BY <1>1, <1>2, <2>2 DEF AlignInv, RoundOf
  <2>3. QED
    BY <2>1, <2>2
<1> HIDE DEF i, e
<1>6. ASSUME NEW t \in Series, NEW j \in Columns PROVE series'[t][j] \in {0, HeldRound(t, j)'}
  <2>1. series[t][j] \in {0, HeldRound(t, j)}
    BY DEF AlignInv
  <2>2. j \in Nat
    BY DEF Columns
  <2>3. CASE t = s /\ j = i
    <3>1. series'[t][j] = e
      BY <1>3, <2>3 DEF StatsTypeOK
    <3>2. HeldRound(t, j)' = RoundOf(i, round)
      BY <1>1, <1>2, <1>4, <2>3 DEF HeldRound, StatsTypeOK
    <3>3. QED
      BY <1>5, <3>1, <3>2
  <2>4. CASE t = s /\ j # i
    <3>1. series'[t][j] = series[t][j]
      BY <1>3, <2>4 DEF StatsTypeOK
    <3>2. shifted'[t] = i /\ (j <= i <=> j <= shifted[t])
      BY <1>2, <1>4, <2>2, <2>4 DEF StatsTypeOK
    <3>3. HeldRound(t, j)' = HeldRound(t, j)
      BY <1>1, <3>2 DEF HeldRound
    <3>4. QED
      BY <2>1, <3>1, <3>3
  <2>5. CASE t # s
    <3>1. series'[t] = series[t] /\ shifted'[t] = shifted[t]
      BY <1>3, <1>4, <2>5 DEF StatsTypeOK
    <3>2. HeldRound(t, j)' = HeldRound(t, j)
      BY <1>1, <3>1 DEF HeldRound
    <3>3. QED
      BY <2>1, <3>1, <3>2
  <2>6. QED
    BY <2>3, <2>4, <2>5
<1>7. ShiftInv'
  <2>1. CASE phase' = "sleep"
    <3>1. s = Acl /\ shifted'[s] = StatsLen
      BY <2>1 DEF Shift
    <3>2. ASSUME NEW t \in Series, t # s PROVE shifted'[t] = StatsLen
      <4>1. t \in Tracked \ {s}
        BY <3>1, <3>2 DEF Series
      <4>2. shifted[t] = StatsLen
        BY <3>1, <4>1 DEF Shift
      <4>3. QED
        BY <1>4, <3>2, <4>2 DEF StatsTypeOK
    <3>3. QED
      BY <2>1, <3>1, <3>2 DEF ShiftInv
  <2>2. CASE phase' = "shift"
    BY <1>1, <2>2 DEF ShiftInv
  <2>3. QED
    BY <2>1, <2>2 DEF Shift
<1>8. QED
  BY <1>1, <1>6, <1>7 DEF AlignInv

LEMMA AlignOthers ==
    ASSUME StatsTypeOK, AlignInv, HostStep \/ Fail \/ ScreenStep
    PROVE  AlignInv'
<1>1. UNCHANGED <<series, shifted, round, phase, sample>>
  BY DEF HostStep, ServeLan, ServeWan, CopyList, ChangeHost, Fail, ScreenStep, Cancel,
         CloseLook, CloseConn, Leave
<1>2. ShiftInv'
  BY <1>1 DEF AlignInv, ShiftInv
<1>3. QED
  BY <1>1, <1>2, AlignSame DEF AlignInv

LEMMA AlignRound ==
    ASSUME StatsTypeOK, AlignInv,
           Connect \/ Request \/ RecvEof \/ GetAclCacheSize \/ \E n \in HostNames : Recv(n)
    PROVE  AlignInv'
<1>1. UNCHANGED <<series, shifted, round>>
  BY DEF Connect, Request, RecvEof, GetAclCacheSize, Recv, clientData
<1>2. phase \notin {"sleep", "shift"} /\ phase' # "sleep"
  BY DEF Connect, Request, RecvEof, GetAclCacheSize, Recv
<1>3. ShiftInv'
  BY <1>1, <1>2 DEF AlignInv, ShiftInv
<1>4. \A s \in Series : sample'[s] \in {0, round}
  <2>1. CASE Connect \/ Request \/ RecvEof
    BY <2>1 DEF AlignInv, Connect, Request, RecvEof
  <2>2. CASE GetAclCacheSize
    BY <2>2 DEF AlignInv, GetAclCacheSize, StatsTypeOK
  <2>3. CASE \E n \in HostNames : Recv(n)
    BY <2>3 DEF AlignInv, Recv, StatsTypeOK
  <2>4. QED
    BY <2>1, <2>2, <2>3
<1>5. QED
  BY <1>1, <1>3, <1>4, AlignSame

LEMMA AlignNext == StatsTypeOK /\ AlignInv /\ [StatsNext]_statsVars => AlignInv'
<1>1. ASSUME StatsTypeOK, AlignInv, StatsNext PROVE AlignInv'
  BY <1>1, AlignOthers, AlignRound, AlignNewRound, AlignShift DEF StatsNext, UpdateStep
<1>2. ASSUME AlignInv, UNCHANGED statsVars PROVE AlignInv'
  <2>1. UNCHANGED <<series, shifted, round, phase, sample>>
    BY <1>2 DEF statsVars
  <2>2. ShiftInv'
    BY <1>2, <2>1 DEF AlignInv, ShiftInv
  <2>3. QED
    BY <1>2, <2>1, <2>2, AlignSame DEF AlignInv
<1>3. QED
  BY <1>1, <1>2

LEMMA AtRestFollows == StatsTypeOK /\ AlignInv => AlignedAtRest
<1> SUFFICES ASSUME StatsTypeOK, AlignInv, phase # "shift", NEW s \in Series, NEW i \in Columns
             PROVE  series[s][i] \in {0, RoundOf(i, IF phase = "sleep" THEN round ELSE round - 1)}
  BY DEF AlignedAtRest
<1>1. i \in Nat /\ 0 < i /\ i <= StatsLen
  BY StatsAssumption DEF Columns
<1>2. HeldRound(s, i) = RoundOf(i, IF phase = "sleep" THEN round ELSE round - 1)
  BY <1>1 DEF AlignInv, ShiftInv, HeldRound
<1>3. QED
  BY <1>2 DEF AlignInv

LEMMA InStepFollows == StatsTypeOK /\ AlignInv => InStep
<1> SUFFICES ASSUME StatsTypeOK, AlignInv, NEW s \in Series, NEW t \in Series, NEW i \in Columns,
                    series[s][i] # 0, series[t][i] # 0
             PROVE  series[s][i] <= series[t][i] + 1
  BY DEF InStep
<1>1. round \in Nat /\ i \in Nat /\ StatsLen \in Nat
  BY StatsAssumption DEF StatsTypeOK, Columns
<1>2. series[s][i] = HeldRound(s, i) /\ series[t][i] = HeldRound(t, i)
  BY DEF AlignInv
<1>3. QED
  BY <1>1, <1>2 DEF HeldRound, RoundOf

\* All series, of any number of interfaces and of any length, hold values of the same round
\* in the same column, whichever calls failed, and what main draws without a lock, in the
\* middle of any shift, is off by one round at most.
THEOREM SeriesAligned == StatsSpec => []Aligned
<1>1. StatsTypeOK /\ AlignInv => Aligned
  BY AtRestFollows, InStepFollows DEF Aligned
<1>2. QED
  BY <1>1, InitType, NextType, AlignInit, AlignNext, PTL DEF StatsSpec

--------------------------------------------------------------------------------
(* What the server still has to send.                                      *)

Unserved(n) == \/ kind[n] = "lan" /\ serving = "lan"
               \/ kind[n] = "wan" /\ serving \in {"lan", "wan"}

SteadyInv ==
    /\ \A n \in steady : kind[n] # "none"
    /\ phase = "recv" /\ stream = "open" =>
          \A n \in steady : sample[n] = round \/ n \in coming \/ Unserved(n)

LEMMA SteadyHost == ASSUME StatsTypeOK, SteadyInv, HostStep PROVE SteadyInv'
<1>1. ASSUME NEW n \in HostNames, NEW k \in IfcKinds, ChangeHost(n, k) PROVE SteadyInv'
  <2>1. /\ steady' = steady \ {n} /\ UNCHANGED <<phase, stream, sample, round, coming, serving>>
        /\ \A m \in steady' : kind'[m] = kind[m]
    BY <1>1 DEF ChangeHost, StatsTypeOK
  <2>2. QED
    BY <2>1 DEF SteadyInv, Unserved
<1>2. ASSUME NEW k \in {"lan", "wan"}, CopyList(k, IF k = "lan" THEN "wan" ELSE "done")
      PROVE  SteadyInv'
  <2>1. UNCHANGED <<steady, kind, phase, stream, sample, round>>
    BY <1>2 DEF CopyList
  <2>2. ASSUME phase = "recv", stream = "open", NEW n \in steady
        PROVE  sample[n] = round \/ n \in coming' \/ Unserved(n)'
    <3>1. n \in HostNames /\ kind[n] \in {"lan", "wan"}
      BY DEF SteadyInv, StatsTypeOK, HostNames, IfcKinds
    <3>2. coming' = coming \cup InList(k) /\ serving = k
      BY <1>2, <2>2 DEF CopyList
    <3>3. sample[n] = round \/ n \in coming \/ Unserved(n)
      BY <2>2 DEF SteadyInv
    <3>4. QED
      BY <1>2, <2>1, <3>1, <3>2, <3>3 DEF Unserved, InList, CopyList
  <2>3. QED
    BY <2>1, <2>2 DEF SteadyInv
<1>3. QED
  BY <1>1, <1>2 DEF HostStep, ServeLan, ServeWan

LEMMA SteadyUpdate == ASSUME StatsTypeOK, SteadyInv, UpdateStep PROVE SteadyInv'
<1>1. CASE Request
  <2>1. CASE phase' = "recv"
    <3>1. serving' = "lan" /\ kind' = kind /\ \A n \in steady' : kind[n] \in {"lan", "wan"}
      BY <1>1, <2>1 DEF Request, StatsTypeOK, HostNames, IfcKinds
    <3>2. QED
      BY <3>1 DEF SteadyInv, Unserved
  <2>2. CASE phase' # "recv"
    BY <1>1, <2>2 DEF Request, SteadyInv
  <2>3. QED
    BY <2>1, <2>2
<1>2. ASSUME NEW n \in HostNames, Recv(n) PROVE SteadyInv'
  <2>1. /\ UNCHANGED <<steady, kind, serving, phase, stream, round>>
        /\ steady \subseteq Series /\ steady \subseteq Tracked
    BY <1>2 DEF Recv, hostVars, clientData, StatsTypeOK, Series
  <2>2. ASSUME NEW m \in steady, sample[m] = round \/ m \in coming \/ Unserved(m)
        PROVE  sample'[m] = round \/ m \in coming' \/ Unserved(m)'
    <3>1. sample'[m] = round \/ (sample'[m] = sample[m] /\ m # n)
      BY <1>2, <2>1 DEF Recv, StatsTypeOK
    <3>2. m # n => (m \in coming => m \in coming')
      BY <1>2 DEF Recv
    <3>3. Unserved(m)' = Unserved(m)
      BY <2>1 DEF Unserved
    <3>4. QED
      BY <2>2, <3>1, <3>2, <3>3
  <2>3. QED
    BY <2>1, <2>2 DEF SteadyInv
<1>3. CASE NewRound \/ Connect \/ RecvEof \/ GetAclCacheSize \/ \E s \in Series : Shift(s)
  <2>1. phase' # "recv" /\ UNCHANGED <<steady, kind>>
    BY <1>3 DEF NewRound, Connect, RecvEof, GetAclCacheSize, Shift, hostVars
  <2>2. QED
    BY <2>1 DEF SteadyInv
<1>4. QED
  BY <1>1, <1>2, <1>3 DEF UpdateStep

LEMMA SteadyNext == StatsTypeOK /\ SteadyInv /\ [StatsNext]_statsVars => SteadyInv'
<1>1. ASSUME SteadyInv, Fail \/ ScreenStep PROVE SteadyInv'
  BY <1>1 DEF Fail, ScreenStep, Cancel, CloseLook, CloseConn, Leave, hostVars, SteadyInv,
              Unserved
<1>2. ASSUME SteadyInv, UNCHANGED statsVars PROVE SteadyInv'
  BY <1>2 DEF statsVars, SteadyInv, Unserved
<1>3. QED
  BY <1>1, <1>2, SteadyHost, SteadyUpdate DEF StatsNext

\* An answer that ends regularly misses no shown interface that the host had from the
\* request to the end, however the two lists change while the server copies them.
THEOREM AnswersComplete == StatsSpec => SteadySampled
<1>1. ASSUME StatsTypeOK, SteadyInv, StatsNext, phase = "recv", phase' = "acl"
      PROVE  \A n \in steady : sample[n] = round
  <2>1. RecvEof
    BY <1>1 DEF StatsNext, HostStep, ServeLan, ServeWan, CopyList, ChangeHost, Fail,
                UpdateStep, NewRound, Connect, Request, Recv, GetAclCacheSize, Shift,
                ScreenStep, Cancel, CloseLook, CloseConn, Leave
  <2>2. stream = "open" /\ serving = "done" /\ coming = {}
    BY <2>1 DEF RecvEof, AtEof
  <2>3. QED
    BY <1>1, <2>2 DEF SteadyInv, Unserved
<1>2. StatsTypeOK /\ SteadyInv /\ [StatsNext]_statsVars
         => [phase = "recv" /\ phase' = "acl" => \A n \in steady : sample[n] = round]_statsVars
  BY <1>1
<1>3. StatsInit => SteadyInv
  BY DEF StatsInit, SteadyInv
<1>4. QED
  BY <1>2, <1>3, InitType, NextType, SteadyNext, PTL DEF StatsSpec, SteadySampled

================================================================================
