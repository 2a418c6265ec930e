------------------------- MODULE BatchAccumulate_proofs -------------------------
(***************************************************************************)
(* Proofs about BatchAccumulate: which keys the accumulated output has,    *)
(* what the first two readings of a key make of its rate, and what becomes *)
(* of that from the third on.                                              *)
(***************************************************************************)
EXTENDS BatchAccumulate, Integers, TLAPS

--------------------------------------------------------------------------------
(* Readings and averages.                                                  *)

LEMMA ReadingType ==
    ASSUME NEW reading \in Reading
    PROVE  /\ DOMAIN reading.rates \subseteq Keys
           /\ \A k \in DOMAIN reading.rates : reading.rates[k] \in Nat
           /\ reading.tick \in Nat /\ reading.tick > 0
           /\ \A k : RateIn(reading, k) \in Nat
<1>1. reading.rates \in UNION {[K -> Rates] : K \in SUBSET Keys} /\ reading.tick \in Ticks
  BY DEF Reading
<1>2. PICK K \in SUBSET Keys : reading.rates \in [K -> Rates]
  BY <1>1
<1>3. /\ DOMAIN reading.rates \subseteq Keys
      /\ \A k \in DOMAIN reading.rates : reading.rates[k] \in Nat
  BY <1>2, BatchAssumption
<1>4. reading.tick \in Nat /\ reading.tick > 0
  <2>1. \A t \in Nat \ {0} : t > 0
    OBVIOUS
  <2>2. reading.tick \in Nat \ {0}
    BY <1>1, BatchAssumption
  <2>3. QED
    BY <2>1, <2>2
<1>5. ASSUME NEW k PROVE RateIn(reading, k) \in Nat
  <2>1. CASE k \in DOMAIN reading.rates
    BY <1>3, <2>1 DEF RateIn
  <2>2. CASE k \notin DOMAIN reading.rates
    BY <2>2 DEF RateIn
  <2>3. QED
    BY <2>1, <2>2
<1>6. QED
  BY <1>3, <1>4, <1>5

LEMMA DivMultiple ==
    ASSUME NEW b \in Nat, NEW t \in Nat, t > 0
    PROVE  (b * t) \div t = b
OBVIOUS

\* An average with the weight 0 on one side is the other side.
LEMMA WeightZero ==
    ASSUME NEW a \in Nat, NEW b \in Nat, NEW t \in Nat, t > 0
    PROVE  AverageU64(a, 0, b, t) = b
<1>1. a * 0 + b * t = b * t /\ 0 + t = t
  OBVIOUS
<1>2. QED
  BY <1>1, DivMultiple DEF AverageU64

\* Truncation takes less than one unit away.
LEMMA TruncatedQuotient ==
    ASSUME NEW s \in Nat, NEW t \in Nat, t > 0
    PROVE  (s \div t) * t <= s + t /\ s <= (s \div t) * t + t
<1>1. /\ s = (s \div t) * t + (s % t)
      /\ s % t \in Nat /\ s % t < t /\ (s \div t) * t \in Nat
  OBVIOUS
<1>2. \A p, r \in Nat : s = p + r /\ r < t => p <= s + t /\ s <= p + t
  OBVIOUS
<1>3. QED
  BY <1>1, <1>2

LEMMA AverageType ==
    ASSUME NEW a \in Nat, NEW wa \in Nat, NEW b \in Nat, NEW wb \in Nat, wb > 0
    PROVE  AverageU64(a, wa, b, wb) \in Nat
<1>1. a * wa \in Nat /\ b * wb \in Nat
  OBVIOUS
<1>2. wa + wb \in Nat /\ wa + wb > 0 /\ a * wa + b * wb \in Nat
  BY <1>1
<1>3. \A x, y \in Nat : y > 0 => x \div y \in Nat
  OBVIOUS
<1>4. QED
  BY <1>2, <1>3 DEF AverageU64

\* An average is exact to one unit.
LEMMA AverageExact ==
    ASSUME NEW a \in Nat, NEW wa \in Nat, NEW b \in Nat, NEW wb \in Nat, wb > 0
    PROVE  LET volume == a * wa + b * wb
               time   == wa + wb
           IN  /\ AverageU64(a, wa, b, wb) * time <= volume + time
               /\ volume <= AverageU64(a, wa, b, wb) * time + time
<1> DEFINE volume == a * wa + b * wb
           time   == wa + wb
<1>1. a * wa \in Nat /\ b * wb \in Nat
  OBVIOUS
<1>2. volume \in Nat /\ time \in Nat /\ time > 0
  BY <1>1
<1>3. AverageU64(a, wa, b, wb) = volume \div time
  BY DEF AverageU64
<1>4. /\ AverageU64(a, wa, b, wb) * time <= volume + time
      /\ volume <= AverageU64(a, wa, b, wb) * time + time
  <2> HIDE DEF volume, time
  <2>1. QED
    BY <1>2, <1>3, TruncatedQuotient
<1>5. QED
  BY <1>4

--------------------------------------------------------------------------------
(* The keys.                                                               *)

BatchTypeOK ==
    /\ batch \in Seq(Reading)
    /\ acc = [k \in DOMAIN acc |-> acc[k]]
    /\ \A k \in DOMAIN acc : acc[k].rate \in Nat /\ acc[k].time \in Nat

LEMMA InitType == BatchInit => BatchTypeOK
BY DEF BatchInit, BatchTypeOK

\* What a step does to an entry.
LEMMA EntryAfter ==
    ASSUME NEW reading \in Reading, Accumulate(reading), NEW k
    PROVE  /\ k \in DOMAIN acc' <=> k \in DOMAIN acc \/ k \in DOMAIN reading.rates
           /\ k \in DOMAIN acc =>
                 /\ acc'[k].rate =
                       AverageU64(acc[k].rate, acc[k].time, RateIn(reading, k), reading.tick)
                 /\ acc'[k].time = 0
           /\ k \in DOMAIN acc' \ DOMAIN acc =>
                 acc'[k] = [rate |-> reading.rates[k], time |-> reading.tick]
<1>1. /\ k \in DOMAIN acc' <=> k \in DOMAIN acc \/ k \in DOMAIN reading.rates
      /\ k \in DOMAIN acc => acc'[k] = Merged(acc[k], RateIn(reading, k), reading.tick)
      /\ k \in DOMAIN acc' \ DOMAIN acc =>
            acc'[k] = [rate |-> reading.rates[k], time |-> reading.tick]
  BY DEF Accumulate, UpdatedAcc, NextKeys
<1>2. \A old, rate, tick :
         /\ Merged(old, rate, tick).rate = AverageU64(old.rate, old.time, rate, tick)
         /\ Merged(old, rate, tick).time = 0
  BY DEF Merged
<1>3. QED
  BY <1>1, <1>2

LEMMA NextType == BatchTypeOK /\ [BatchNext]_batchVars => BatchTypeOK'
<1>1. ASSUME BatchTypeOK, NEW reading \in Reading, Accumulate(reading) PROVE BatchTypeOK'
  <2>1. batch' \in Seq(Reading)
    BY <1>1 DEF BatchTypeOK, Accumulate
  <2>2. acc' = [k \in DOMAIN acc' |-> acc'[k]]
    BY <1>1 DEF Accumulate, UpdatedAcc
  <2>3. ASSUME NEW k \in DOMAIN acc' PROVE acc'[k].rate \in Nat /\ acc'[k].time \in Nat
    <3>1. CASE k \in DOMAIN acc
      <4>1. /\ acc'[k].rate =
                   AverageU64(acc[k].rate, acc[k].time, RateIn(reading, k), reading.tick)
            /\ acc'[k].time = 0
        BY <1>1, <3>1, EntryAfter
      <4>2. acc[k].rate \in Nat /\ acc[k].time \in Nat
        BY <1>1, <3>1 DEF BatchTypeOK
      <4>3. /\ RateIn(reading, k) \in Nat
            /\ reading.tick \in Nat /\ reading.tick > 0
        BY ReadingType
      <4>4. AverageU64(acc[k].rate, acc[k].time, RateIn(reading, k), reading.tick) \in Nat
        BY <4>2, <4>3, AverageType
      <4>5. QED
        BY <4>1, <4>4
    <3>2. CASE k \notin DOMAIN acc
      <4>1. k \in DOMAIN reading.rates
        BY <1>1, <2>3, <3>2, EntryAfter
      <4>2. acc'[k] = [rate |-> reading.rates[k], time |-> reading.tick]
        BY <1>1, <2>3, <3>2, EntryAfter
      <4>3. QED
        BY <4>1, <4>2, ReadingType
    <3>3. QED
      BY <3>1, <3>2
  <2>4. QED
    BY <2>1, <2>2, <2>3 DEF BatchTypeOK
<1>2. ASSUME BatchTypeOK, UNCHANGED batchVars PROVE BatchTypeOK'
  BY <1>2 DEF BatchTypeOK, batchVars
<1>3. QED
  BY <1>1, <1>2 DEF BatchNext

\* What was in the first readings stays so.
LEMMA ReportedAfter ==
    ASSUME BatchTypeOK, NEW reading \in Reading, Accumulate(reading), NEW k
    PROVE  /\ Len(batch) \in Nat /\ Len(batch') = Len(batch) + 1
           /\ batch'[Len(batch) + 1] = reading
           /\ \A i \in 1..Len(batch) : batch'[i] = batch[i]
           /\ \A n \in Int : n <= Len(batch) =>
                 (ReportedBy(batch', k, n) <=> ReportedBy(batch, k, n))
           /\ ReportedBy(batch', k, Len(batch'))
                 <=> ReportedBy(batch, k, Len(batch)) \/ k \in DOMAIN reading.rates
<1>1. batch' = Append(batch, reading) /\ batch \in Seq(Reading)
  BY DEF Accumulate, BatchTypeOK
<1>2. /\ Len(batch) \in Nat /\ Len(batch') = Len(batch) + 1
      /\ DOMAIN batch = 1..Len(batch) /\ DOMAIN batch' = 1..Len(batch) + 1
      /\ batch'[Len(batch) + 1] = reading
      /\ \A i \in 1..Len(batch) : batch'[i] = batch[i]
  BY <1>1
<1>3. ASSUME NEW n \in Int, n <= Len(batch)
      PROVE  ReportedBy(batch', k, n) <=> ReportedBy(batch, k, n)
  BY <1>2, <1>3 DEF ReportedBy
<1>4. ReportedBy(batch', k, Len(batch'))
         <=> ReportedBy(batch, k, Len(batch)) \/ k \in DOMAIN reading.rates
  BY <1>2 DEF ReportedBy
<1>5. QED
  BY <1>2, <1>3, <1>4

LEMMA KeysInit == BatchInit => KeysKept
BY DEF BatchInit, KeysKept, ReportedBy

LEMMA KeysNext == BatchTypeOK /\ KeysKept /\ [BatchNext]_batchVars => KeysKept'
<1>1. ASSUME BatchTypeOK, KeysKept, NEW reading \in Reading, Accumulate(reading)
      PROVE  KeysKept'
  <2>1. DOMAIN acc' \subseteq Keys
    BY <1>1, EntryAfter, ReadingType DEF KeysKept
  <2>2. ASSUME NEW k \in Keys
        PROVE  k \in DOMAIN acc' <=> ReportedBy(batch', k, Len(batch'))
    BY <1>1, EntryAfter, ReportedAfter DEF KeysKept
  <2>3. QED
    BY <2>1, <2>2 DEF KeysKept
<1>2. ASSUME KeysKept, UNCHANGED batchVars PROVE KeysKept'
  BY <1>2 DEF KeysKept, batchVars
<1>3. QED
  BY <1>1, <1>2 DEF BatchNext

\* The accumulated output always has the keys that were ever reported and no other, for
\* any number of interfaces, flows and readings.
THEOREM OutputKeepsKeys == BatchSpec => []KeysKept
BY InitType, NextType, KeysInit, KeysNext, PTL DEF BatchSpec

--------------------------------------------------------------------------------
(* The rates.                                                              *)

\* An entry is the reading in which it came, or has lost its Time.
TimeInv ==
    \A k \in DOMAIN acc :
        IF ReportedBy(batch, k, Len(batch) - 1)
        THEN acc[k].time = 0
        ELSE acc[k] = [rate |-> batch[Len(batch)].rates[k], time |-> batch[Len(batch)].tick]

BatchInv == BatchTypeOK /\ KeysKept /\ TimeInv

LEMMA InitInv == BatchInit => BatchInv
BY InitType, KeysInit DEF BatchInit, TimeInv, BatchInv

LEMMA TimeNext ==
    ASSUME BatchTypeOK, KeysKept, NEW reading \in Reading, Accumulate(reading)
    PROVE  TimeInv'
<1>1. ASSUME NEW k \in DOMAIN acc'
      PROVE  IF ReportedBy(batch', k, Len(batch') - 1)
             THEN acc'[k].time = 0
             ELSE acc'[k] = [rate |-> batch'[Len(batch')].rates[k],
                             time |-> batch'[Len(batch')].tick]
  <2>1. /\ Len(batch) \in Nat /\ Len(batch') = Len(batch) + 1 /\ batch'[Len(batch')] = reading
        /\ ReportedBy(batch', k, Len(batch)) <=> ReportedBy(batch, k, Len(batch))
    BY ReportedAfter
  <2>2. k \in Keys
    BY <1>1, EntryAfter, ReadingType DEF KeysKept
  <2>3. k \in DOMAIN acc <=> ReportedBy(batch', k, Len(batch') - 1)
    BY <2>1, <2>2 DEF KeysKept
  <2>4. CASE k \in DOMAIN acc
    BY <2>3, <2>4, EntryAfter
  <2>5. CASE k \notin DOMAIN acc
    BY <1>1, <2>1, <2>3, <2>5, EntryAfter
  <2>6. QED
    BY <2>4, <2>5
<1>2. QED
  BY <1>1 DEF TimeInv

LEMMA NextInv == BatchInv /\ [BatchNext]_batchVars => BatchInv'
<1>1. ASSUME TimeInv, UNCHANGED batchVars PROVE TimeInv'
  BY <1>1 DEF TimeInv, batchVars
<1>2. QED
  BY <1>1, NextType, KeysNext, TimeNext DEF BatchInv, BatchNext

\* The rate of an entry that was there is the average of the old one and the new reading.
LEMMA RateAfter ==
    ASSUME BatchInv, NEW reading \in Reading, Accumulate(reading), NEW k \in DOMAIN acc',
           ReportedBy(batch', k, Len(batch') - 1)
    PROVE  /\ Len(batch) \in Nat /\ Len(batch') = Len(batch) + 1 /\ batch'[Len(batch')] = reading
           /\ \A n \in Int : n <= Len(batch) =>
                 (ReportedBy(batch', k, n) <=> ReportedBy(batch, k, n))
           /\ k \in DOMAIN acc
           /\ acc'[k].rate = AverageU64(acc[k].rate, acc[k].time, RateIn(reading, k), reading.tick)
<1>1. /\ Len(batch) \in Nat /\ Len(batch') = Len(batch) + 1 /\ batch'[Len(batch')] = reading
      /\ \A n \in Int : n <= Len(batch) =>
            (ReportedBy(batch', k, n) <=> ReportedBy(batch, k, n))
  BY ReportedAfter DEF BatchInv
<1>2. k \in Keys
  BY EntryAfter, ReadingType DEF BatchInv, KeysKept
<1>3. k \in DOMAIN acc
  BY <1>1, <1>2 DEF BatchInv, KeysKept
<1>4. QED
  BY <1>1, <1>3, EntryAfter

\* Why AverageOverTime fails, whatever the rates and intervals: from the third reading of
\* a key on its accumulated rate is the last reading, for the entry that updateAccOutput
\* writes has lost its Time, so that what it holds weighs nothing.
THEOREM NothingAccumulates == BatchSpec => []LastReadingOnly
<1>1. ASSUME BatchInv, NEW reading \in Reading, Accumulate(reading) PROVE LastReadingOnly'
  <2>1. SUFFICES ASSUME NEW k \in DOMAIN acc', Len(batch') > 2,
                        ReportedBy(batch', k, Len(batch') - 2)
                 PROVE  acc'[k].rate = RateIn(batch'[Len(batch')], k)
    BY DEF LastReadingOnly
  <2>2. Len(batch') \in Nat
    BY <1>1, ReportedAfter DEF BatchInv
  <2>3. ReportedBy(batch', k, Len(batch') - 1)
    BY <2>1, <2>2 DEF ReportedBy
  <2>4. /\ Len(batch) \in Nat /\ Len(batch') = Len(batch) + 1 /\ batch'[Len(batch')] = reading
        /\ ReportedBy(batch, k, Len(batch) - 1) /\ k \in DOMAIN acc
        /\ acc'[k].rate = AverageU64(acc[k].rate, acc[k].time, RateIn(reading, k), reading.tick)
    BY <1>1, <2>1, <2>3, RateAfter
  <2>5. acc[k].time = 0 /\ acc[k].rate \in Nat
    BY <1>1, <2>4 DEF BatchInv, TimeInv, BatchTypeOK
  <2>6. QED
    BY <2>4, <2>5, ReadingType, WeightZero
<1>2. ASSUME LastReadingOnly, UNCHANGED batchVars PROVE LastReadingOnly'
  BY <1>2 DEF LastReadingOnly, batchVars
<1>3. BatchInit => LastReadingOnly
  BY DEF BatchInit, LastReadingOnly
<1>4. BatchInv /\ LastReadingOnly /\ [BatchNext]_batchVars => LastReadingOnly'
  BY <1>1, <1>2 DEF BatchNext
<1>5. QED
  BY <1>3, <1>4, InitInv, NextInv, PTL DEF BatchSpec

\* The second reading of a key is averaged with the first: they are the only two of which
\* the weights are right.
THEOREM FirstAverageRight == BatchSpec => []TwoAveraged
<1>1. ASSUME BatchInv, NEW reading \in Reading, Accumulate(reading) PROVE TwoAveraged'
  <2>1. SUFFICES ASSUME NEW k \in DOMAIN acc', Len(batch') > 1,
                        ReportedBy(batch', k, Len(batch') - 1),
                        ~ ReportedBy(batch', k, Len(batch') - 2)
                 PROVE  LET n      == Len(batch')
                            time   == batch'[n - 1].tick + batch'[n].tick
                            volume == RateIn(batch'[n - 1], k) * batch'[n - 1].tick
                                      + RateIn(batch'[n], k) * batch'[n].tick
                        IN  /\ acc'[k].rate * time <= volume + time
                            /\ volume <= acc'[k].rate * time + time
    BY DEF TwoAveraged, Volume
  <2>2. /\ Len(batch) \in Nat /\ Len(batch') = Len(batch) + 1 /\ batch'[Len(batch')] = reading
        /\ ~ ReportedBy(batch, k, Len(batch) - 1) /\ k \in DOMAIN acc
        /\ acc'[k].rate = AverageU64(acc[k].rate, acc[k].time, RateIn(reading, k), reading.tick)
    BY <1>1, <2>1, RateAfter
  <2>3. Len(batch') - 1 = Len(batch) /\ Len(batch) \in 1..Len(batch)
    BY <2>1, <2>2
  <2>4. batch'[Len(batch)] = batch[Len(batch)]
    BY <1>1, <2>3, ReportedAfter DEF BatchInv
  <2>5. batch[Len(batch)] \in Reading
    BY <1>1, <2>3 DEF BatchInv, BatchTypeOK
  <2> DEFINE first == batch[Len(batch)]
  <2>6. acc[k] = [rate |-> first.rates[k], time |-> first.tick]
    BY <1>1, <2>2 DEF BatchInv, TimeInv
  <2>7. k \in DOMAIN first.rates
    <3>1. ReportedBy(batch, k, Len(batch)) /\ DOMAIN batch = 1..Len(batch)
      BY <1>1, <2>2 DEF BatchInv, BatchTypeOK, KeysKept
    <3>2. PICK i \in 1..Len(batch) : i <= Len(batch) /\ k \in DOMAIN batch[i].rates
      BY <3>1 DEF ReportedBy
    <3>3. ~ (i <= Len(batch) - 1)
      BY <2>2, <3>1, <3>2 DEF ReportedBy
    <3>4. i = Len(batch)
      BY <2>2, <3>2, <3>3
    <3>5. QED
      BY <3>2, <3>4
  <2>8. /\ RateIn(first, k) \in Nat /\ RateIn(reading, k) \in Nat
        /\ first.tick \in Nat /\ reading.tick \in Nat /\ reading.tick > 0
    BY <2>5, ReadingType
  <2>9. acc'[k].rate = AverageU64(RateIn(first, k), first.tick, RateIn(reading, k), reading.tick)
    <3>1. acc[k].rate = RateIn(first, k) /\ acc[k].time = first.tick
      BY <2>6, <2>7 DEF RateIn
    <3>2. QED
      BY <2>2, <3>1
  <2>10. batch'[Len(batch') - 1] = first /\ batch'[Len(batch')] = reading
    BY <2>2, <2>3, <2>4
  <2> HIDE DEF first
  <2>11. QED
    BY <2>8, <2>9, <2>10, AverageExact
<1>2. ASSUME TwoAveraged, UNCHANGED batchVars PROVE TwoAveraged'
  BY <1>2 DEF TwoAveraged, Volume, batchVars
<1>3. BatchInit => TwoAveraged
  BY DEF BatchInit, TwoAveraged
<1>4. BatchInv /\ TwoAveraged /\ [BatchNext]_batchVars => TwoAveraged'
  BY <1>1, <1>2 DEF BatchNext
<1>5. QED
  BY <1>3, <1>4, InitInv, NextInv, PTL DEF BatchSpec

\* Whatever the rates and intervals: every key that was reported has its entry, and the
\* first two readings of it are averaged over their time.
THEOREM NewEntriesAlwaysRight == BatchSpec => []NewEntriesRight
<1>1. KeysKept /\ TwoAveraged => NewEntriesRight
  BY DEF NewEntriesRight
<1>2. QED
  BY <1>1, OutputKeepsKeys, FirstAverageRight, PTL

================================================================================
