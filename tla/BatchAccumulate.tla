---------------------------- MODULE BatchAccumulate ----------------------------
(***************************************************************************)
(* hal-client batch (cmd/client/main.go 204-469): at intervals it reads    *)
(* the rates of all interfaces and flows and, with the flag -a, folds them *)
(* into an accumulated output whose entries are averages weighted by time. *)
(*                                                                         *)
(* Interfaces and flows go through the same steps and are both keys here;  *)
(* of the fields of an entry, all averaged alike, one integer rate stands  *)
(* for all.  Times are whole seconds.                                      *)
(***************************************************************************)
EXTENDS Naturals, Sequences, Functions

CONSTANTS
    Keys,      \* names of interfaces, keys of flows
    Rates,     \* rates the HAL may report
    Ticks,     \* intervals between two readings
    CountOpt   \* countOpt

ASSUME BatchAssumption ==
    Rates \subseteq Nat /\ Ticks \subseteq Nat \ {0} /\ CountOpt \in Nat

VARIABLES
    batch,  \* the readings: entry after entry, with the interval in front of each
    acc     \* the accumulated output: key -> rate and Time

batchVars == <<batch, acc>>

\* A reading: the rates of the keys that were reported.
Reading == [rates : UNION {[K -> Rates] : K \in SUBSET Keys}, tick : Ticks]

BatchInit == batch = <<>> /\ acc = [k \in {} |-> 0]

\* Mutant of AverageU64: each weight with the other value.
AverageSwapped(a, weightA, b, weightB) == (a * weightB + b * weightA) \div (weightA + weightB)

\* AverageF64.U64, which truncates.  The model does not round before it does, as float64
\* may; the properties leave room for it.
AverageU64(a, weightA, b, weightB) == (a * weightA + b * weightB) \div (weightA + weightB)

\* A key that was not reported counts as zero.
RateIn(reading, k) == IF k \in DOMAIN reading.rates THEN reading.rates[k] ELSE 0

\* The new value of an entry that was there.  Nothing sets the Time of nextIf and
\* nextFlow.
Merged(old, rate, tick) ==
    [rate |-> AverageU64(old.rate, old.time, rate, tick), time |-> 0]

\* The keys of the next output: those reported, and those that were there before.
NextKeys(old, reading) == DOMAIN old \cup DOMAIN reading.rates

\* updateAccOutput.
UpdatedAcc(old, reading) ==
    [k \in NextKeys(old, reading) |->
        IF k \in DOMAIN old
        THEN Merged(old[k], RateIn(reading, k), reading.tick)
        ELSE [rate |-> reading.rates[k], time |-> reading.tick]]

\* One iteration of the loop.
Accumulate(reading) ==
    /\ Len(batch) < CountOpt
    /\ batch' = Append(batch, reading)
    /\ acc' = UpdatedAcc(acc, reading)

BatchNext == \E reading \in Reading : Accumulate(reading)

BatchSpec == BatchInit /\ [][BatchNext]_batchVars

--------------------------------------------------------------------------------
(* Properties                                                              *)

\* Was key k in one of the first n readings?
ReportedBy(readings, k, n) ==
    \E i \in DOMAIN readings : i <= n /\ k \in DOMAIN readings[i].rates

\* An entry, once it is there, stays: the output has every key that was ever reported
\* and no other (main.go 344-366, 397-416).
KeysKept == DOMAIN acc = {k \in Keys : ReportedBy(batch, k, Len(batch))}

\* What reading i adds to the sum that is averaged.
Volume(k, i) == RateIn(batch[i], k) * batch[i].tick

\* The second reading of a key is averaged with the first, weighted by time and exact to
\* one unit, even if it lacks the key.
TwoAveraged ==
    \A k \in DOMAIN acc :
        LET n      == Len(batch)
            time   == batch[n - 1].tick + batch[n].tick
            volume == Volume(k, n - 1) + Volume(k, n)
        IN  n > 1 /\ ReportedBy(batch, k, n - 1) /\ ~ ReportedBy(batch, k, n - 2) =>
              /\ acc[k].rate * time <= volume + time
              /\ volume <= acc[k].rate * time + time

\* The part of "accumulate" (main.go 683) that the code keeps: no key is dropped, and two
\* readings are averaged over their time.
NewEntriesRight == KeysKept /\ TwoAveraged

\* What is accumulated of a key is the average of its rate over the time since it was
\* first reported, exact to one unit for each reading (main.go 683: "accumulate flow
\* statistics in batch mode", 214 and 227: "accumulated time", 349 and 399: "Update
\* average").
AverageOverTime ==
    \A k \in DOMAIN acc :
        LET since  == {i \in DOMAIN batch : ReportedBy(batch, k, i)}
            time   == SumFunction([i \in since |-> batch[i].tick])
            volume == SumFunction([i \in since |-> Volume(k, i)])
        IN  /\ acc[k].rate * time <= volume + Len(batch) * time
            /\ volume <= acc[k].rate * time + Len(batch) * time

\* What the code does instead: from the third reading of a key on its entry is the last
\* reading, whatever came before.
LastReadingOnly ==
    \A k \in DOMAIN acc :
        LET n == Len(batch)
        IN  n > 2 /\ ReportedBy(batch, k, n - 2) => acc[k].rate = RateIn(batch[n], k)

================================================================================
