SPECIFICATION BatchSpec
CONSTANTS
    k1 = k1
    Keys = {k1}
    Rates = {0, 10}
    Ticks = {1, 2}
    CountOpt = 3
CHECK_DEADLOCK FALSE
INVARIANTS AverageOverTime
