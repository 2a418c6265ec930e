SPECIFICATION FairTwampSpec
CONSTANTS
    Modes = {1}
    Codes = {0}
    MaySplit = FALSE
    None = None
    Other = Other
    Count = 2
    Width = 4
    Times = {1, 3}
    MaxCalls = 2
    MaxExtra = 1
    MaxLost = 1
CHECK_DEADLOCK FALSE
PROPERTIES RunReturns
