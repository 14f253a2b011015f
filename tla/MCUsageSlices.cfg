SPECIFICATION SlicesSpec
CONSTANTS
    a = a
    b = b
    g1 = g1
    g2 = g2
    NoId = NoId
    MessageId = {a, b}
    Group = {g1, g2}
    MaxTokens = 2
    MaxUsageLines = 4
    ClockChange <- MCClockChange
    Shift <- MCShift
    ChartTime <- MCChartTime
    PeriodDays <- MCPeriodDays
    MonthDays = 2
SYMMETRY Symmetry
INVARIANTS
    NeverUnderCounted
    ExactBetweenCalls
    EveryChartWhole
PROPERTIES
    ContextOfLastCall
CHECK_DEADLOCK FALSE
