SPECIFICATION LoopSpec
CONSTANTS
    Pairs = 2
    Unit = 2
    Queries = {0, 2}
    Capacity = 2
    Turn = 1
    Blinking = 2
    Step = 2
    Wrap = 20
    Period <- MCPeriod
    Longest = 6
INVARIANTS OnTime
PROPERTIES TicksInTurn NeverEarly PairsServed LinkServed
