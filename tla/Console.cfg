SPECIFICATION FairSpec
CONSTANTS
    MaxCnt = 2
    MaxSize = 1
    CR = "CR"
    LF = "LF"
    Char <- MCChar
    MaxNotices = 3
    MaxBytes = 9
INVARIANTS CountFits InOrder Backlog RecordedAsTyped
PROPERTY AllServed
CHECK_DEADLOCK FALSE
