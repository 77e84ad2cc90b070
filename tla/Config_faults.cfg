SPECIFICATION FairFormSpec
CONSTANTS
    Size = 7
    Cell <- MCCell
    HeadByte = "aa"
    Erased = "ff"
    Worn = "worn"
    DefaultBody <- MCDefault
    Bodies = {}
    Faults <- AllFaults
    Params <- MCParams
    IntBytes = 2
    One = "1"
    Absent = Absent
    Forms <- MCForms
    Stacks <- MCStacks
INVARIANTS NoMixture Durable
PROPERTIES BackInService FormHonoured
