SPECIFICATION Spec
CONSTANTS
    Size = 5
    Cell <- MCCell
    HeadByte = "aa"
    Erased = "ff"
    Worn = "worn"
    DefaultBody <- MCDefault
    Bodies <- MCBodies
    Faults <- AllFaults
INVARIANT NeverTorn
