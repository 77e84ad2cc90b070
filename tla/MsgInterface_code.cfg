SPECIFICATION FairSpec
CONSTANTS
    N = 2
    Top = 2
    U32 = 16
    Pub <- LinkPub
    LinkTick <- MCLinkTick
INVARIANTS CountBound NoUnderflow
PROPERTY Drains
