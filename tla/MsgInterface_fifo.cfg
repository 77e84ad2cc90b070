SPECIFICATION Spec
CONSTANTS
    N = 3
    Top = 3
    U32 = 16
    Pub <- LinkPub
    LinkTick <- MCLinkTick
PROPERTY FifoUntilRaced
CONSTRAINT BeforeRace
