SPECIFICATION Spec
CONSTANTS
    N = 2
    Top = 3
    U32 = 16
    Pub <- MCPub
    LinkTick <- MCLinkTick
INVARIANT PendingExact
