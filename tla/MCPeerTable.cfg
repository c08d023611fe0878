SPECIFICATION FairSpec
CONSTANTS
    a = a
    b = b
    c = c
    Peer <- MCPeer
    Networks <- MCNetworks
    MaxCopies = 2
    Expiry = 2
    Back = 1
PROPERTIES
    WorkingStaysKnown
    ListCatchesUp
    DeadIsForgotten
    MeshForms
CHECK_DEADLOCK FALSE
