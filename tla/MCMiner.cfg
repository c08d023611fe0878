SPECIFICATION FairSpec
CONSTANTS
    w1 = w1
    w2 = w2
    Worker <- MCWorker
    MaxSession = 4
INVARIANTS
    ActiveIsMining
    OneLateBlock
PROPERTIES
    StoppedEnds
\* The window need not start mining again.
CHECK_DEADLOCK FALSE
