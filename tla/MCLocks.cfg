SPECIFICATION Spec
CONSTANTS
    Thread = {"window", "peer", "controller", "background"}
    NoThread = NoThread
    Calls <- RunningNode
INVARIANTS
    LocksInOrder
    NoWaitCycle
CHECK_DEADLOCK FALSE
