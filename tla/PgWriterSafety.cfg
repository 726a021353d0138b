SPECIFICATION Spec
CONSTANTS
    QueueCapacity = 3
    BatchMax = 2
    MaxEvents = 4
    MaxOrphans = 1
    Poison <- MCPoison
INVARIANTS
    TypeOK
    RingIsFifo
    AckedIsStored
    AtMostOneRow
    DroppedWasRefusedAlone
    SuspectsGoAlone
    NoLostWakeup
PROPERTIES
    GracefulExitLosesOnlyAfterDeadline
