SPECIFICATION Spec
CONSTANTS
    QueueCapacity = 3
    BatchMax = 2
    MaxEvents = 4
    MaxOrphans = 0
    Poison <- MCPoison
PROPERTIES
    ImplementsAccountingLog
