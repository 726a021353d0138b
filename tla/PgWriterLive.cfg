SPECIFICATION LiveSpec
CONSTANTS
    QueueCapacity = 2
    BatchMax = 2
    MaxEvents = 3
    MaxOrphans = 0
    Poison <- MCPoison
PROPERTIES
    EventuallySettled
