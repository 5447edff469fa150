CONSTANTS
    Capacity = 4
    MaxItems = 6
SPECIFICATION Spec
INVARIANTS
    TypeOK
    NoDataRace
PROPERTIES
    QueueRefinesFifo
    EveryPushConsumed
