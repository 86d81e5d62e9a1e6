SPECIFICATION EitherSpec
CONSTANTS
    NbCommands = 9
    SpuriousWakeup = FALSE
    RingSize = 4
INVARIANTS
    WaitsForCreatedEvents
    DestroyedAfterAll
PROPERTIES
    ImplementsInOrderQueue
    DestructorEnds
CHECK_DEADLOCK FALSE
