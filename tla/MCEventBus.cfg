CONSTANTS
    LastMessage = 3
    Consumers = {c1, c2}
    Poison = {1}
    Garbage = {3}
    MaxTroubles = 2
    None = None
SPECIFICATION Spec
INVARIANTS
    NothingIsForgotten
    RepeatedOnlyIfReturned
PROPERTIES
    AtLeastOnceKept
    EventsAreHandled
CHECK_DEADLOCK FALSE
