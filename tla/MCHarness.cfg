\* Three turns of the waiting loop stand for sixty.
SPECIFICATION Spec
CONSTANT MaxTries = 3
INVARIANTS
    TypeOK
    NothingLeftBehind
    GreenMeansTested
    ReadinessGate
PROPERTY
    EventuallyExits
