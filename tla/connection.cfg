\* One connection from accept to termination; the client sends a request and up to
\* four frames, three of them unread at a time, and may leave.
SPECIFICATION FairSpec
CONSTANTS
    MaxSent = 5
    MaxInbox = 3
INVARIANTS
    TypeOK
    WireInOrder
    CloseLosesNothing
PROPERTIES
    StateAdvances
    NoAbruptDrop
    ImplementsLife
    ClosesInTheEnd
    WritesCatchUp
CHECK_DEADLOCK FALSE
