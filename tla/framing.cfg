\* Streams of up to three frames, read in any pieces.
SPECIFICATION Spec
CONSTANTS
    Streams <- MCStreams
    MaxMessageSize = 3
    ByteXor <- MCByteXor
INVARIANTS
    TypeOK
    MessagesOfTheFrames
    NothingHeldBack
    HalfCharactersAreFragments
CHECK_DEADLOCK FALSE
