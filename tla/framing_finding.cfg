\* Text in fragments, against what a comment of finalize_message says.
SPECIFICATION Spec
CONSTANTS
    Streams <- MCStreams
    MaxMessageSize = 3
    ByteXor <- MCByteXor
CHECK_DEADLOCK FALSE
INVARIANT
    TextEndsOnACharacter
