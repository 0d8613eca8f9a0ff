SPECIFICATION Spec
CONSTANTS
    MaxPayload = 3
    Payloads <- SmallPayloads
    Noise <- TextAndHeaders
    MaxItems = 4
CHECK_DEADLOCK FALSE
INVARIANTS
    BufferBounded
    OnlyWhatWasSent
    EveryFrameFound
