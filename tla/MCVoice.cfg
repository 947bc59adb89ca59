CONSTANTS
    None = none
    MaxFrames = 3
    Silence = 2
    SeqSize = 3
    NonceSize = 7
    FirstNonce = 5
    MaxServers = 2
    MaxCloses = 1
SPECIFICATION Spec
INVARIANTS ConnectsOnce PacketsInOrder OneStalePacket NobodyForgotten
CHECK_DEADLOCK FALSE
