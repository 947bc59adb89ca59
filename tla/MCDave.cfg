CONSTANTS
    None = none
    Bot = bot
    Users = {a, b}
    GenSize = 2
    NonceSize = 4
    MaxCommits = 3
    MaxMoves = 2
    MaxInbox = 4
    MaxFrames = 5
SPECIFICATION Spec
INVARIANTS NonceOnce FramesAreReadable SpeaksAsExecuted
CHECK_DEADLOCK FALSE
SYMMETRY Symmetry
